---------------------------- MODULE ClusterProofs ----------------------------
(***************************************************************************)
(* While nothing fails and the cluster changes only in ways of which the   *)
(* controllers miss nothing that is to go, nothing stays in the registry   *)
(* that should not be there; and it shows the cluster, unless an address   *)
(* more or a namespace that becomes watched has been missed, and then      *)
(* again after the next restart or resync.  Proved for Operator.           *)
(***************************************************************************)
EXTENDS RegistryProofs

(***************************************************************************)
(* What the registry has at most of a service, and how the lists of events *)
(* change that.                                                            *)
(***************************************************************************)

AtMost(s, O) == {R \in SafeRegistries : DOMAIN R \cap ObjectsOf(s) \subseteq O}
EmptyRegistry == {R \in SafeRegistries : DOMAIN R = {}}

\* An event adds its object at most.
LEMMA AfterAdds ==
  ASSUME NEW R \in SafeRegistries, NEW e \in SafeEvents
  PROVE  After(R, e) \in SafeRegistries /\ DOMAIN After(R, e) \subseteq DOMAIN R \cup {e.object}
<1>1. After(R, e) \in SafeRegistries
  BY AfterTyped
<1>2. DOMAIN After(R, e) \subseteq DOMAIN R \cup {e.object}
  BY DEF After
<1> QED
  BY <1>1, <1>2

\* Events of other services, and those that delete, bring in nothing.
LEMMA OthersKeepAtMost ==
  ASSUME NEW s, NEW O, NEW q \in SafeLists,
         \A i \in 1..Len(q) : q[i].type = "delete" \/ q[i].object \notin ObjectsOf(s) \ O
  PROVE  \A R \in AtMost(s, O) : EndsIn(R, q, AtMost(s, O))
<1> DEFINE P == [i \in 0..Len(q) |-> AtMost(s, O)]
<1>1. q \in Seq(SafeEvents) /\ Len(q) \in Nat /\ \A i \in 1..Len(q) : q[i] \in SafeEvents
  BY DEF SafeLists
<1>2. \A i \in 0..Len(q) : P[i] = AtMost(s, O)
  OBVIOUS
<1> HIDE DEF P
<1>3. ASSUME NEW i \in 1..Len(q), NEW x \in P[i - 1]
      PROVE  After(x, q[i]) \in P[i]
  <2>1. x \in AtMost(s, O) /\ P[i] = AtMost(s, O)
    BY <1>1, <1>2, <1>3
  <2>2. After(x, q[i]) \in SafeRegistries
        /\ DOMAIN After(x, q[i]) \subseteq DOMAIN x \cup {q[i].object}
    BY <1>1, <2>1, AfterAdds DEF AtMost
  <2>3. q[i].type = "delete" => DOMAIN After(x, q[i]) \subseteq DOMAIN x
    BY DEF After
  <2>4. DOMAIN After(x, q[i]) \cap ObjectsOf(s) \subseteq O
    BY <2>1, <2>2, <2>3 DEF AtMost
  <2> QED
    BY <2>1, <2>2, <2>4 DEF AtMost
<1>4. \A R \in P[0] : EndsIn(R, q, P[Len(q)])
  BY <1>1, <1>3, Walk
<1> QED
  BY <1>1, <1>2, <1>4

\* What has nothing below it is deleted.
LEMMA DeletesChildless ==
  ASSUME NEW R \in SafeRegistries, NEW e \in SafeEvents, e.type = "delete",
         \A c \in DOMAIN R : c # <<>> => Parent(c) # e.object
  PROVE  DOMAIN After(R, e) = DOMAIN R \ {e.object}
BY DEF After

LEMMA EndpointsHaveNoChildren ==
  ASSUME NEW s \in Services, NEW a \in Addresses, NEW c \in Objects, c # <<>>
  PROVE  Parent(c) # <<s, a>>
<1>1. CASE \E t \in Services : c = <<t>>
  BY <1>1, Paths
<1>2. CASE c \in Services \X Addresses
  <2>1. PICK t \in Services, b \in Addresses : c = <<t, b>>
    BY <1>2
  <2>2. Parent(<<t, b>>) = <<t>> /\ <<t>> # <<s, a>>
    BY Paths
  <2> QED
    BY <2>1, <2>2
<1> QED
  BY <1>1, <1>2 DEF Objects

LEMMA ChildrenOfService ==
  ASSUME NEW s \in Services, NEW c \in Objects, c # <<>>, Parent(c) = <<s>>
  PROVE  c \in ObjectsOf(s) \ {<<s>>}
<1>1. CASE \E t \in Services : c = <<t>>
  BY <1>1, Paths
<1>2. CASE c \in Services \X Addresses
  <2>1. PICK t \in Services, b \in Addresses : c = <<t, b>>
    BY <1>2
  <2>2. Parent(<<t, b>>) = <<t>> /\ (<<t>> = <<s>> => t = s) /\ <<s>> # <<s, b>>
    BY Paths
  <2>3. t = s
    BY <2>1, <2>2
  <2> QED
    BY <2>1, <2>2, <2>3 DEF ObjectsOf
<1> QED
  BY <1>1, <1>2 DEF Objects

\* Of endpoints that have an event each, those of K may stay if the others are deleted.
LEMMA EndpointsLeft ==
  ASSUME NEW s \in Services, NEW q \in SafeLists, NEW K,
         \A i \in 1..Len(q) : /\ q[i].object \in {<<s, a>> : a \in Addresses}
                              /\ q[i].object \notin K => q[i].type = "delete",
         NEW R \in AtMost(s, {<<s>>} \cup K \cup {q[i].object : i \in 1..Len(q)})
  PROVE  EndsIn(R, q, AtMost(s, {<<s>>} \cup K))
<1> DEFINE Left(k) == {q[i].object : i \in (k + 1)..Len(q)}
           May(k) == AtMost(s, {<<s>>} \cup K \cup Left(k))
           P == [k \in 0..Len(q) |-> May(k)]
<1>1. q \in Seq(SafeEvents) /\ Len(q) \in Nat /\ \A i \in 1..Len(q) : q[i] \in SafeEvents
  BY DEF SafeLists
<1>2. ASSUME NEW k \in 1..Len(q), NEW x \in May(k - 1)
      PROVE  After(x, q[k]) \in May(k)
  <2> DEFINE o == q[k].object
             new == After(x, q[k])
  <2>1. x \in SafeRegistries /\ q[k] \in SafeEvents
    BY <1>1 DEF AtMost
  <2>2. new \in SafeRegistries /\ DOMAIN new \subseteq DOMAIN x \cup {o}
    BY <2>1, AfterAdds
  <2>3. Left(k - 1) \subseteq Left(k) \cup {o}
    BY <1>1
  <2>4. DOMAIN x \cap ObjectsOf(s) \subseteq {<<s>>} \cup K \cup Left(k) \cup {o}
    BY <2>3 DEF AtMost
  <2>5. o \notin K => DOMAIN new = DOMAIN x \ {o}
    <3> SUFFICES ASSUME o \notin K
                 PROVE  DOMAIN new = DOMAIN x \ {o}
      OBVIOUS
    <3>1. PICK a \in Addresses : o = <<s, a>>
      OBVIOUS
    <3>2. \A c \in DOMAIN x : c \in Objects
      BY <2>1 DEF SafeRegistries
    <3>3. q[k].type = "delete"
      OBVIOUS
    <3>4. \A c \in DOMAIN x : c # <<>> => Parent(c) # q[k].object
      BY <3>1, <3>2, EndpointsHaveNoChildren
    <3> QED
      BY <2>1, <3>3, <3>4, DeletesChildless
  <2> HIDE DEF o, new, Left
  <2>6. DOMAIN new \cap ObjectsOf(s) \subseteq {<<s>>} \cup K \cup Left(k)
    BY <2>2, <2>4, <2>5
  <2> QED
    BY <2>2, <2>6 DEF AtMost, new
<1>3. \A k \in 0..Len(q) : P[k] = May(k)
  OBVIOUS
<1>4. R \in May(0) /\ May(Len(q)) = AtMost(s, {<<s>>} \cup K)
  <2>1. Left(0) = {q[i].object : i \in 1..Len(q)} /\ Left(Len(q)) = {}
    BY <1>1
  <2> HIDE DEF Left
  <2> QED
    BY <2>1
<1> HIDE DEF P, May
<1>5. \A k \in 1..Len(q) : \A x \in P[k - 1] : After(x, q[k]) \in P[k]
  BY <1>1, <1>2, <1>3
<1>6. \A x \in P[0] : EndsIn(x, q, P[Len(q)])
  BY <1>1, <1>5, Walk
<1> QED
  BY <1>1, <1>3, <1>4, <1>6

LEMMA EachLeft ==
  ASSUME NEW s \in Services, NEW check \in SafeChecks, NEW K,
         NEW F \in [Objects -> SafeEvents], \A e \in Objects : F[e].object = e,
         \A e \in EndpointsOf(s, check) : e \notin K => F[e].type = "delete",
         NEW p \in SetToSeqs(EndpointsOf(s, check)),
         NEW R \in AtMost(s, {<<s>>} \cup K \cup EndpointsOf(s, check))
  PROVE  EndsIn(R, [i \in DOMAIN p |-> F[p[i]]], AtMost(s, {<<s>>} \cup K))
<1> DEFINE S == EndpointsOf(s, check)
           q == [i \in DOMAIN p |-> F[p[i]]]
           n == Cardinality(S)
<1>1. S \subseteq Objects /\ IsFiniteSet(S)
  BY EndpointsTyped
<1>2. n \in Nat /\ p \in [1..n -> S]
  BY <1>1, ListTyped
<1>3. \A e \in S : \E i \in 1..n : p[i] = e
  BY <1>1, ListComplete
<1>4. q \in [1..n -> SafeEvents] /\ \A i \in 1..n : q[i] = F[p[i]] /\ q[i].object = p[i]
  BY <1>1, <1>2
<1>5. S \subseteq {<<s, a>> : a \in Addresses}
  BY DEF EndpointsOf, SafeChecks
<1>6. \A e \in S : e \notin K => F[e].type = "delete"
  OBVIOUS
<1>7. R \in AtMost(s, {<<s>>} \cup K \cup S)
  OBVIOUS
<1> HIDE DEF S, q, n
<1>8. q \in SafeLists /\ Len(q) = n
  BY <1>2, <1>4 DEF SafeLists
<1>9. \A i \in 1..Len(q) : /\ q[i].object \in {<<s, a>> : a \in Addresses}
                           /\ q[i].object \notin K => q[i].type = "delete"
  BY <1>2, <1>4, <1>5, <1>6, <1>8
<1>10. S = {q[i].object : i \in 1..Len(q)}
  <2>1. \A i \in 1..n : q[i].object \in S
    BY <1>2, <1>4
  <2>2. \A e \in S : \E i \in 1..n : q[i].object = e
    BY <1>3, <1>4
  <2> QED
    BY <1>8, <2>1, <2>2
<1>11. EndsIn(R, q, AtMost(s, {<<s>>} \cup K))
  BY <1>7, <1>8, <1>9, <1>10, EndpointsLeft
<1> QED
  BY <1>11 DEF q

\* What is shown of a service that passes its checks.
All(s, check) == {<<s>>} \cup EndpointsOf(s, check)

\* A deletion leaves nothing of a service.
LEMMA DeletionClears ==
  ASSUME NEW s \in Services, NEW check \in SafeChecks, NEW q \in Deletion(s, check),
         NEW R \in AtMost(s, All(s, check))
  PROVE  EndsIn(R, q, AtMost(s, {}))
<1> DEFINE S == EndpointsOf(s, check)
           F == [e \in Objects |-> Delete(e)]
           last == Delete(<<s>>)
           end == <<last>>
<1>1. F \in [Objects -> SafeEvents] /\ last \in SafeEvents
  BY PathsTyped, EventsTyped
<1>2. \A e \in Objects : F[e].object = e /\ F[e].type = "delete"
  BY DEF Delete
<1>3. S \subseteq Objects /\ IsFiniteSet(S)
  BY EndpointsTyped
<1>4. PICK p \in SetToSeqs(S) : q = [i \in DOMAIN p |-> Delete(p[i])] \o end
  BY DEF Deletion, Each
<1>5. \A i \in DOMAIN p : p[i] \in Objects
  BY <1>3, ListTyped
<1>6. [i \in DOMAIN p |-> Delete(p[i])] = [i \in DOMAIN p |-> F[p[i]]]
  BY <1>5
<1> DEFINE front == [i \in DOMAIN p |-> F[p[i]]]
<1> HIDE DEF F
<1>7. front \in SafeLists
  BY <1>1, <1>3, EndpointListTyped
<1>8. EndsIn(R, front, AtMost(s, {<<s>>}))
  <2>1. R \in AtMost(s, {<<s>>} \cup {} \cup S)
    BY DEF AtMost, All
  <2>2. \A e \in EndpointsOf(s, check) : e \notin {} => F[e].type = "delete"
    BY <1>2, <1>3
  <2>3. EndsIn(R, front, AtMost(s, {<<s>>} \cup {}))
    BY <1>1, <1>2, <2>1, <2>2, EachLeft
  <2> QED
    BY <2>3
<1>9. ASSUME NEW x \in AtMost(s, {<<s>>})
      PROVE  After(x, last) \in AtMost(s, {})
  <2>1. x \in SafeRegistries /\ DOMAIN x \subseteq Objects
    BY DEF AtMost, SafeRegistries
  <2>2. last.type = "delete" /\ last.object = <<s>>
    BY DEF Delete
  <2>3. \A c \in DOMAIN x : c # <<>> => Parent(c) # <<s>>
    BY <2>1, ChildrenOfService DEF AtMost
  <2>4. DOMAIN After(x, last) = DOMAIN x \ {<<s>>}
    BY <1>1, <2>1, <2>2, <2>3, DeletesChildless
  <2>5. After(x, last) \in SafeRegistries
    BY <1>1, <2>1, AfterTyped
  <2> QED
    BY <2>4, <2>5 DEF AtMost
<1>10. ASSUME NEW x \in AtMost(s, {<<s>>})
       PROVE  EndsIn(x, end, AtMost(s, {}))
  <2>1. Len(end) = 1 /\ end[1] = last
    OBVIOUS
  <2> HIDE DEF end, last
  <2> QED
    BY <1>9, <2>1 DEF EndsIn, IsTrace
<1>11. end \in SafeLists
  BY <1>1 DEF SafeLists
<1>12. q = front \o end
  BY <1>4, <1>6
<1> HIDE DEF front, end
<1> QED
  BY <1>7, <1>8, <1>10, <1>11, <1>12, EndsInAppended DEF SafeLists

\* The first events of a creation and of a modification are about nothing else.
LEMMA ParentsWithin ==
  ASSUME NEW s \in Services, NEW O, <<s>> \in O
  PROVE  /\ <<Create(<<>>, {}), Create(<<s>>, {})>> \in SafeLists
         /\ \A R \in AtMost(s, O) :
              EndsIn(R, <<Create(<<>>, {}), Create(<<s>>, {})>>, AtMost(s, O))
<1> DEFINE a == Create(<<>>, {})
           b == Create(<<s>>, {})
           q == <<a, b>>
<1>1. a \in SafeEvents /\ b \in SafeEvents
  BY PathsTyped, EventsTyped
<1>2. a.object = <<>> /\ b.object = <<s>> /\ <<>> \notin ObjectsOf(s)
  BY Paths DEF Create, ObjectsOf
<1> HIDE DEF a, b
<1>3. q \in SafeLists /\ Len(q) = 2 /\ q[1] = a /\ q[2] = b
  BY <1>1 DEF SafeLists
<1> HIDE DEF q
<1>4. \A i \in 1..Len(q) : q[i].object \notin ObjectsOf(s) \ O
  BY <1>2, <1>3
<1>5. \A R \in AtMost(s, O) : EndsIn(R, q, AtMost(s, O))
  BY <1>3, <1>4, OthersKeepAtMost
<1> QED
  BY <1>3, <1>5 DEF q, a, b

\* A modification leaves only what the service still has, a creation what it has got.
LEMMA ModificationLeaves ==
  ASSUME NEW s \in Services, NEW old \in SafeChecks, NEW new \in SafeChecks,
         NEW q \in Modification(s, old, new), NEW R \in AtMost(s, All(s, old))
  PROVE  EndsIn(R, q, AtMost(s, All(s, new)))
<1> DEFINE S == EndpointsOf(s, old)
           K == EndpointsOf(s, new)
           f(e) == IF e \in EndpointsOf(s, new) THEN Update(e, new.metadata) ELSE Delete(e)
           F == [e \in Objects |-> f(e)]
           head == <<Create(<<>>, {}), Create(<<s>>, {})>>
<1>1. F \in [Objects -> SafeEvents]
  BY EventsTyped DEF SafeChecks
<1>2. /\ \A e \in Objects : F[e].object = e
      /\ \A e \in Objects : e \notin K => F[e].type = "delete"
  BY DEF Update, Delete
<1>3. S \subseteq Objects /\ IsFiniteSet(S)
  BY EndpointsTyped DEF EndpointsOf
<1>4. PICK p \in SetToSeqs(S) : q = head \o [i \in DOMAIN p |-> f(p[i])]
  BY DEF Modification, Each
<1>5. \A i \in DOMAIN p : p[i] \in Objects
  BY <1>3, ListTyped
<1>6. [i \in DOMAIN p |-> f(p[i])] = [i \in DOMAIN p |-> F[p[i]]]
  BY <1>5
<1> DEFINE tail == [i \in DOMAIN p |-> F[p[i]]]
<1> HIDE DEF F
<1>7. tail \in SafeLists
  BY <1>1, <1>3, EndpointListTyped
<1>8. \A x \in AtMost(s, All(s, old)) : EndsIn(x, tail, AtMost(s, All(s, new)))
  <2>1. \A e \in EndpointsOf(s, old) : e \notin K => F[e].type = "delete"
    BY <1>2, <1>3
  <2>2. \A x \in AtMost(s, All(s, old)) : x \in AtMost(s, {<<s>>} \cup K \cup S)
    BY DEF AtMost, All
  <2>3. \A x \in AtMost(s, All(s, old)) : EndsIn(x, tail, AtMost(s, {<<s>>} \cup K))
    BY <1>1, <1>2, <2>1, <2>2, EachLeft
  <2> QED
    BY <2>3 DEF All
<1>9. q = head \o tail
  BY <1>4, <1>6
<1>10. head \in SafeLists /\ EndsIn(R, head, AtMost(s, All(s, old)))
  BY ParentsWithin DEF All
<1> HIDE DEF head, tail
<1> QED
  BY <1>7, <1>8, <1>9, <1>10, EndsInAppended DEF SafeLists

LEMMA CreationAdds ==
  ASSUME NEW s \in Services, NEW check \in SafeChecks, NEW q \in Creation(s, check),
         NEW R \in AtMost(s, All(s, check))
  PROVE  EndsIn(R, q, AtMost(s, All(s, check)))
<1> DEFINE S == EndpointsOf(s, check)
           F == [e \in Objects |-> Create(e, check.metadata)]
           head == <<Create(<<>>, {}), Create(<<s>>, {})>>
<1>1. F \in [Objects -> SafeEvents]
  BY EventsTyped DEF SafeChecks
<1>2. \A e \in Objects : F[e].object = e
  BY DEF Create
<1>3. S \subseteq Objects /\ IsFiniteSet(S)
  BY EndpointsTyped
<1>4. PICK p \in SetToSeqs(S) : q = head \o [i \in DOMAIN p |-> Create(p[i], check.metadata)]
  BY DEF Creation, Each
<1>5. \A i \in DOMAIN p : p[i] \in Objects
  BY <1>3, ListTyped
<1>6. [i \in DOMAIN p |-> Create(p[i], check.metadata)] = [i \in DOMAIN p |-> F[p[i]]]
  BY <1>5
<1> DEFINE tail == [i \in DOMAIN p |-> F[p[i]]]
<1> HIDE DEF F
<1>7. tail \in SafeLists
  BY <1>1, <1>3, EndpointListTyped
<1>8. \A x \in AtMost(s, All(s, check)) : EndsIn(x, tail, AtMost(s, All(s, check)))
  <2>1. \A e \in EndpointsOf(s, check) : e \notin S => F[e].type = "delete"
    OBVIOUS
  <2>2. \A x \in AtMost(s, All(s, check)) : x \in AtMost(s, {<<s>>} \cup S \cup S)
    BY DEF AtMost, All
  <2>3. \A x \in AtMost(s, All(s, check)) : EndsIn(x, tail, AtMost(s, {<<s>>} \cup S))
    BY <1>1, <1>2, <2>1, <2>2, EachLeft
  <2> QED
    BY <2>3 DEF All
<1>9. q = head \o tail
  BY <1>4, <1>6
<1>10. head \in SafeLists /\ EndsIn(R, head, AtMost(s, All(s, check)))
  BY ParentsWithin DEF All
<1> HIDE DEF head, tail
<1> QED
  BY <1>7, <1>8, <1>9, <1>10, EndsInAppended DEF SafeLists
-----------------------------------------------------------------------------
(***************************************************************************)
(* What is still to be looked at takes the registry from one set to the    *)
(* next, whichever list is made of each change.                            *)
(***************************************************************************)

\* Each of the lists takes a registry of G to one of H.
Takes(lists, G, H) == \A q \in lists : \A R \in G : EndsIn(R, q, H)

\* The events of E, and then one list for each change of q, take R to a registry of H:
\* L[n] are the lists that may be made of a change n.
Staged(R, E, q, L, H) ==
  \E G : /\ EndsIn(R, E, G[0])
         /\ \A i \in 1..Len(q) : Takes(L[q[i]], G[i - 1], G[i])
         /\ G[Len(q)] = H

LEMMA StagedNone ==
  ASSUME NEW R, NEW E, NEW L, NEW H
  PROVE  Staged(R, E, <<>>, L, H) <=> EndsIn(R, E, H)
<1>0. Len(<<>>) = 0
  OBVIOUS
<1>1. ASSUME EndsIn(R, E, H)
      PROVE  Staged(R, E, <<>>, L, H)
  <2> DEFINE G == [i \in {0} |-> H]
  <2>1. G[0] = H
    OBVIOUS
  <2> HIDE DEF G
  <2> QED
    BY <1>0, <1>1, <2>1 DEF Staged
<1>2. Staged(R, E, <<>>, L, H) => EndsIn(R, E, H)
  BY <1>0 DEF Staged
<1> QED
  BY <1>1, <1>2

\* An event is dealt with.
LEMMA StagedTail ==
  ASSUME NEW E \in SafeLists, E # <<>>, NEW R, NEW q, NEW L, NEW H, Staged(R, E, q, L, H)
  PROVE  Staged(After(R, Head(E)), Tail(E), q, L, H)
<1>1. PICK G : /\ EndsIn(R, E, G[0])
               /\ \A i \in 1..Len(q) : Takes(L[q[i]], G[i - 1], G[i])
               /\ G[Len(q)] = H
  BY DEF Staged
<1>2. EndsIn(After(R, Head(E)), Tail(E), G[0])
  BY <1>1, EndsInTail DEF SafeLists
<1> QED
  BY <1>1, <1>2 DEF Staged

\* A list is made of the first change.
LEMMA StagedFirst ==
  ASSUME NEW E \in SafeLists, NEW R, NEW S, NEW q \in Seq(S), q # <<>>, NEW L, NEW H,
         Staged(R, E, q, L, H), NEW l \in SafeLists, l \in L[Head(q)]
  PROVE  Staged(R, E \o l, Tail(q), L, H)
<1>1. PICK G : /\ EndsIn(R, E, G[0])
               /\ \A i \in 1..Len(q) : Takes(L[q[i]], G[i - 1], G[i])
               /\ G[Len(q)] = H
  BY DEF Staged
<1>2. PICK n \in Nat \ {0} : n = Len(q)
  OBVIOUS
<1>3. Len(Tail(q)) = n - 1 /\ Head(q) = q[1] /\ \A i \in 1..(n - 1) : Tail(q)[i] = q[i + 1]
  BY <1>2
<1> DEFINE K == [i \in 0..(n - 1) |-> G[i + 1]]
<1>4. \A i \in 0..(n - 1) : K[i] = G[i + 1]
  OBVIOUS
<1> HIDE DEF K
<1>5. EndsIn(R, E \o l, K[0])
  <2>1. Takes(L[q[1]], G[0], G[1])
    BY <1>1, <1>2
  <2>2. \A x \in G[0] : EndsIn(x, l, G[1])
    BY <1>3, <2>1 DEF Takes
  <2>3. EndsIn(R, E \o l, G[1])
    BY <1>1, <2>2, EndsInAppended DEF SafeLists
  <2>4. K[0] = G[1]
    BY <1>4
  <2> QED
    BY <2>3, <2>4
<1>6. ASSUME NEW i \in 1..(n - 1)
      PROVE  Takes(L[Tail(q)[i]], K[i - 1], K[i])
  <2>1. i + 1 \in 1..n /\ i - 1 \in 0..(n - 1) /\ i \in 0..(n - 1) /\ i - 1 + 1 = i + 1 - 1
    OBVIOUS
  <2>2. Takes(L[q[i + 1]], G[i + 1 - 1], G[i + 1])
    BY <1>1, <1>2, <2>1
  <2>3. Tail(q)[i] = q[i + 1] /\ K[i - 1] = G[i + 1 - 1] /\ K[i] = G[i + 1]
    BY <1>3, <1>4, <2>1
  <2> QED
    BY <2>2, <2>3
<1>7. K[n - 1] = H
  <2>1. n - 1 \in 0..(n - 1) /\ n - 1 + 1 = n
    OBVIOUS
  <2> QED
    BY <1>1, <1>2, <1>4, <2>1
<1> QED
  BY <1>3, <1>5, <1>6, <1>7 DEF Staged

\* One more change is to be looked at.
LEMMA StagedAppended ==
  ASSUME NEW E, NEW R, NEW S, NEW q \in Seq(S), NEW m \in S, NEW L, NEW G, NEW H,
         Staged(R, E, q, L, G), Takes(L[m], G, H)
  PROVE  Staged(R, E, Append(q, m), L, H)
<1>1. PICK F : /\ EndsIn(R, E, F[0])
               /\ \A i \in 1..Len(q) : Takes(L[q[i]], F[i - 1], F[i])
               /\ F[Len(q)] = G
  BY DEF Staged
<1>2. PICK n \in Nat : n = Len(q)
  OBVIOUS
<1>3. PICK p : p = Append(q, m)
  OBVIOUS
<1>4. Len(p) = n + 1 /\ p[n + 1] = m /\ \A i \in 1..n : p[i] = q[i]
  BY <1>2, <1>3
<1> DEFINE K == [i \in 0..(n + 1) |-> IF i = n + 1 THEN H ELSE F[i]]
<1>5. K[n + 1] = H /\ \A i \in 0..n : K[i] = F[i]
  OBVIOUS
<1> HIDE DEF K
<1>6. EndsIn(R, E, K[0])
  BY <1>1, <1>5
<1>7. ASSUME NEW i \in 1..(n + 1)
      PROVE  Takes(L[p[i]], K[i - 1], K[i])
  <2>1. CASE i = n + 1
    <3>1. i - 1 = n /\ K[n] = G
      BY <1>1, <1>2, <1>5, <2>1
    <3> QED
      BY <1>4, <1>5, <2>1, <3>1
  <2>2. CASE i # n + 1
    <3>1. i \in 1..n /\ i - 1 \in 0..n /\ i \in 0..n
      BY <2>2
    <3> QED
      BY <1>1, <1>2, <1>4, <1>5, <3>1
  <2> QED
    BY <2>1, <2>2
<1>8. Staged(R, E, p, L, H)
  BY <1>4, <1>5, <1>6, <1>7 DEF Staged
<1> QED
  BY <1>3, <1>8

\* Changes are to be looked at that leave the set as it is.
LEMMA StagedMore ==
  ASSUME NEW E, NEW R, NEW S, NEW q \in Seq(S), NEW r \in Seq(S), NEW L, NEW G,
         Staged(R, E, q, L, G), \A i \in 1..Len(r) : Takes(L[r[i]], G, G)
  PROVE  Staged(R, E, q \o r, L, G)
<1>1. PICK F : /\ EndsIn(R, E, F[0])
               /\ \A i \in 1..Len(q) : Takes(L[q[i]], F[i - 1], F[i])
               /\ F[Len(q)] = G
  BY DEF Staged
<1>2. PICK n \in Nat, k \in Nat : n = Len(q) /\ k = Len(r)
  OBVIOUS
<1>3. PICK p : p = q \o r
  OBVIOUS
<1>4. /\ Len(p) = n + k /\ \A i \in 1..n : p[i] = q[i]
      /\ \A i \in 1..k : p[n + i] = r[i]
  BY <1>2, <1>3
<1> DEFINE K == [i \in 0..(n + k) |-> IF i > n THEN G ELSE F[i]]
<1>5. (\A i \in 0..n : K[i] = F[i]) /\ (\A i \in n..(n + k) : K[i] = G)
  BY <1>1, <1>2
<1> HIDE DEF K
<1>6. EndsIn(R, E, K[0]) /\ K[n + k] = G
  BY <1>1, <1>5
<1>7. ASSUME NEW i \in 1..(n + k)
      PROVE  Takes(L[p[i]], K[i - 1], K[i])
  <2>1. CASE i > n
    <3>1. PICK j \in 1..k : i = n + j
      <4>1. i - n \in 1..k /\ i = n + (i - n)
        BY <2>1
      <4> QED
        BY <4>1
    <3>2. i - 1 \in n..(n + k) /\ i \in n..(n + k)
      BY <2>1
    <3>3. Takes(L[r[j]], G, G)
      BY <1>2
    <3>4. p[i] = r[j] /\ K[i - 1] = G /\ K[i] = G
      BY <1>4, <1>5, <3>1, <3>2
    <3> QED
      BY <3>3, <3>4
  <2>2. CASE ~(i > n)
    <3>1. i \in 1..n /\ i - 1 \in 0..n /\ i \in 0..n
      BY <2>2
    <3> QED
      BY <1>1, <1>2, <1>4, <1>5, <3>1
  <2> QED
    BY <2>1, <2>2
<1>8. Staged(R, E, p, L, G)
  BY <1>4, <1>6, <1>7 DEF Staged
<1> QED
  BY <1>3, <1>8
-----------------------------------------------------------------------------
(***************************************************************************)
(* The registries with nothing but what is shown, and what the lists of    *)
(* the service controller make of them.                                    *)
(***************************************************************************)

\* What is shown of a service whose state is v, in a namespace that is watched or not.
Shown(on, s, v) == IF on /\ Published(v) /\ ~v.deleting THEN All(s, Check(v)) ELSE {}

Within(on, state) ==
  {R \in SafeRegistries : /\ \A s \in Services : R \in AtMost(s, Shown(on, s, state[s]))
                          /\ ~on => DOMAIN R = {}}

\* How a service may change while the controllers can follow.
Follows(old, new) ==
  /\ new = Absent => old = Absent \/ old.deleting \/ ~Published(old)
  /\ new # Absent /\ old = Absent => ~new.deleting
  /\ new # Absent /\ old # Absent =>
       IF new.deleting THEN Check(new) = Check(old) ELSE ~old.deleting

LEMMA AtMostGrows ==
  ASSUME NEW s, NEW O, NEW K, O \subseteq K
  PROVE  AtMost(s, O) \subseteq AtMost(s, K)
BY DEF AtMost

LEMMA EmptyList ==
  ASSUME NEW G, NEW H, G \subseteq H
  PROVE  Takes({<<>>}, G, H)
BY EndsInEmpty DEF Takes

\* What may be there before a change is looked at: of a service that is new to the
\* controller it is what was there when the operator started.
Before(n) == IF n.old = Absent THEN n.new ELSE n.old

\* The list that is made of a change leaves nothing of the service but what is shown.
LEMMA ListBounds ==
  ASSUME dns \subseteq Addresses, WatchedNow, NEW n \in Notes, Follows(n.old, n.new)
  PROVE  Takes(ServiceEvents(n, FALSE), AtMost(n.name, Shown(TRUE, n.name, Before(n))),
               AtMost(n.name, Shown(TRUE, n.name, n.new)))
<1> DEFINE s == n.name
           old == Check(n.old)
           new == Check(n.new)
           A == AtMost(s, Shown(TRUE, s, Before(n)))
           B == AtMost(s, Shown(TRUE, s, n.new))
<1> SUFFICES ASSUME NEW q \in ServiceEvents(n, FALSE), NEW R \in A
             PROVE  EndsIn(R, q, B)
  BY DEF Takes
<1>1. s \in Services /\ n.old \in Service \cup {Absent} /\ n.new \in Service \cup {Absent}
  BY DEF Notes
<1>2. old \in SafeChecks /\ new \in SafeChecks /\ old.passed \in BOOLEAN /\ new.passed \in BOOLEAN
  BY <1>1, CheckTyped DEF SafeChecks
<1>3. IF n.new = Absent THEN q = <<>> ELSE q \in ListsOf(n, old, new)
  <2>1. Checks(n.old, FALSE) = {old} /\ Checks(n.new, FALSE) = {new}
    BY DEF Checks
  <2>2. IF ~WatchedNow \/ n.new = Absent THEN q = <<>>
        ELSE \E x \in {old}, y \in {new} : q \in ListsOf(n, x, y)
    BY <2>1, ServiceEventsAre
  <2> QED
    BY <2>2
<1>4. n.old # Absent =>
        Shown(TRUE, s, Before(n)) = IF old.passed /\ ~n.old.deleting THEN All(s, old) ELSE {}
  BY DEF Shown, Published, Before
<1>14. n.old = Absent => A = B
  BY DEF Before
<1>5. Shown(TRUE, s, n.new) = IF new.passed /\ ~n.new.deleting THEN All(s, new) ELSE {}
  BY DEF Shown, Published
<1>6. (n.old = Absent => ~old.passed) /\ (n.new = Absent => ~new.passed)
  BY DEF Check, Nothing
<1>7. Follows(n.old, n.new) <=>
        /\ n.new = Absent => n.old = Absent \/ n.old.deleting \/ ~old.passed
        /\ n.new # Absent /\ n.old = Absent => ~n.new.deleting
        /\ n.new # Absent /\ n.old # Absent =>
             IF n.new.deleting THEN new = old ELSE ~n.old.deleting
  BY DEF Follows, Published
<1> HIDE DEF old, new, s
<1>8. /\ AtMost(s, {}) \subseteq AtMost(s, All(s, old))
      /\ AtMost(s, {}) \subseteq AtMost(s, All(s, new))
  BY AtMostGrows
<1>9. CASE q = <<>> /\ A \subseteq B
  BY <1>9, EndsInEmpty
<1>10. CASE n.new = Absent
  BY <1>3, <1>4, <1>5, <1>6, <1>7, <1>9, <1>10, <1>14
<1>11. CASE n.new # Absent /\ n.old = Absent
  <2>1. q \in IF new.passed THEN Creation(s, new) ELSE {<<>>}
    BY <1>3, <1>11 DEF ListsOf, s
  <2>2. CASE new.passed
    <3>1. B = AtMost(s, All(s, new)) /\ R \in AtMost(s, All(s, new))
      BY <1>5, <1>7, <1>11, <1>14, <2>2
    <3> QED
      BY <1>1, <1>2, <2>1, <2>2, <3>1, CreationAdds
  <2>3. CASE ~new.passed
    BY <1>9, <1>11, <1>14, <2>1, <2>3
  <2> QED
    BY <2>2, <2>3
<1>12. CASE n.new # Absent /\ n.old # Absent /\ n.new.deleting
  <2>1. q \in IF n.old.deleting THEN {<<>>} ELSE Deletion(s, new)
    BY <1>3, <1>12 DEF ListsOf, s
  <2>2. CASE n.old.deleting
    BY <1>4, <1>5, <1>9, <1>12, <2>1, <2>2
  <2>3. CASE ~n.old.deleting
    <3>1. B = AtMost(s, {}) /\ R \in AtMost(s, All(s, new))
      BY <1>4, <1>5, <1>7, <1>8, <1>12
    <3> QED
      BY <1>1, <1>2, <2>1, <2>3, <3>1, DeletionClears
  <2> QED
    BY <2>2, <2>3
<1>13. CASE n.new # Absent /\ n.old # Absent /\ ~n.new.deleting
  <2>1. q \in OnUpdate(s, old, new) /\ ~n.old.deleting
    BY <1>3, <1>7, <1>13 DEF ListsOf, s
  <2>2. CASE ~old.passed /\ ~new.passed
    BY <1>2, <1>4, <1>5, <1>9, <1>13, <2>1, <2>2 DEF OnUpdate
  <2>3. CASE old.passed /\ ~new.passed
    <3>1. q \in Deletion(s, old) /\ B = AtMost(s, {}) /\ R \in AtMost(s, All(s, old))
      BY <1>4, <1>5, <1>13, <2>1, <2>3 DEF OnUpdate
    <3> QED
      BY <1>1, <1>2, <3>1, DeletionClears
  <2>4. CASE ~old.passed /\ new.passed
    <3>1. q \in Creation(s, new) /\ B = AtMost(s, All(s, new)) /\ R \in AtMost(s, All(s, new))
      BY <1>4, <1>5, <1>8, <1>13, <2>1, <2>4 DEF OnUpdate
    <3> QED
      BY <1>1, <1>2, <3>1, CreationAdds
  <2>5. CASE old.passed /\ new.passed
    <3>1. q \in Modification(s, old, new) /\ B = AtMost(s, All(s, new)) /\ R \in AtMost(s, All(s, old))
      BY <1>4, <1>5, <1>13, <2>1, <2>5 DEF OnUpdate
    <3> QED
      BY <1>1, <1>2, <3>1, ModificationLeaves
  <2> QED
    BY <1>2, <2>2, <2>3, <2>4, <2>5
<1> QED
  BY <1>10, <1>11, <1>12, <1>13

\* No list of the service controller brings in what is not shown, nor takes what is.
LEMMA TakesWithin ==
  ASSUME dns \subseteq Addresses, NEW n \in Notes, WatchedNow => Follows(n.old, n.new),
         NEW old, NEW new, \A t \in Services \ {n.name} : new[t] = old[t],
         Shown(TRUE, n.name, old[n.name]) \subseteq Shown(TRUE, n.name, Before(n)),
         new[n.name] = n.new
  PROVE  Takes(ServiceEvents(n, FALSE), Within(WatchedNow, old), Within(WatchedNow, new))
<1>1. CASE ~WatchedNow
  <2>1. ServiceEvents(n, FALSE) = {<<>>}
    BY <1>1 DEF ServiceEvents
  <2>2. Within(WatchedNow, old) \subseteq Within(WatchedNow, new)
    BY <1>1 DEF Within, AtMost
  <2> QED
    BY <2>1, <2>2, EmptyList
<1>2. CASE WatchedNow
  <2> SUFFICES ASSUME NEW q \in ServiceEvents(n, FALSE), NEW R \in Within(TRUE, old)
               PROVE  EndsIn(R, q, Within(TRUE, new))
    BY <1>2 DEF Takes
  <2> DEFINE B(t) == AtMost(t, Shown(TRUE, t, new[t]))
  <2>1. q \in SafeLists /\ R \in SafeRegistries
    BY ServiceEventsTyped DEF Notes, Within
  <2>2. EndsIn(R, q, SafeRegistries)
    BY <2>1, EndsSafely
  <2>3. ASSUME NEW t \in Services
        PROVE  EndsIn(R, q, B(t))
    <3>1. CASE t = n.name
      <4>1. Takes(ServiceEvents(n, FALSE), AtMost(t, Shown(TRUE, t, Before(n))),
                  AtMost(t, Shown(TRUE, t, n.new)))
        BY <1>2, <3>1, ListBounds
      <4>2. R \in AtMost(t, Shown(TRUE, t, Before(n)))
        BY <3>1, AtMostGrows DEF Within
      <4> QED
        BY <3>1, <4>1, <4>2 DEF Takes
    <3>2. CASE t # n.name
      <4>1. \A i \in 1..Len(q) : q[i].object \notin ObjectsOf(t)
        BY <3>2, ListsKeepToTheirService
      <4>2. R \in B(t)
        BY <3>2 DEF Within
      <4> QED
        BY <2>1, <4>1, <4>2, OthersKeepAtMost
    <3> QED
      BY <3>1, <3>2
  <2>4. \A r : IsTrace(r, R, q) => r[Len(q)] \in SafeRegistries /\ \A t \in Services : r[Len(q)] \in B(t)
    BY <2>2, <2>3 DEF EndsIn
  <2> QED
    BY <2>4 DEF EndsIn, Within
<1> QED
  BY <1>1, <1>2
-----------------------------------------------------------------------------
(***************************************************************************)
(* What the lists of the namespace controller make of them.                *)
(***************************************************************************)

\* Lists that are sent one after the other lead from set to set.
LEMMA FlattenWalk ==
  ASSUME NEW n \in Nat, NEW q \in [1..n -> SafeLists], NEW P,
         \A i \in 1..n : \A x \in P[i - 1] : EndsIn(x, q[i], P[i])
  PROVE  \A R \in P[0] : EndsIn(R, FlattenSeq(q), P[n])
<1> SUFFICES ASSUME NEW R \in P[0]
             PROVE  EndsIn(R, FlattenSeq(q), P[n])
  OBVIOUS
<1>1. CASE n = 0
  <2>1. FlattenSeq(q) = <<>>
    BY <1>1 DEF FlattenSeq
  <2> QED
    BY <1>1, <2>1, EndsInEmpty
<1>2. CASE n # 0
  <2>0. Len(q) = n
    OBVIOUS
  <2>1. PICK f : IsPrefixes(f, q, n) /\ FlattenSeq(q) = f[n]
    BY <1>2, <2>0, FlattenIsPrefix
  <2>2. \A i \in 1..n : f[i] = IF i = 1 THEN q[i] ELSE f[i - 1] \o q[i]
    BY <2>1 DEF IsPrefixes
  <2> DEFINE T == {k \in Nat : k \in 1..n => f[k] \in SafeLists /\ EndsIn(R, f[k], P[k])}
  <2>3. 0 \in T
    OBVIOUS
  <2>4. ASSUME NEW k \in Nat, k \in T
        PROVE  k + 1 \in T
    <3> SUFFICES ASSUME k + 1 \in 1..n
                 PROVE  f[k + 1] \in SafeLists /\ EndsIn(R, f[k + 1], P[k + 1])
      OBVIOUS
    <3>1. q[k + 1] \in SafeLists /\ k + 1 - 1 = k
      OBVIOUS
    <3>2. \A x \in P[k] : EndsIn(x, q[k + 1], P[k + 1])
      BY <3>1
    <3>3. CASE k = 0
      BY <2>2, <3>1, <3>2, <3>3
    <3>4. CASE k # 0
      <4>1. f[k] \in SafeLists /\ EndsIn(R, f[k], P[k])
        BY <2>4, <3>4
      <4>2. f[k + 1] = f[k] \o q[k + 1]
        <5>1. k + 1 \in 1..n /\ k + 1 # 1 /\ k + 1 - 1 = k
          BY <3>4
        <5>2. \A i \in 1..n : i # 1 => f[i] = f[i - 1] \o q[i]
          BY <2>2
        <5>3. PICK i \in 1..n : i = k + 1
          BY <5>1
        <5>4. i # 1 /\ i - 1 = k
          BY <5>1, <5>3
        <5>5. f[i] = f[k] \o q[i]
          BY <5>2, <5>4
        <5> QED
          BY <5>3, <5>5
      <4>3. f[k] \o q[k + 1] \in SafeLists
        BY <3>1, <4>1 DEF SafeLists
      <4>4. EndsIn(R, f[k] \o q[k + 1], P[k + 1])
        BY <3>1, <3>2, <4>1, EndsInAppended DEF SafeLists
      <4> QED
        BY <4>2, <4>3, <4>4
    <3> QED
      BY <3>3, <3>4
  <2> HIDE DEF T
  <2>5. n \in T
    BY <2>3, <2>4, SetInduction
  <2> QED
    BY <1>2, <2>1, <2>5 DEF T
<1> QED
  BY <1>1, <1>2

\* The namespace goes last, when nothing is left below it.
LEMMA NamespaceGoes ==
  ASSUME NEW R \in SafeRegistries, \A s \in Services : R \in AtMost(s, {})
  PROVE  EndsIn(R, <<Delete(<<>>)>>, EmptyRegistry)
<1> DEFINE e == Delete(<<>>)
           q == <<e>>
<1>1. e \in SafeEvents /\ e.type = "delete" /\ e.object = <<>>
  BY EventsTyped DEF Delete, Objects
<1>2. DOMAIN R \subseteq {<<>>}
  <2>1. DOMAIN R \subseteq Objects
    BY DEF SafeRegistries
  <2>2. ASSUME NEW o \in Objects, o # <<>>
        PROVE  \E s \in Services : o \in ObjectsOf(s)
    BY <2>2 DEF Objects, ObjectsOf
  <2> QED
    BY <2>1, <2>2 DEF AtMost
<1>3. DOMAIN After(R, e) = {}
  <2>1. DOMAIN After(R, e) = DOMAIN R \ {<<>>}
    BY <1>1, <1>2, DeletesChildless
  <2> QED
    BY <1>2, <2>1
<1>4. After(R, e) \in EmptyRegistry
  BY <1>1, <1>3, AfterTyped DEF EmptyRegistry
<1>5. Len(q) = 1 /\ q[1] = e
  OBVIOUS
<1> HIDE DEF e, q
<1>6. EndsIn(R, q, EmptyRegistry)
  BY <1>4, <1>5 DEF EndsIn, IsTrace
<1> QED
  BY <1>6 DEF q, e

ListsForServices(kind) == UNION {OfService(kind, s) : s \in Services}

\* If nothing has a host name, the services that are published are found.
LEMMA FoundArePublished ==
  ASSUME "names" \notin Troubles, services \in [Services -> Service \cup {Absent}],
         NEW kind, NEW q \in NamespaceAndServices(kind)
  PROVE  \E p \in SetToSeqs({s \in Services : Published(services[s])}) :
         \E r \in [DOMAIN p -> ListsForServices(kind)] :
           /\ \A i \in DOMAIN p : r[i] \in OfService(kind, p[i])
           /\ q = IF kind = "create" THEN <<Create(<<>>, {})>> \o FlattenSeq(r)
                  ELSE FlattenSeq(r) \o <<Delete(<<>>)>>
<1> DEFINE All0 == {s \in Services : Published(services[s])}
<1>1. PICK found \in SUBSET All0 :
        /\ \A s \in Services : Published(services[s]) /\ ~services[s].byName => s \in found
        /\ \E r \in UNION {Concatenations([i \in DOMAIN p |-> OfService(kind, p[i])]) :
                         p \in SetToSeqs(found)} :
              q = IF kind = "create" THEN <<Create(<<>>, {})>> \o r ELSE r \o <<Delete(<<>>)>>
  BY Zenon DEF NamespaceAndServices
<1>2. \A s \in All0 : ~services[s].byName
  BY DEF Service, Published, Check, Nothing
<1>3. found = All0
  BY <1>1, <1>2
<1>4. PICK p \in SetToSeqs(All0) :
        \E r \in Concatenations([i \in DOMAIN p |-> OfService(kind, p[i])]) :
          q = IF kind = "create" THEN <<Create(<<>>, {})>> \o r ELSE r \o <<Delete(<<>>)>>
  BY <1>1, <1>3
<1> DEFINE L == [i \in DOMAIN p |-> OfService(kind, p[i])]
<1>5. PICK r \in [DOMAIN L -> UNION Range(L)] :
        /\ \A i \in DOMAIN L : r[i] \in L[i]
        /\ q = IF kind = "create" THEN <<Create(<<>>, {})>> \o FlattenSeq(r)
               ELSE FlattenSeq(r) \o <<Delete(<<>>)>>
  BY <1>4, Zenon DEF Concatenations
<1>6. IsFiniteSet(All0)
  BY ControllersAssumption, FS_Subset
<1>7. \A i \in DOMAIN p : p[i] \in Services
  <2> HIDE DEF All0
  <2>1. \A i \in DOMAIN p : p[i] \in All0
    BY <1>6, ListTyped
  <2> QED
    BY <2>1 DEF All0
<1>8. DOMAIN L = DOMAIN p /\ \A i \in DOMAIN p : L[i] = OfService(kind, p[i])
  OBVIOUS
<1>9. r \in [DOMAIN p -> ListsForServices(kind)]
  <2>1. \A i \in DOMAIN p : r[i] \in ListsForServices(kind)
    BY <1>5, <1>7, <1>8 DEF ListsForServices
  <2>2. r = [i \in DOMAIN p |-> r[i]]
    BY <1>5, <1>8
  <2> QED
    BY <2>1, <2>2
<1> HIDE DEF L
<1> QED
  BY <1>5, <1>8, <1>9

\* A namespace that is not watched any more leaves an empty registry.
LEMMA DisablingEmpties ==
  ASSUME "names" \notin Troubles, services \in [Services -> Service \cup {Absent}],
         dns \subseteq Addresses, NEW q \in NamespaceAndServices("delete"),
         NEW R \in Within(TRUE, services)
  PROVE  EndsIn(R, q, EmptyRegistry)
<1> DEFINE Pub == {s \in Services : Published(services[s])}
           n == Cardinality(Pub)
           lists == ListsForServices("delete")
           last == <<Delete(<<>>)>>
<1>0. PICK p \in SetToSeqs(Pub) : \E r \in [DOMAIN p -> lists] :
        /\ \A i \in DOMAIN p : r[i] \in OfService("delete", p[i])
        /\ q = IF "delete" = "create" THEN <<Create(<<>>, {})>> \o FlattenSeq(r)
               ELSE FlattenSeq(r) \o last
  BY FoundArePublished, Zenon
<1>1. \E r \in [DOMAIN p -> lists] :
        /\ \A i \in DOMAIN p : r[i] \in OfService("delete", p[i])
        /\ q = FlattenSeq(r) \o last
  BY <1>0
<1>2. PICK r \in [DOMAIN p -> lists] :
        (\A i \in DOMAIN p : r[i] \in OfService("delete", p[i])) /\ q = FlattenSeq(r) \o last
  BY <1>1
<1>3. IsFiniteSet(Pub)
  BY ControllersAssumption, FS_Subset
<1>4. n \in Nat /\ p \in [1..n -> Pub] /\ \A s \in Pub : \E i \in 1..n : p[i] = s
  <2> HIDE DEF Pub
  <2> QED
    BY <1>3, ListTyped, ListComplete
<1> HIDE DEF n
<1>5. \A i \in 1..n : p[i] \in Services
  BY <1>4
<1>6. \A s \in Services : Check(services[s]) \in SafeChecks
  BY CheckTyped
<1>7. \A i \in 1..n : r[i] \in Deletion(p[i], Check(services[p[i]]))
  BY <1>2, <1>4 DEF OfService
<1>8. \A i \in 1..n : r[i] \in SafeLists /\ r[i] \in Seq(EventsOf(p[i]))
  BY <1>5, <1>6, <1>7, DeletionTyped, ChangesAreAboutTheirService
<1>9. r \in [1..n -> SafeLists]
  BY <1>4, <1>8
<1> DEFINE Bound(k, t) == IF \E j \in 1..k : p[j] = t THEN {} ELSE Shown(TRUE, t, services[t])
           Left(k) == {x \in SafeRegistries : \A t \in Services : x \in AtMost(t, Bound(k, t))}
           P == [k \in 0..n |-> Left(k)]
<1>10. \A k \in 0..n : P[k] = Left(k)
  OBVIOUS
<1> HIDE DEF P
<1>11. ASSUME NEW k \in 1..n, NEW x \in P[k - 1]
       PROVE  EndsIn(x, r[k], P[k])
  <2>0. k \in Nat \ {0} /\ k - 1 \in 0..n /\ k \in 0..n
    BY <1>4
  <2>1. x \in Left(k - 1) /\ P[k] = Left(k) /\ x \in SafeRegistries
    <3> HIDE DEF Bound
    <3> QED
      BY <1>10, <1>11, <2>0
  <2>2. EndsIn(x, r[k], SafeRegistries)
    BY <1>8, <2>1, EndsSafely
  <2>3. ASSUME NEW t \in Services
        PROVE  EndsIn(x, r[k], AtMost(t, Bound(k, t)))
    <3>1. x \in AtMost(t, Bound(k - 1, t))
      BY <2>1
    <3>2. CASE p[k] = t
      <4>1. Bound(k, t) = {}
        <5>1. k \in 1..k
          BY <2>0
        <5> QED
          BY <3>2, <5>1
      <4>2. Bound(k - 1, t) \subseteq All(t, Check(services[t]))
        BY DEF Shown
      <4> HIDE DEF Bound
      <4>3. x \in AtMost(t, All(t, Check(services[t])))
        BY <3>1, <4>2, AtMostGrows
      <4> QED
        BY <1>6, <1>7, <3>2, <4>1, <4>3, DeletionClears
    <3>3. CASE p[k] # t
      <4>1. Bound(k, t) = Bound(k - 1, t)
        <5>1. \A j \in 1..k : j = k \/ j \in 1..(k - 1)
          BY <2>0
        <5>2. \A j \in 1..(k - 1) : j \in 1..k
          BY <2>0
        <5> QED
          BY <3>3, <5>1, <5>2
      <4> HIDE DEF Bound
      <4>2. \A i \in 1..Len(r[k]) : r[k][i] \in EventsOf(p[k])
        BY <1>8
      <4>3. \A e \in EventsOf(p[k]) : e.object \notin ObjectsOf(t)
        BY <3>3, ObjectsOfOther DEF EventsOf
      <4>4. \A i \in 1..Len(r[k]) : r[k][i].object \notin ObjectsOf(t) \ Bound(k, t)
        BY <4>2, <4>3
      <4> QED
        BY <1>8, <3>1, <4>1, <4>4, OthersKeepAtMost
    <3> QED
      BY <3>2, <3>3
  <2> HIDE DEF Bound
  <2>4. \A f : IsTrace(f, x, r[k]) =>
          f[Len(r[k])] \in SafeRegistries /\ \A t \in Services : f[Len(r[k])] \in AtMost(t, Bound(k, t))
    BY <2>2, <2>3 DEF EndsIn
  <2> QED
    BY <2>1, <2>4 DEF EndsIn
<1>12. R \in P[0]
  <2>1. \A t \in Services : Bound(0, t) = Shown(TRUE, t, services[t])
    OBVIOUS
  <2> HIDE DEF Bound
  <2>2. R \in Left(0)
    BY <2>1 DEF Within
  <2>3. 0 \in 0..n
    BY <1>4
  <2> HIDE DEF Left
  <2> QED
    BY <1>10, <2>2, <2>3
<1>13. \A x \in P[n] : x \in SafeRegistries /\ \A s \in Services : x \in AtMost(s, {})
  <2>1. \A t \in Services : Bound(n, t) = {}
    BY <1>4 DEF Shown
  <2> HIDE DEF Bound
  <2>2. P[n] = Left(n)
    BY <1>4, <1>10
  <2> QED
    BY <2>1, <2>2
<1>14. EndsIn(R, FlattenSeq(r), P[n])
  <2> HIDE DEF Left
  <2> QED
    BY <1>4, <1>9, <1>11, <1>12, FlattenWalk
<1>15. FlattenSeq(r) \in Seq(SafeEvents)
  BY <1>4, <1>9, FlattenTyped DEF SafeLists
<1>16. \A x \in P[n] : EndsIn(x, last, EmptyRegistry)
  BY <1>13, NamespaceGoes
<1>17. last \in Seq(SafeEvents)
  BY EventsTyped DEF Objects
<1> HIDE DEF last
<1> QED
  BY <1>2, <1>14, <1>15, <1>16, <1>17, EndsInAppended

\* No published service is being deleted.
NoneDying == \A s \in Services : Published(services[s]) => ~services[s].deleting

\* The namespace that comes first brings itself only.
LEMMA NamespaceComes ==
  ASSUME NEW R \in EmptyRegistry
  PROVE  EndsIn(R, <<Create(<<>>, {})>>, Within(TRUE, services))
<1> DEFINE e == Create(<<>>, {})
           l == <<e>>
<1>1. e \in SafeEvents /\ e.object = <<>>
  BY EventsTyped DEF Create, Objects
<1>2. Len(l) = 1 /\ l[1] = e
  OBVIOUS
<1>3. R \in SafeRegistries /\ DOMAIN R = {}
  BY DEF EmptyRegistry
<1> HIDE DEF e
<1>4. After(R, e) \in SafeRegistries /\ DOMAIN After(R, e) \subseteq {<<>>}
  BY <1>1, <1>3, AfterAdds
<1>5. After(R, e) \in Within(TRUE, services)
  <2>1. \A s : <<>> \notin ObjectsOf(s)
    BY DEF ObjectsOf
  <2> QED
    BY <1>4, <2>1 DEF Within, AtMost
<1> HIDE DEF l
<1>6. ASSUME NEW f, IsTrace(f, R, l)
      PROVE  f[Len(l)] \in Within(TRUE, services)
  <2>1. f[0] = R /\ f[1] = After(f[0], l[1])
    BY <1>2, <1>6 DEF IsTrace
  <2> QED
    BY <1>2, <1>5, <2>1
<1>7. EndsIn(R, l, Within(TRUE, services))
  BY <1>6 DEF EndsIn
<1> QED
  BY <1>7 DEF l, e

\* A service that it finds is brought in, without its endpoints.
LEMMA ServiceComes ==
  ASSUME services \in [Services -> Service \cup {Absent}], dns \subseteq Addresses, NoneDying,
         NEW s \in Services, Published(services[s]), NEW q \in OfService("create", s)
  PROVE  \A R \in Within(TRUE, services) : EndsIn(R, q, Within(TRUE, services))
<1> DEFINE check == Check(services[s])
           e == Create(<<s>>, {})
           B(t) == AtMost(t, Shown(TRUE, t, services[t]))
<1>1. q \in SafeLists /\ check \in SafeChecks
  BY OfServiceTyped, CheckTyped
<1>2. PICK d \in Each(Delete, EndpointsOf(s, check)) : q = <<e>> \o d
  BY DEF OfService
<1>3. d \in SafeLists
  BY <1>1, DeletedEndpointsTyped
<1>4. \A i \in 1..Len(d) : d[i].type = "delete"
  <2>1. PICK p \in SetToSeqs(EndpointsOf(s, check)) : d = [i \in DOMAIN p |-> Delete(p[i])]
    BY <1>2 DEF Each
  <2>2. DOMAIN d = 1..Len(d) /\ DOMAIN d = DOMAIN p
    BY <1>3, <2>1 DEF SafeLists
  <2> QED
    BY <2>1, <2>2 DEF Delete
<1>5. e.object = <<s>>
  BY DEF Create
<1>6. \A i \in 1..Len(q) : q[i].object = <<s>> \/ q[i].type = "delete"
  <2> SUFFICES ASSUME NEW i \in 1..Len(q)
               PROVE  q[i].object = <<s>> \/ q[i].type = "delete"
    OBVIOUS
  <2> HIDE DEF e
  <2>1. Len(q) = Len(d) + 1 /\ Len(d) \in Nat
    BY <1>2, <1>3 DEF SafeLists
  <2>2. q[i] = IF i = 1 THEN e ELSE d[i - 1]
    BY <1>2, <1>3, <2>1 DEF SafeLists
  <2>3. CASE i = 1
    BY <1>5, <2>2, <2>3
  <2>4. CASE i # 1
    <3>1. i - 1 \in 1..Len(d)
      BY <2>1, <2>4
    <3> QED
      BY <1>4, <2>2, <2>4, <3>1
  <2> QED
    BY <2>3, <2>4
<1>7. ASSUME NEW R \in Within(TRUE, services)
      PROVE  EndsIn(R, q, Within(TRUE, services))
  <2>1. R \in SafeRegistries /\ \A t \in Services : R \in B(t)
    BY DEF Within
  <2>2. EndsIn(R, q, SafeRegistries)
    BY <1>1, <2>1, EndsSafely
  <2>3. ASSUME NEW t \in Services
        PROVE  EndsIn(R, q, B(t))
    <3>1. <<s>> \notin ObjectsOf(t) \ Shown(TRUE, t, services[t])
      <4>1. CASE s = t
        BY <4>1 DEF Shown, All, NoneDying
      <4>2. CASE s # t
        BY <4>2, ObjectsOfOther DEF ObjectsOf
      <4> QED
        BY <4>1, <4>2
    <3> QED
      BY <1>1, <1>6, <2>1, <3>1, OthersKeepAtMost
  <2> HIDE DEF B
  <2>4. \A r : IsTrace(r, R, q) => r[Len(q)] \in SafeRegistries /\ \A t \in Services : r[Len(q)] \in B(t)
    BY <2>2, <2>3 DEF EndsIn
  <2> QED
    BY <2>4 DEF EndsIn, Within, B
<1> QED
  BY <1>7

\* A namespace that becomes watched brings itself and its services.
LEMMA EnablingAddsServices ==
  ASSUME "names" \notin Troubles, services \in [Services -> Service \cup {Absent}],
         dns \subseteq Addresses, NoneDying,
         NEW q \in NamespaceAndServices("create"), NEW R \in EmptyRegistry
  PROVE  EndsIn(R, q, Within(TRUE, services))
<1> DEFINE Pub == {s \in Services : Published(services[s])}
           n == Cardinality(Pub)
           lists == ListsForServices("create")
           first == <<Create(<<>>, {})>>
<1>1. PICK p \in SetToSeqs(Pub) : \E r \in [DOMAIN p -> lists] :
        /\ \A i \in DOMAIN p : r[i] \in OfService("create", p[i])
        /\ q = first \o FlattenSeq(r)
  BY FoundArePublished
<1>2. PICK r \in [DOMAIN p -> lists] :
        (\A i \in DOMAIN p : r[i] \in OfService("create", p[i])) /\ q = first \o FlattenSeq(r)
  BY <1>1
<1>3. IsFiniteSet(Pub)
  BY ControllersAssumption, FS_Subset
<1>4. n \in Nat /\ p \in [1..n -> Pub]
  <2> HIDE DEF Pub
  <2> QED
    BY <1>3, ListTyped
<1> HIDE DEF n
<1>5. \A i \in 1..n : p[i] \in Services /\ Published(services[p[i]]) /\ r[i] \in OfService("create", p[i])
  BY <1>2, <1>4
<1>6. r \in [1..n -> SafeLists]
  <2>1. \A i \in 1..n : r[i] \in SafeLists
    BY <1>5, OfServiceTyped
  <2> QED
    BY <1>4, <2>1
<1>7. PICK G : G = Within(TRUE, services)
  OBVIOUS
<1>8. PICK P : P = [k \in 0..n |-> G]
  OBVIOUS
<1>9. \A k \in 0..n : P[k] = G
  BY <1>8
<1>10. \A i \in 1..n : \A x \in G : EndsIn(x, r[i], G)
  BY <1>5, <1>7, ServiceComes
<1>11. \A i \in 1..n : \A x \in P[i - 1] : EndsIn(x, r[i], P[i])
  <2>1. \A i \in 1..n : i - 1 \in 0..n /\ i \in 0..n
    BY <1>4
  <2> QED
    BY <1>9, <1>10, <2>1
<1>12. \A x \in P[0] : EndsIn(x, FlattenSeq(r), P[n])
  BY <1>4, <1>6, <1>11, FlattenWalk
<1>13. P[0] = G /\ P[n] = G
  BY <1>4, <1>9
<1>14. FlattenSeq(r) \in Seq(SafeEvents)
  BY <1>4, <1>6, FlattenTyped DEF SafeLists
<1>15. EndsIn(R, first, G) /\ first \in Seq(SafeEvents)
  <2>1. EndsIn(R, first, G)
    BY <1>7, NamespaceComes
  <2>2. Create(<<>>, {}) \in SafeEvents
    BY EventsTyped DEF Objects
  <2> QED
    BY <2>1, <2>2
<1> HIDE DEF first
<1> QED
  BY <1>2, <1>7, <1>12, <1>13, <1>14, <1>15, EndsInAppended

On(label) == label # Absent /\ Watches(label)

\* The lists of the namespace controller lead from what was shown to what is shown.
LEMMA NamespaceTakesWithin ==
  ASSUME "names" \notin Troubles, services \in [Services -> Service \cup {Absent}],
         dns \subseteq Addresses, NEW n \in NamespaceNotes, n.old # n.new,
         Absent \in {n.old, n.new} => \A s \in Services : services[s] = Absent,
         On(n.new) /\ ~On(n.old) => NoneDying
  PROVE  Takes(NamespaceEvents(n), Within(On(n.old), services), Within(On(n.new), services))
<1> SUFFICES ASSUME NEW q \in NamespaceEvents(n), NEW R \in Within(On(n.old), services)
             PROVE  EndsIn(R, q, Within(On(n.new), services))
  BY DEF Takes
<1>1. /\ Within(FALSE, services) = EmptyRegistry
      /\ EmptyRegistry \subseteq Within(TRUE, services)
      /\ Within(On(n.old), services) = IF On(n.old) THEN Within(TRUE, services) ELSE Within(FALSE, services)
      /\ Within(On(n.new), services) = IF On(n.new) THEN Within(TRUE, services) ELSE Within(FALSE, services)
  BY DEF Within, EmptyRegistry, AtMost
<1>2. CASE n.old = Absent
  <2>1. q = <<>>
    BY <1>2 DEF NamespaceEvents
  <2>2. R \in Within(On(n.new), services)
    BY <1>1, <1>2 DEF On
  <2> QED
    BY <2>1, <2>2, EndsInEmpty
<1>3. CASE n.new = Absent
  <2>1. IF Watches(n.old) THEN q \in NamespaceAndServices("delete") ELSE q = <<>>
    BY <1>3 DEF NamespaceEvents
  <2>2. CASE Watches(n.old)
    BY <1>1, <1>3, <2>1, <2>2, DisablingEmpties DEF On
  <2>3. CASE ~Watches(n.old)
    BY <1>1, <1>3, <2>1, <2>3, EndsInEmpty DEF On
  <2> QED
    BY <2>2, <2>3
<1>4. CASE n.old # Absent /\ n.new # Absent
  <2>1. q \in CASE Watches(n.old) = Watches(n.new) -> {<<>>}
                [] Watches(n.old) /\ ~Watches(n.new) -> NamespaceAndServices("delete")
                [] ~Watches(n.old) /\ Watches(n.new) -> NamespaceAndServices("create")
    BY <1>4 DEF NamespaceEvents
  <2>0. Watches(n.old) \in BOOLEAN /\ Watches(n.new) \in BOOLEAN
    BY DEF Watches
  <2>2. CASE Watches(n.old) = Watches(n.new)
    <3>1. q = <<>> /\ On(n.old) = On(n.new)
      BY <1>4, <2>0, <2>1, <2>2 DEF On
    <3> QED
      BY <1>1, <3>1, EndsInEmpty
  <2>3. CASE Watches(n.old) /\ ~Watches(n.new)
    <3>1. q \in NamespaceAndServices("delete")
      BY <2>0, <2>1, <2>3
    <3> QED
      BY <1>1, <1>4, <2>3, <3>1, DisablingEmpties DEF On
  <2>4. CASE ~Watches(n.old) /\ Watches(n.new)
    <3>1. q \in NamespaceAndServices("create")
      BY <2>0, <2>1, <2>4
    <3> QED
      BY <1>1, <1>4, <2>4, <3>1, EnablingAddsServices DEF On
  <2> QED
    BY <2>0, <2>2, <2>3, <2>4
<1> QED
  BY <1>2, <1>3, <1>4
-----------------------------------------------------------------------------
(***************************************************************************)
(* The invariant.  While services change the namespace controller has      *)
(* nothing to do, and the other way round: what the one that is at work    *)
(* has sent, and what it will make of the changes it has still to look at, *)
(* takes the registry to one with nothing but what is shown.               *)
(***************************************************************************)

ServiceLists == [n \in Notes |-> ServiceEvents(n, FALSE)]
NamespaceLists == [n \in NamespaceNotes |-> NamespaceEvents(n)]

ServicesFollowed ==
  /\ NamespaceControllerIdle
  /\ Staged(registry, channel \o svcOut, svcNotes, ServiceLists, Within(WatchedNow, services))

NamespaceFollowed ==
  /\ ServiceControllerIdle
  /\ Staged(registry, channel \o nsOut, nsNotes, NamespaceLists, Within(WatchedNow, services))

FollowInv == KeptInv /\ (ServicesFollowed \/ NamespaceFollowed)

\* What may happen to the cluster: of the changes that the controllers miss something
\* of only those of which they miss what is to come.
Additions == Troubles \subseteq {"grow", "enable"}

LEMMA AdditionsOnly ==
  ASSUME Additions
  PROVE  /\ "remove" \notin Troubles /\ "overlap" \notin Troubles /\ "names" \notin Troubles
         /\ "restart" \notin Troubles /\ "dying" \notin Troubles
BY DEF Additions

\* What the service controller reads: whether the namespace is watched, and what the
\* checks find.
ServiceListsFrom(n, watched, olds, news) ==
  IF watched /\ n.new # Absent THEN UNION {ListsOf(n, old, new) : old \in olds, new \in news}
  ELSE {<<>>}

LEMMA ServiceListsAre ==
  \A m, f : ServiceEvents(m, f)
              = ServiceListsFrom(m, WatchedNow, Checks(m.old, f), Checks(m.new, f))
<1> SUFFICES ASSUME NEW n, NEW f
             PROVE  ServiceEvents(n, f)
                      = ServiceListsFrom(n, WatchedNow, Checks(n.old, f), Checks(n.new, f))
  OBVIOUS
<1>1. CASE ~WatchedNow \/ n.new = Absent
  BY <1>1 DEF ServiceEvents, ServiceListsFrom
<1>2. CASE WatchedNow /\ n.new # Absent
  <2>1. ServiceEvents(n, f) =
          UNION {ListsOf(n, old, new) : old \in Checks(n.old, f), new \in Checks(n.new, f)}
    BY <1>2 DEF ServiceEvents, ListsOf
  <2> DEFINE lists == UNION {ListsOf(n, old, new) : old \in Checks(n.old, f),
                                                   new \in Checks(n.new, f)}
  <2>2. ServiceListsFrom(n, WatchedNow, Checks(n.old, f), Checks(n.new, f))
          = IF WatchedNow /\ n.new # Absent THEN lists ELSE {<<>>}
    BY DEF ServiceListsFrom
  <2> HIDE DEF lists
  <2>3. ServiceListsFrom(n, WatchedNow, Checks(n.old, f), Checks(n.new, f)) = lists
    BY <1>2, <2>2
  <2> QED
    BY <2>1, <2>3 DEF lists
<1> QED
  BY <1>1, <1>2

\* What the namespace controller reads: the lists for one service, and the services
\* that it finds in any case and those that it may find.
NamespaceListsFrom(kind, L, must, may) ==
  UNION {
    {IF kind = "create" THEN <<Create(<<>>, {})>> \o q ELSE q \o <<Delete(<<>>)>> :
       q \in UNION {Concatenations([i \in DOMAIN p |-> L[p[i]]]) : p \in SetToSeqs(found)}} :
    found \in {f \in SUBSET may : must \subseteq f}}

ListsRead(kind) == [s \in Services |-> OfService(kind, s)]
MustFind == {s \in Services : Published(services[s]) /\ ~services[s].byName}
MayFind == {s \in Services : Published(services[s])}

LEMMA NamespaceListsAre ==
  \A k : NamespaceAndServices(k) = NamespaceListsFrom(k, ListsRead(k), MustFind, MayFind)
<1> SUFFICES ASSUME NEW k
             PROVE  NamespaceAndServices(k) = NamespaceListsFrom(k, ListsRead(k), MustFind, MayFind)
  OBVIOUS
<1> DEFINE sets == {f \in SUBSET MayFind :
                      \A s \in Services : Published(services[s]) /\ ~services[s].byName => s \in f}
           lists(found, p) == [i \in DOMAIN p |-> OfService(k, p[i])]
<1>1. sets = {f \in SUBSET MayFind : MustFind \subseteq f}
  BY DEF MustFind, MayFind
<1>2. ASSUME NEW found \in SUBSET Services, NEW p \in SetToSeqs(found)
      PROVE  [i \in DOMAIN p |-> ListsRead(k)[p[i]]] = [i \in DOMAIN p |-> OfService(k, p[i])]
  <2>1. IsFiniteSet(found)
    BY ControllersAssumption, FS_Subset
  <2>2. \A i \in DOMAIN p : p[i] \in Services
    BY <2>1, ListTyped
  <2> QED
    BY <2>2 DEF ListsRead
<1>3. ASSUME NEW found \in SUBSET Services
      PROVE  {Concatenations([i \in DOMAIN p |-> ListsRead(k)[p[i]]]) : p \in SetToSeqs(found)}
               = {Concatenations([i \in DOMAIN p |-> OfService(k, p[i])]) : p \in SetToSeqs(found)}
  <2> DEFINE A(p) == [i \in DOMAIN p |-> ListsRead(k)[p[i]]]
             B(p) == [i \in DOMAIN p |-> OfService(k, p[i])]
  <2>1. \A p \in SetToSeqs(found) : A(p) = B(p)
    BY <1>2
  <2> HIDE DEF A, B
  <2>2. {Concatenations(A(p)) : p \in SetToSeqs(found)}
          = {Concatenations(B(p)) : p \in SetToSeqs(found)}
    BY <2>1
  <2> QED
    BY <2>2 DEF A, B
<1>4. \A found \in sets : found \in SUBSET Services
  BY DEF MayFind
<1> QED
  BY <1>1, <1>3, <1>4 DEF NamespaceAndServices, NamespaceListsFrom, MayFind

\* The lists change only with what the controllers read.
LEMMA ListsUnchanged ==
  ASSUME dns' = dns
  PROVE  /\ \A on, state : Within(on, state)' = Within(on, state)
         /\ namespace' = namespace => ServiceLists' = ServiceLists
         /\ services' = services => NamespaceLists' = NamespaceLists
<1>1. \A on, s, v : Shown(on, s, v)' = Shown(on, s, v)
  BY ChecksUnchanged DEF Shown
<1>2. \A on, state : Within(on, state)' = Within(on, state)
  BY <1>1 DEF Within
<1>3. ASSUME namespace' = namespace, NEW n, NEW b
      PROVE  ServiceEvents(n, b)' = ServiceEvents(n, b)
  <2>1. \A v, f : Checks(v, f)' = Checks(v, f)
    BY ChecksUnchanged DEF Checks
  <2>2. WatchedNow' = WatchedNow
    BY <1>3 DEF WatchedNow
  <2>3. (\A m, f : ServiceEvents(m, f)
                    = ServiceListsFrom(m, WatchedNow, Checks(m.old, f), Checks(m.new, f)))'
    BY ServiceListsAre, PTL
  <2>4. ServiceEvents(n, b)' = ServiceListsFrom(n, WatchedNow, Checks(n.old, b), Checks(n.new, b))
    BY <2>1, <2>2, <2>3
  <2> QED
    BY <2>4, ServiceListsAre
<1>4. ASSUME services' = services, NEW n
      PROVE  NamespaceEvents(n)' = NamespaceEvents(n)
  <2>1. \A kind, s : OfService(kind, s)' = OfService(kind, s)
    BY <1>4, ChecksUnchanged DEF OfService
  <2>2. ListsRead("create")' = ListsRead("create") /\ ListsRead("delete")' = ListsRead("delete")
    BY <2>1 DEF ListsRead
  <2>3. MustFind' = MustFind /\ MayFind' = MayFind
    BY <1>4, ChecksUnchanged DEF MustFind, MayFind
  <2>4. (\A k : NamespaceAndServices(k) = NamespaceListsFrom(k, ListsRead(k), MustFind, MayFind))'
    BY NamespaceListsAre, PTL
  <2>5. /\ NamespaceAndServices("create")' = NamespaceAndServices("create")
        /\ NamespaceAndServices("delete")' = NamespaceAndServices("delete")
    BY <2>2, <2>3, <2>4, NamespaceListsAre
  <2> QED
    BY <2>5 DEF NamespaceEvents
<1>5. ASSUME namespace' = namespace
      PROVE  ServiceLists' = ServiceLists
  BY <1>3, <1>5 DEF ServiceLists
<1>6. ASSUME services' = services
      PROVE  NamespaceLists' = NamespaceLists
  BY <1>4, <1>6 DEF NamespaceLists
<1> QED
  BY <1>2, <1>5, <1>6

\* While both controllers are idle it does not matter which one comes next.
LEMMA EitherFollowed ==
  ASSUME NamespaceControllerIdle, ServiceControllerIdle, ServicesFollowed \/ NamespaceFollowed
  PROVE  /\ ServicesFollowed /\ NamespaceFollowed
         /\ EndsIn(registry, channel \o <<>>, Within(WatchedNow, services))
<1>1. nsOut = <<>> /\ svcOut = <<>> /\ nsNotes = <<>> /\ svcNotes = <<>>
  BY DEF NamespaceControllerIdle, ServiceControllerIdle
<1>2. EndsIn(registry, channel \o <<>>, Within(WatchedNow, services))
  BY <1>1, StagedNone DEF ServicesFollowed, NamespaceFollowed
<1>3. ServicesFollowed /\ NamespaceFollowed
  BY <1>1, <1>2, StagedNone DEF ServicesFollowed, NamespaceFollowed
<1> QED
  BY <1>2, <1>3

LEMMA FollowedByIdle ==
  ASSUME ServicesFollowed \/ NamespaceFollowed
  PROVE  /\ NamespaceControllerIdle => ServicesFollowed
         /\ ServiceControllerIdle => NamespaceFollowed
BY EitherFollowed DEF ServicesFollowed, NamespaceFollowed

\* A service changes.
LEMMA ServiceChangeFollowed ==
  ASSUME Additions, SafeInv, ServicesFollowed \/ NamespaceFollowed,
         NEW s \in Services, NEW new \in Service \cup {Absent}, ServiceChange(s, new),
         UNCHANGED registry, WatchedNow => Follows(services[s], new)
  PROVE  ServicesFollowed'
<1>1. UNCHANGED <<namespace, dns, channel, svcOut, nsNotes, nsOut>> /\ NamespaceControllerIdle
  BY AdditionsOnly DEF ServiceChange
<1>2. /\ services \in [Services -> Service \cup {Absent}] /\ svcNotes \in Seq(Notes)
      /\ dns \subseteq Addresses
  BY DEF SafeInv, ClusterTyped, NotesTyped
<1>3. ServicesFollowed
  BY <1>1, FollowedByIdle
<1>4. PICK m : m = NoteOf(s, services[s], new)
  OBVIOUS
<1>5. m \in Notes /\ m.name = s /\ m.old = services[s] /\ m.new = new
  BY <1>2, <1>4 DEF NoteOf, Notes
<1>6. PICK state : state = [services EXCEPT ![s] = new]
  OBVIOUS
<1>7. state[s] = new /\ \A t \in Services \ {s} : state[t] = services[t]
  BY <1>2, <1>6
<1>8. Shown(TRUE, s, services[s]) \subseteq Shown(TRUE, s, Before(m))
  BY <1>5 DEF Shown, Before, Published, Check, Nothing
<1>9. Takes(ServiceLists[m], Within(WatchedNow, services), Within(WatchedNow, state))
  BY <1>2, <1>5, <1>7, <1>8, TakesWithin DEF ServiceLists
<1>10. Staged(registry, channel \o svcOut, Append(svcNotes, m), ServiceLists, Within(WatchedNow, state))
  BY <1>2, <1>3, <1>5, <1>9, StagedAppended DEF ServicesFollowed
<1>11. svcNotes' = Append(svcNotes, m) /\ services' = state /\ WatchedNow' = WatchedNow
  BY <1>1, <1>4, <1>6 DEF ServiceChange, WatchedNow
<1>12. Within(WatchedNow, services)' = Within(WatchedNow, state) /\ ServiceLists' = ServiceLists
  BY <1>1, <1>11, ListsUnchanged
<1> QED
  BY <1>1, <1>10, <1>11, <1>12 DEF ServicesFollowed, NamespaceControllerIdle

\* The changes that the controllers can follow.
LEMMA ChangesFollow ==
  ASSUME Additions, services \in [Services -> Service \cup {Absent}], NEW s \in Services
  PROVE  /\ \A new \in Service : ApplyService(s, new) => Follows(services[s], new)
         /\ MarkService(s) => /\ [services[s] EXCEPT !.deleting = TRUE] \in Service
                              /\ Follows(services[s], [services[s] EXCEPT !.deleting = TRUE])
         /\ RemoveService(s) => Follows(services[s], Absent)
<1>1. ASSUME NEW new \in Service, ApplyService(s, new)
      PROVE  Follows(services[s], new)
  <2>1. PICK old : old = services[s]
    OBVIOUS
  <2>2. new # Absent /\ ~new.deleting /\ (old # Absent => ~old.deleting)
    BY <1>1, <2>1, AbsentAssumption DEF ApplyService
  <2>3. Follows(old, new)
    BY <2>2 DEF Follows
  <2> QED
    BY <2>1, <2>3
<1>2. ASSUME MarkService(s)
      PROVE  /\ [services[s] EXCEPT !.deleting = TRUE] \in Service
             /\ Follows(services[s], [services[s] EXCEPT !.deleting = TRUE])
  <2>1. PICK old \in Service : old = services[s]
    BY <1>2 DEF MarkService
  <2>2. PICK new : new = [old EXCEPT !.deleting = TRUE]
    OBVIOUS
  <2>3. /\ new \in Service /\ new.deleting = TRUE /\ new.annotations = old.annotations
        /\ new.addresses = old.addresses /\ new.byName = old.byName
    BY <2>2 DEF Service
  <2>4. AllAddresses(new) = AllAddresses(old) /\ (NotFound(new) <=> NotFound(old))
    BY <2>3 DEF AllAddresses, NotFound
  <2>5. new # Absent /\ old # Absent
    BY <2>3, AbsentAssumption
  <2>6. Check(new) = Check(old)
    BY <2>3, <2>4, <2>5 DEF Check
  <2>7. Follows(old, new)
    BY <2>3, <2>5, <2>6 DEF Follows
  <2> QED
    BY <2>1, <2>2, <2>3, <2>7
<1>3. RemoveService(s) => Follows(services[s], Absent)
  BY AdditionsOnly DEF RemoveService, Follows
<1> QED
  BY <1>1, <1>2, <1>3

LEMMA InitialNotesAre ==
  ASSUME NEW state \in [Services -> Service \cup {Absent}], NEW q \in InitialNotes(state)
  PROVE  \A i \in 1..Len(q) : \E s \in Services :
           state[s] # Absent /\ q[i] = NoteOf(s, Absent, state[s])
<1> DEFINE S == {s \in Services : state[s] # Absent}
<1>1. PICK p \in SetToSeqs(S) : q = [i \in DOMAIN p |-> NoteOf(p[i], Absent, state[p[i]])]
  BY DEF InitialNotes
<1>2. IsFiniteSet(S)
  BY ControllersAssumption, FS_Subset
<1>3. PICK n \in Nat : p \in [1..n -> S]
  <2> HIDE DEF S
  <2> QED
    BY <1>2, ListTyped
<1>4. Len(q) = n /\ \A i \in 1..n : p[i] \in S /\ q[i] = NoteOf(p[i], Absent, state[p[i]])
  BY <1>1, <1>3
<1> QED
  BY <1>4

\* The operator is told of a service as it is.
LEMMA ToldTakesWithin ==
  ASSUME services \in [Services -> Service \cup {Absent}], dns \subseteq Addresses,
         NEW s \in Services, NEW v, v = services[s], v # Absent, NEW n \in Notes,
         n = NoteOf(s, v, v) \/ (n = NoteOf(s, Absent, v) /\ ~v.deleting)
  PROVE  Takes(ServiceLists[n], Within(WatchedNow, services), Within(WatchedNow, services))
<1>1. n.name = s /\ n.new = v /\ Before(n) = v
  BY DEF NoteOf, Before
<1>2. Follows(n.old, n.new)
  BY DEF NoteOf, Follows
<1> QED
  BY <1>1, <1>2, TakesWithin DEF ServiceLists

LEMMA ToldFollowed ==
  ASSUME Additions, SafeInv, ServicesFollowed \/ NamespaceFollowed, (Resync \/ Restart) /\ Told
  PROVE  ServicesFollowed'
<1>1. /\ services \in [Services -> Service \cup {Absent}] /\ svcNotes \in Seq(Notes)
      /\ dns \subseteq Addresses
  BY DEF SafeInv, ClusterTyped, NotesTyped
<1>2. UNCHANGED <<namespace, services, dns, registry>>
  BY DEF Resync, Restart, Told
<1>3. /\ Within(WatchedNow, services)' = Within(WatchedNow, services)
      /\ ServiceLists' = ServiceLists
  <2>1. WatchedNow' = WatchedNow
    BY <1>2 DEF WatchedNow
  <2> QED
    BY <1>2, <2>1, ListsUnchanged
<1>4. \A s \in Services : services[s] # Absent =>
        /\ NoteOf(s, Absent, services[s]) \in Notes
        /\ NoteOf(s, services[s], services[s]) \in Notes
  BY <1>1 DEF NoteOf, Notes
<1>5. CASE Resync
  <2>1. /\ NamespaceControllerIdle
        /\ UNCHANGED <<nsNotes, nsOut, svcOut, channel>>
    BY <1>5, AdditionsOnly DEF Resync
  <2>2. PICK q \in InitialNotes(services) :
          svcNotes' = svcNotes \o [i \in DOMAIN q |-> [q[i] EXCEPT !.old = q[i].new]]
    BY <1>5 DEF Resync
  <2> DEFINE r == [i \in DOMAIN q |-> [q[i] EXCEPT !.old = q[i].new]]
  <2>3. q \in Seq(Notes)
    BY <1>1, InitialNotesTyped
  <2>4. \A i \in 1..Len(q) : \E s \in Services :
          services[s] # Absent /\ q[i] = NoteOf(s, Absent, services[s])
    BY <1>1, InitialNotesAre
  <2>5. /\ Len(r) = Len(q) /\ DOMAIN r = 1..Len(q)
        /\ \A i \in 1..Len(q) : r[i] = [q[i] EXCEPT !.old = q[i].new]
    <3>1. DOMAIN q = 1..Len(q) /\ Len(q) \in Nat
      BY <2>3
    <3>2. r = [i \in 1..Len(q) |-> [q[i] EXCEPT !.old = q[i].new]]
      BY <3>1
    <3> HIDE DEF r
    <3> QED
      BY <3>1, <3>2
  <2> HIDE DEF r
  <2>6. \A i \in 1..Len(q) : \E s \in Services :
          services[s] # Absent /\ r[i] = NoteOf(s, services[s], services[s])
    <3> SUFFICES ASSUME NEW i \in 1..Len(q)
                 PROVE  \E s \in Services :
                          services[s] # Absent /\ r[i] = NoteOf(s, services[s], services[s])
      OBVIOUS
    <3>1. PICK s \in Services : services[s] # Absent /\ q[i] = NoteOf(s, Absent, services[s])
      BY <2>4
    <3>2. \A n, v : n = NoteOf(s, Absent, v) => [n EXCEPT !.old = n.new] = NoteOf(s, v, v)
      BY DEF NoteOf
    <3>3. r[i] = NoteOf(s, services[s], services[s])
      BY <2>5, <3>1, <3>2
    <3> QED
      BY <3>1, <3>3
  <2>7. r \in Seq(Notes)
    <3>1. \A i \in 1..Len(q) : r[i] \in Notes
      BY <1>4, <2>6
    <3>2. r = [i \in 1..Len(q) |-> r[i]]
      BY <2>5 DEF r
    <3>3. Len(q) \in Nat
      BY <2>3
    <3> QED
      BY <3>1, <3>2, <3>3
  <2>8. \A i \in 1..Len(r) :
          Takes(ServiceLists[r[i]], Within(WatchedNow, services), Within(WatchedNow, services))
    BY <1>1, <1>4, <2>5, <2>6, ToldTakesWithin
  <2>9. Staged(registry, channel \o svcOut, svcNotes \o r, ServiceLists, Within(WatchedNow, services))
    <3>1. Staged(registry, channel \o svcOut, svcNotes, ServiceLists, Within(WatchedNow, services))
      BY <2>1, FollowedByIdle DEF ServicesFollowed
    <3> QED
      BY <1>1, <2>7, <2>8, <3>1, StagedMore
  <2> QED
    BY <1>2, <1>3, <2>1, <2>2, <2>9 DEF ServicesFollowed, NamespaceControllerIdle, r
<1>6. CASE Restart
  <2>1. Settled /\ NoneDeleting(services)
    BY <1>6, AdditionsOnly DEF Restart, Settled
  <2>2. /\ svcNotes' \in InitialNotes(services)
        /\ nsNotes' = <<>> /\ nsOut' = <<>> /\ svcOut' = <<>> /\ channel' = <<>>
    BY <1>6 DEF Restart
  <2>3. PICK q \in InitialNotes(services) : q = svcNotes'
    BY <2>2
  <2>4. q \in Seq(Notes)
    BY <1>1, InitialNotesTyped
  <2>5. \A i \in 1..Len(q) : \E s \in Services :
          services[s] # Absent /\ q[i] = NoteOf(s, Absent, services[s])
    BY <1>1, InitialNotesAre
  <2>6. \A i \in 1..Len(q) :
          Takes(ServiceLists[q[i]], Within(WatchedNow, services), Within(WatchedNow, services))
    BY <1>1, <1>4, <2>1, <2>5, ToldTakesWithin DEF NoneDeleting
  <2>7. EndsIn(registry, <<>>, Within(WatchedNow, services))
    <3>1. channel \o <<>> = <<>>
      BY <2>1 DEF Settled
    <3> QED
      BY <2>1, <3>1, EitherFollowed DEF Settled
  <2>8. Staged(registry, <<>>, <<>> \o q, ServiceLists, Within(WatchedNow, services))
    <3>1. Staged(registry, <<>>, <<>>, ServiceLists, Within(WatchedNow, services))
      BY <2>7, StagedNone
    <3>2. <<>> \in Seq(Notes)
      OBVIOUS
    <3> QED
      BY <2>4, <2>6, <3>1, <3>2, StagedMore
  <2>9. <<>> \o q = q /\ channel' \o svcOut' = <<>>
    BY <2>2, <2>4
  <2> QED
    BY <1>2, <1>3, <2>2, <2>3, <2>8, <2>9 DEF ServicesFollowed, NamespaceControllerIdle
<1> QED
  BY <1>5, <1>6

\* The service controller looks at a change.
LEMMA HandleServiceFollowed ==
  ASSUME Additions, SafeInv, ServicesFollowed \/ NamespaceFollowed,
         HandleService, UNCHANGED registry
  PROVE  ServicesFollowed'
<1>1. /\ svcOut = <<>> /\ svcNotes # <<>> /\ svcNotes \in Seq(Notes)
      /\ channel \in SafeLists /\ dns \subseteq Addresses
  BY DEF HandleService, SafeInv, ClusterTyped, NotesTyped, ChannelTyped
<1>2. UNCHANGED <<namespace, services, dns, channel, nsNotes, nsOut>>
  BY DEF HandleService, clusterVars
<1>3. NamespaceControllerIdle
        /\ Staged(registry, channel \o svcOut, svcNotes, ServiceLists, Within(WatchedNow, services))
  <2>1. ~ServiceControllerIdle
    BY <1>1 DEF ServiceControllerIdle
  <2> QED
    BY <2>1 DEF ServicesFollowed, NamespaceFollowed
<1>4. PICK n \in Notes : n = Head(svcNotes)
  BY <1>1
<1>5. PICK q : q = svcOut'
  OBVIOUS
<1>6. q \in ServiceEvents(n, FALSE)
  <2>1. q \in ServiceEvents(n, TRUE)
    BY <1>4, <1>5 DEF HandleService
  <2> QED
    BY <2>1, AdditionsOnly, LookupsFound
<1>7. q \in SafeLists /\ q \in ServiceLists[n]
  BY <1>1, <1>6, ServiceEventsTyped DEF Notes, ServiceLists
<1>8. channel \o svcOut = channel
  BY <1>1 DEF SafeLists
<1>9. Staged(registry, channel \o q, Tail(svcNotes), ServiceLists, Within(WatchedNow, services))
  BY <1>1, <1>3, <1>4, <1>7, <1>8, StagedFirst
<1>10. svcNotes' = Tail(svcNotes) /\ WatchedNow' = WatchedNow
  BY <1>2 DEF HandleService, WatchedNow
<1>11. Within(WatchedNow, services)' = Within(WatchedNow, services) /\ ServiceLists' = ServiceLists
  BY <1>2, <1>10, ListsUnchanged
<1> QED
  BY <1>2, <1>3, <1>5, <1>9, <1>10, <1>11 DEF ServicesFollowed, NamespaceControllerIdle

\* The namespace controller looks at a change.
LEMMA HandleNamespaceFollowed ==
  ASSUME SafeInv, ServicesFollowed \/ NamespaceFollowed, HandleNamespace, UNCHANGED registry
  PROVE  NamespaceFollowed'
<1>1. /\ nsOut = <<>> /\ nsNotes # <<>> /\ nsNotes \in Seq(NamespaceNotes)
      /\ channel \in SafeLists /\ dns \subseteq Addresses
      /\ services \in [Services -> Service \cup {Absent}]
  BY DEF HandleNamespace, SafeInv, ClusterTyped, NotesTyped, ChannelTyped
<1>2. UNCHANGED <<namespace, services, dns, channel, svcNotes, svcOut>>
  BY DEF HandleNamespace, clusterVars
<1>3. ServiceControllerIdle
        /\ Staged(registry, channel \o nsOut, nsNotes, NamespaceLists, Within(WatchedNow, services))
  <2>1. ~NamespaceControllerIdle
    BY <1>1 DEF NamespaceControllerIdle
  <2> QED
    BY <2>1 DEF ServicesFollowed, NamespaceFollowed
<1>4. PICK n \in NamespaceNotes : n = Head(nsNotes)
  BY <1>1
<1>5. PICK q : q = nsOut'
  OBVIOUS
<1>6. q \in NamespaceEvents(n)
  BY <1>4, <1>5 DEF HandleNamespace
<1>7. q \in SafeLists /\ q \in NamespaceLists[n]
  BY <1>1, <1>6, NamespaceEventsTyped DEF NamespaceNotes, NamespaceLists
<1>8. channel \o nsOut = channel
  BY <1>1 DEF SafeLists
<1>9. Staged(registry, channel \o q, Tail(nsNotes), NamespaceLists, Within(WatchedNow, services))
  BY <1>1, <1>3, <1>4, <1>7, <1>8, StagedFirst
<1>10. nsNotes' = Tail(nsNotes) /\ WatchedNow' = WatchedNow
  BY <1>2 DEF HandleNamespace, WatchedNow
<1>11. Within(WatchedNow, services)' = Within(WatchedNow, services) /\ NamespaceLists' = NamespaceLists
  BY <1>2, <1>10, ListsUnchanged
<1> QED
  BY <1>2, <1>3, <1>5, <1>9, <1>10, <1>11 DEF NamespaceFollowed, ServiceControllerIdle

\* What is sent comes from the one that is at work, and is handled in its order.
LEMMA EventsFollowed ==
  ASSUME SafeInv, ServicesFollowed \/ NamespaceFollowed,
         \/ SendService /\ UNCHANGED registry
         \/ SendNamespace /\ UNCHANGED registry
         \/ Handle
  PROVE  (ServicesFollowed \/ NamespaceFollowed)'
<1>1. channel \in SafeLists /\ svcOut \in SafeLists /\ nsOut \in SafeLists
  BY DEF SafeInv, ChannelTyped, OutTyped
<1>2. UNCHANGED <<namespace, services, dns, svcNotes, nsNotes>>
  BY DEF SendService, SendNamespace, Handle, Receive, clusterVars
<1>3. /\ Within(WatchedNow, services)' = Within(WatchedNow, services)
      /\ ServiceLists' = ServiceLists /\ NamespaceLists' = NamespaceLists
  <2>1. WatchedNow' = WatchedNow
    BY <1>2 DEF WatchedNow
  <2> QED
    BY <1>2, <2>1, ListsUnchanged
<1>4. CASE SendService /\ UNCHANGED registry
  <2>1. /\ svcOut # <<>> /\ channel' = Append(channel, Head(svcOut)) /\ svcOut' = Tail(svcOut)
        /\ nsOut' = nsOut
    BY <1>4 DEF SendService
  <2>2. ServicesFollowed
    BY <2>1 DEF NamespaceFollowed, ServiceControllerIdle
  <2>3. channel' \o svcOut' = channel \o svcOut
    BY <1>1, <2>1 DEF SafeLists
  <2> QED
    BY <1>2, <1>3, <1>4, <2>1, <2>2, <2>3 DEF ServicesFollowed, NamespaceControllerIdle
<1>5. CASE SendNamespace /\ UNCHANGED registry
  <2>1. /\ nsOut # <<>> /\ channel' = Append(channel, Head(nsOut)) /\ nsOut' = Tail(nsOut)
        /\ svcOut' = svcOut
    BY <1>5 DEF SendNamespace
  <2>2. NamespaceFollowed
    BY <2>1 DEF ServicesFollowed, NamespaceControllerIdle
  <2>3. channel' \o nsOut' = channel \o nsOut
    BY <1>1, <2>1 DEF SafeLists
  <2> QED
    BY <1>2, <1>3, <1>5, <2>1, <2>2, <2>3 DEF NamespaceFollowed, ServiceControllerIdle
<1>6. CASE Handle
  <2>1. channel # <<>> /\ channel' = Tail(channel) /\ svcOut' = svcOut /\ nsOut' = nsOut
    BY <1>6 DEF Handle, Receive
  <2>2. registry' = After(registry, Head(channel))
    BY <1>6, HandleIsAfter
  <2>3. ASSUME NEW out \in SafeLists
        PROVE  /\ channel \o out \in SafeLists /\ channel \o out # <<>>
               /\ Head(channel \o out) = Head(channel) /\ Tail(channel \o out) = channel' \o out
    BY <1>1, <2>1 DEF SafeLists
  <2>4. CASE ServicesFollowed
    <3>1. Staged(registry', channel' \o svcOut, svcNotes, ServiceLists, Within(WatchedNow, services))
      BY <1>1, <2>2, <2>3, <2>4, StagedTail DEF ServicesFollowed
    <3> QED
      BY <1>2, <1>3, <2>1, <2>4, <3>1 DEF ServicesFollowed, NamespaceControllerIdle
  <2>5. CASE NamespaceFollowed
    <3>1. Staged(registry', channel' \o nsOut, nsNotes, NamespaceLists, Within(WatchedNow, services))
      BY <1>1, <2>2, <2>3, <2>5, StagedTail DEF NamespaceFollowed
    <3> QED
      BY <1>2, <1>3, <2>1, <2>5, <3>1 DEF NamespaceFollowed, ServiceControllerIdle
  <2> QED
    BY <2>4, <2>5
<1> QED
  BY <1>4, <1>5, <1>6

\* The namespace changes.
LEMMA NamespaceChangeFollowed ==
  ASSUME Additions, SafeInv, ServicesFollowed \/ NamespaceFollowed,
         NEW new \in Labels \cup {Absent}, ChangeNamespace(new), UNCHANGED registry
  PROVE  NamespaceFollowed'
<1>1. /\ UNCHANGED <<services, dns, channel, nsOut, svcNotes, svcOut>> /\ ServiceControllerIdle
      /\ new # namespace /\ ~EnablesDying(new)
      /\ Absent \in {new, namespace} => \A s \in Services : services[s] = Absent
      /\ namespace' = new /\ nsNotes' = Append(nsNotes, [old |-> namespace, new |-> new])
  BY AdditionsOnly DEF ChangeNamespace
<1>2. /\ services \in [Services -> Service \cup {Absent}] /\ nsNotes \in Seq(NamespaceNotes)
      /\ dns \subseteq Addresses /\ namespace \in Labels \cup {Absent}
  BY DEF SafeInv, ClusterTyped, NotesTyped
<1>3. NamespaceFollowed
  BY <1>1, FollowedByIdle
<1>4. PICK old : old = namespace
  OBVIOUS
<1>5. PICK n : n = [old |-> old, new |-> new]
  OBVIOUS
<1>6. n \in NamespaceNotes /\ n.old = old /\ n.new = new
  BY <1>2, <1>4, <1>5 DEF NamespaceNotes
<1>7. WatchedNow <=> On(old)
  BY <1>4 DEF WatchedNow, On
<1>8. On(n.new) /\ ~On(n.old) => NoneDying
  <2>1. \A s \in Services : Published(services[s]) => services[s] # Absent
    BY DEF Published, Check, Nothing
  <2> QED
    BY <1>1, <1>6, <1>7, <2>1 DEF EnablesDying, Enables, On, NoneDying, NoneDeleting
<1>9. Takes(NamespaceEvents(n), Within(On(old), services), Within(On(new), services))
  BY <1>1, <1>2, <1>4, <1>6, <1>8, AdditionsOnly, NamespaceTakesWithin
<1>10. Within(WatchedNow, services) = Within(On(old), services)
  BY <1>7 DEF Within, Shown
<1>11. Staged(registry, channel \o nsOut, Append(nsNotes, n), NamespaceLists, Within(On(new), services))
  <2>1. NamespaceLists[n] = NamespaceEvents(n)
    BY <1>6 DEF NamespaceLists
  <2> QED
    BY <1>2, <1>3, <1>6, <1>9, <1>10, <2>1, StagedAppended DEF NamespaceFollowed
<1>12. WatchedNow' <=> On(new)
  BY <1>1 DEF WatchedNow, On
<1>13. NamespaceLists' = NamespaceLists /\ \A on, state : Within(on, state)' = Within(on, state)
  BY <1>1, ListsUnchanged
<1>14. Within(WatchedNow, services)' = Within(On(new), services)
  <2>1. \A a, b, state : (a <=> b) => Within(a, state) = Within(b, state)
    BY DEF Within, Shown
  <2>2. PICK a : a = WatchedNow'
    OBVIOUS
  <2>3. Within(WatchedNow, services)' = Within(a, services)'
    BY <2>2 DEF Within, Shown
  <2>4. Within(a, services)' = Within(a, services)
    BY <1>1, <1>13
  <2> QED
    BY <1>12, <2>1, <2>2, <2>3, <2>4
<1>15. nsNotes' = Append(nsNotes, n)
  BY <1>1, <1>4, <1>5
<1> QED
  BY <1>1, <1>11, <1>13, <1>14, <1>15 DEF NamespaceFollowed, ServiceControllerIdle

LEMMA InitFollow ==
  ASSUME Additions
  PROVE  OperatorInit => FollowInv
<1> SUFFICES ASSUME OperatorInit
             PROVE  FollowInv
  OBVIOUS
<1>1. KeptInv /\ SafeInv
  BY InitKept DEF KeptInv
<1>2. /\ services \in [Services -> Service \cup {Absent}] /\ dns \subseteq Addresses
  BY <1>1 DEF SafeInv, ClusterTyped
<1>3. /\ svcNotes \in InitialNotes(services) /\ NoneDeleting(services)
      /\ nsNotes = <<>> /\ nsOut = <<>> /\ svcOut = <<>> /\ channel = <<>>
      /\ registry = <<>>
  BY AdditionsOnly DEF OperatorInit, Init
<1>4. registry \in Within(WatchedNow, services)
  <2>1. registry \in SafeRegistries
    BY <1>1 DEF SafeInv, RegistrySafe
  <2>2. DOMAIN registry = {}
    BY <1>3
  <2> QED
    BY <2>1, <2>2 DEF Within, AtMost
<1>5. \A s \in Services : services[s] # Absent => NoteOf(s, Absent, services[s]) \in Notes
  BY <1>2 DEF NoteOf, Notes
<1>6. svcNotes \in Seq(Notes)
  BY <1>2, <1>3, InitialNotesTyped
<1>7. \A i \in 1..Len(svcNotes) :
        Takes(ServiceLists[svcNotes[i]], Within(WatchedNow, services), Within(WatchedNow, services))
  <2>1. \A i \in 1..Len(svcNotes) : \E s \in Services :
          services[s] # Absent /\ svcNotes[i] = NoteOf(s, Absent, services[s])
    BY <1>2, <1>3, InitialNotesAre
  <2> QED
    BY <1>2, <1>3, <1>5, <2>1, ToldTakesWithin DEF NoneDeleting
<1>8. Staged(registry, <<>>, <<>> \o svcNotes, ServiceLists, Within(WatchedNow, services))
  <2>1. Staged(registry, <<>>, <<>>, ServiceLists, Within(WatchedNow, services))
    BY <1>4, EndsInEmpty, StagedNone
  <2>2. <<>> \in Seq(Notes)
    OBVIOUS
  <2> QED
    BY <1>6, <1>7, <2>1, <2>2, StagedMore
<1>9. <<>> \o svcNotes = svcNotes /\ channel \o svcOut = <<>>
  BY <1>3, <1>6
<1> QED
  BY <1>1, <1>3, <1>8, <1>9 DEF FollowInv, ServicesFollowed, NamespaceControllerIdle

\* No fault happens, and nothing changes that leaves behind what is to go.
LEMMA NextFollow ==
  ASSUME Additions, MaxFaults = 0
  PROVE  FollowInv /\ [Next]_vars => FollowInv'
<1> SUFFICES ASSUME FollowInv, [Next]_vars
             PROVE  FollowInv'
  OBVIOUS
<1>1. KeptInv' /\ SafeInv /\ (ServicesFollowed \/ NamespaceFollowed)
  BY NextKept DEF FollowInv, KeptInv
<1>2. services \in [Services -> Service \cup {Absent}]
  BY <1>1 DEF SafeInv, ClusterTyped
<1>3. ~Fault
  BY <1>1 DEF Fault, SafeInv, HistoryTyped
<1> DEFINE Followed == ServicesFollowed \/ NamespaceFollowed
<1> SUFFICES Followed'
  BY <1>1 DEF FollowInv
<1>4. ASSUME NEW s \in Services, NEW new \in Service, ApplyService(s, new), UNCHANGED registry
      PROVE  Followed'
  <2>1. ServiceChange(s, new)
    BY <1>4 DEF ApplyService
  <2>2. Follows(services[s], new)
    BY <1>2, <1>4, ChangesFollow
  <2> QED
    BY <1>1, <1>4, <2>1, <2>2, ServiceChangeFollowed
<1>5. ASSUME NEW s \in Services, MarkService(s), UNCHANGED registry
      PROVE  Followed'
  <2>1. PICK new : new = [services[s] EXCEPT !.deleting = TRUE]
    OBVIOUS
  <2>2. new \in Service /\ Follows(services[s], new)
    BY <1>2, <1>5, <2>1, ChangesFollow
  <2>3. ServiceChange(s, new)
    BY <1>5, <2>1 DEF MarkService
  <2> QED
    BY <1>1, <1>5, <2>2, <2>3, ServiceChangeFollowed
<1>6. ASSUME NEW s \in Services, RemoveService(s), UNCHANGED registry
      PROVE  Followed'
  <2>1. ServiceChange(s, Absent) /\ Follows(services[s], Absent)
    BY <1>2, <1>6, ChangesFollow DEF RemoveService
  <2> QED
    BY <1>1, <1>6, <2>1, ServiceChangeFollowed
<1>7. ASSUME NEW new \in Labels \cup {Absent}, ChangeNamespace(new), UNCHANGED registry
      PROVE  Followed'
  BY <1>1, <1>7, NamespaceChangeFollowed
<1>8. \A new \in SUBSET Addresses : ~ChangeNames(new)
  BY AdditionsOnly DEF ChangeNames
<1>9. ASSUME (Resync \/ Restart) /\ Told
      PROVE  Followed'
  BY <1>1, <1>9, ToldFollowed
<1>10. ASSUME HandleService, UNCHANGED registry
       PROVE  Followed'
  BY <1>1, <1>10, HandleServiceFollowed
<1>11. ASSUME HandleNamespace, UNCHANGED registry
       PROVE  Followed'
  BY <1>1, <1>11, HandleNamespaceFollowed
<1>12. ~(HandleServiceFails /\ Fault) /\ ~(HandleNamespaceFails /\ Fault) /\ ~Lose
  BY <1>3 DEF Lose
<1>13. ASSUME SendService \/ SendNamespace, UNCHANGED registry
       PROVE  Followed'
  BY <1>1, <1>13, EventsFollowed
<1>14. ASSUME Handle
       PROVE  Followed'
  BY <1>1, <1>14, EventsFollowed
<1>15. ASSUME UNCHANGED vars
       PROVE  Followed'
  <2>1. UNCHANGED <<namespace, services, dns, nsNotes, svcNotes, nsOut, svcOut, channel, registry>>
    BY <1>15 DEF vars, clusterVars, controllerVars
  <2>2. WatchedNow' = WatchedNow
    BY <2>1 DEF WatchedNow
  <2>3. /\ Within(WatchedNow, services)' = Within(WatchedNow, services)
        /\ ServiceLists' = ServiceLists /\ NamespaceLists' = NamespaceLists
    BY <2>1, <2>2, ListsUnchanged
  <2> QED
    BY <1>1, <2>1, <2>3
       DEF ServicesFollowed, NamespaceFollowed, NamespaceControllerIdle, ServiceControllerIdle
<1>16. Done => UNCHANGED vars
  BY DEF Done
<1>17. \A cond : KeepsWholeIf(cond) => UNCHANGED registry
  BY DEF KeepsWholeIf
<1> HIDE DEF Followed
<1> QED
  BY <1>4, <1>5, <1>6, <1>7, <1>8, <1>9, <1>10, <1>11, <1>12, <1>13, <1>14, <1>15, <1>16, <1>17
     DEF Next

\* What has all been dealt with leaves nothing in the registry that is not shown.
LEMMA FollowLeavesNothing == FollowInv => NothingLeft
<1> SUFFICES ASSUME FollowInv, Settled
             PROVE  Present \ {<<>>} \subseteq Wanted /\ (~WatchedNow => Present = {})
  BY DEF NothingLeft
<1>1. registry \in Within(WatchedNow, services)
  <2>1. EndsIn(registry, channel \o <<>>, Within(WatchedNow, services))
    BY EitherFollowed DEF FollowInv, Settled
  <2>2. channel \o <<>> = <<>>
    BY DEF Settled
  <2> QED
    BY <2>1, <2>2, EndsInEmpty
<1>2. ~WatchedNow => Present = {}
  BY <1>1 DEF Within, Present
<1>3. ASSUME NEW o \in Present, o # <<>>
      PROVE  o \in Wanted
  <2>1. o \in Objects
    BY <1>1 DEF Within, SafeRegistries, Present
  <2>2. PICK s \in Services : o \in ObjectsOf(s)
    <3>1. CASE \E s \in Services : o = <<s>>
      BY <3>1 DEF ObjectsOf
    <3>2. CASE o \in Services \X Addresses
      BY <3>2 DEF ObjectsOf
    <3> QED
      BY <1>3, <2>1, <3>1, <3>2 DEF Objects
  <2>3. o \in Shown(WatchedNow, s, services[s])
    BY <1>1, <2>2 DEF Within, AtMost, Present
  <2>4. Wants(s) /\ o \in All(s, Check(services[s]))
    BY <2>3 DEF Shown, Wants
  <2> QED
    BY <2>4 DEF Wanted, All
<1> QED
  BY <1>2, <1>3

\* If nothing has been missed either it shows the cluster: KeptInv gives that nothing
\* is missing.
LEMMA FollowShows == FollowInv => ReflectsWhenWhole
<1> SUFFICES ASSUME FollowInv, whole, Settled
             PROVE  /\ Present \ {<<>>} = Wanted
                    /\ ~WatchedNow => Present = {}
                    /\ MetadataReflected
  BY DEF ReflectsWhenWhole, ReflectsCluster
<1>1. Wanted \subseteq Present /\ MetadataReflected
  BY KeptRestores DEF FollowInv, RestartRestores
<1>2. Present \ {<<>>} \subseteq Wanted /\ (~WatchedNow => Present = {})
  BY FollowLeavesNothing DEF NothingLeft
<1>3. <<>> \notin Wanted
  BY Paths DEF Wanted, EndpointsOf
<1> QED
  BY <1>1, <1>2, <1>3

\* Without trouble and faults nothing is ever missed.
LEMMA StaysWhole ==
  ASSUME Troubles = {}, MaxFaults = 0
  PROVE  (FollowInv /\ FollowInv' /\ whole) /\ [Next]_vars => whole'
<1> SUFFICES ASSUME FollowInv, FollowInv', whole, [Next]_vars
             PROVE  whole'
  OBVIOUS
<1>1. ~Fault
  BY DEF Fault, FollowInv, KeptInv, SafeInv, HistoryTyped
<1>2. ASSUME NEW s \in Services, NEW new \in Service, ApplyService(s, new),
             KeepsWholeIf(~Grows(s, new) /\ NamespaceControllerIdle)
      PROVE  whole'
  BY <1>2 DEF ApplyService, ServiceChange, KeepsWholeIf
<1>3. ASSUME NEW new \in Labels \cup {Absent}, ChangeNamespace(new),
             KeepsWholeIf(~Enables(new) /\ ServiceControllerIdle)
      PROVE  whole'
  BY <1>3 DEF ChangeNamespace, KeepsWholeIf
<1>4. \A new \in SUBSET Addresses : ~ChangeNames(new)
  BY DEF ChangeNames
<1>5. ASSUME (Resync \/ Restart) /\ Told
      PROVE  whole'
  <2>1. ServicesFollowed'
    BY <1>5, ToldFollowed DEF Additions, FollowInv, KeptInv
  <2> QED
    BY <1>5, <2>1 DEF Told, ServicesFollowed
<1>6. ASSUME HandleService, KeepsWholeIf(LookupsSucceed(Head(svcNotes)))
      PROVE  whole'
  BY <1>6 DEF KeepsWholeIf, LookupsSucceed
<1>7. KeepsWholeIf(TRUE) => whole'
  BY DEF KeepsWholeIf
<1>8. ~(HandleServiceFails /\ Fault) /\ ~(HandleNamespaceFails /\ Fault) /\ ~Lose
  BY <1>1 DEF Lose
<1>9. Handle \/ Done \/ UNCHANGED vars => whole'
  BY DEF Handle, Done, vars
<1> QED
  BY <1>2, <1>3, <1>4, <1>5, <1>6, <1>7, <1>8, <1>9 DEF Next

LEMMA FollowAlways ==
  ASSUME Additions, MaxFaults = 0
  PROVE  Spec => []FollowInv
<1>1. OperatorInit => FollowInv
  BY InitFollow
<1>2. FollowInv /\ [Next]_vars => FollowInv'
  BY NextFollow
<1> QED
  BY <1>1, <1>2, PTL DEF Spec

\* Where no call fails, and of the changes that the controllers do not follow only
\* those happen that bring something in (an address more, a namespace that becomes
\* watched), nothing stays in the registry that should not be there: for any services,
\* addresses, annotations, number of changes and capacity of the channel.
THEOREM NothingLeftAlways ==
  ASSUME Additions, MaxFaults = 0
  PROVE  Spec => []NothingLeft
<1>1. Spec => []FollowInv
  BY FollowAlways
<1> QED
  BY <1>1, FollowLeavesNothing, PTL

\* And the registry shows the cluster again once the operator has been told of all
\* services, by its restart or the resync, and has dealt with it.
THEOREM ReflectsWhenWholeAlways ==
  ASSUME Additions, MaxFaults = 0
  PROVE  Spec => []ReflectsWhenWhole
<1>1. Spec => []FollowInv
  BY FollowAlways
<1> QED
  BY <1>1, FollowShows, PTL

\* Where none of these changes happens either, the registry shows the cluster whenever
\* all is dealt with, without any restart or resync.
THEOREM ReflectsClusterAlways ==
  ASSUME Troubles = {}, MaxFaults = 0
  PROVE  Spec => []ReflectsCluster
<1>1. Spec => []FollowInv
  BY FollowAlways DEF Additions
<1>2. OperatorInit => whole
  BY DEF OperatorInit
<1>3. (FollowInv /\ FollowInv' /\ whole) /\ [Next]_vars => whole'
  BY StaysWhole
<1>4. Spec => []whole
  BY <1>1, <1>2, <1>3, PTL DEF Spec
<1>5. FollowInv /\ whole => ReflectsCluster
  BY FollowShows DEF ReflectsWhenWhole
<1> QED
  BY <1>1, <1>4, <1>5, PTL
=============================================================================
