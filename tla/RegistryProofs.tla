--------------------------- MODULE RegistryProofs ---------------------------
(***************************************************************************)
(* What gets into the registry, and what stays there, proved for Operator. *)
(***************************************************************************)
EXTENDS OperatorProofs, SequenceTheorems

(***************************************************************************)
(* Objects are told apart by their paths.                                  *)
(***************************************************************************)
LEMMA Paths ==
  ASSUME NEW s, NEW a
  PROVE  /\ <<s>> # <<>> /\ <<s, a>> # <<>>
         /\ Parent(<<s>>) = <<>> /\ Parent(<<s, a>>) = <<s>>
         /\ \A t, b : /\ <<s>> = <<t>> => s = t
                      /\ <<s, a>> = <<t, b>> => s = t /\ a = b
                      /\ <<s>> # <<t, b>>
<1>1. <<s>> # <<>> /\ <<s, a>> # <<>>
  OBVIOUS
<1>2. Parent(<<s>>) = <<>>
  BY DEF Parent, Front
<1>3. Parent(<<s, a>>) = <<s>>
  <2> DEFINE q == <<s, a>>
  <2>1. q \in Seq({s, a}) /\ Len(q) = 2 /\ q[1] = s
    OBVIOUS
  <2> HIDE DEF q
  <2>2. SubSeq(q, 1, 1) \in Seq({s, a}) /\ Len(SubSeq(q, 1, 1)) = 1 /\ SubSeq(q, 1, 1)[1] = s
    BY <2>1
  <2>3. SubSeq(q, 1, 1) = <<s>>
    <3>1. <<s>> \in Seq({s, a}) /\ Len(<<s>>) = 1 /\ <<s>>[1] = s
      OBVIOUS
    <3> DEFINE x == SubSeq(q, 1, 1)
               y == <<s>>
    <3>2. x \in Seq({s, a}) /\ y \in Seq({s, a}) /\ Len(x) = Len(y)
      BY <2>2, <3>1
    <3>3. \A i \in 1..Len(x) : x[i] = y[i]
      BY <2>2, <3>1
    <3> HIDE DEF x, y
    <3>4. x = y
      BY <3>2, <3>3, SeqEqual
    <3> QED
      BY <3>4 DEF x, y
  <2> QED
    BY <2>1, <2>3 DEF Parent, Front, q
<1>4. \A t, b : <<s>> # <<t, b>>
  OBVIOUS
<1>5. \A t : <<s>> = <<t>> => s = t
  OBVIOUS
<1>6. \A t, b : <<s, a>> = <<t, b>> => s = t /\ a = b
  OBVIOUS
<1> QED
  BY <1>1, <1>2, <1>3, <1>4, <1>5, <1>6
-----------------------------------------------------------------------------
(***************************************************************************)
(* A list of events takes a registry from one to the next, event by event. *)
(***************************************************************************)

\* r lists what becomes of R with the events of E.
IsTrace(r, R, E) == r[0] = R /\ \A i \in 1..Len(E) : r[i] = After(r[i - 1], E[i])

\* The events of E take R to a registry of G.
EndsIn(R, E, G) == \A r : IsTrace(r, R, E) => r[Len(E)] \in G

LEMMA EndsInEmpty ==
  ASSUME NEW R, NEW G
  PROVE  EndsIn(R, <<>>, G) <=> R \in G
<1>1. Len(<<>>) = 0
  OBVIOUS
<1>2. IsTrace([i \in {0} |-> R], R, <<>>)
  BY DEF IsTrace
<1>3. ASSUME EndsIn(R, <<>>, G)
      PROVE  R \in G
  <2> DEFINE r == [i \in {0} |-> R]
  <2>1. r[0] = R
    OBVIOUS
  <2> HIDE DEF r
  <2> QED
    BY <1>1, <1>2, <1>3, <2>1 DEF EndsIn, r
<1>4. ASSUME R \in G
      PROVE  EndsIn(R, <<>>, G)
  BY <1>1, <1>4 DEF EndsIn, IsTrace
<1> QED
  BY <1>3, <1>4

\* An event that is dealt with is one of those to come no more.
LEMMA EndsInTail ==
  ASSUME NEW S, NEW E \in Seq(S), E # <<>>, NEW R, NEW G, EndsIn(R, E, G)
  PROVE  EndsIn(After(R, Head(E)), Tail(E), G)
<1> SUFFICES ASSUME NEW r, IsTrace(r, After(R, Head(E)), Tail(E))
             PROVE  r[Len(Tail(E))] \in G
  BY DEF EndsIn
<1>1. /\ Len(E) \in Nat \ {0} /\ Len(Tail(E)) = Len(E) - 1 /\ Head(E) = E[1]
      /\ \A i \in 1..(Len(E) - 1) : Tail(E)[i] = E[i + 1]
  OBVIOUS
<1> DEFINE p == [i \in 0..Len(E) |-> IF i = 0 THEN R ELSE r[i - 1]]
<1>2. p[0] = R /\ \A i \in 1..Len(E) : p[i] = r[i - 1]
  BY <1>1
<1> HIDE DEF p
<1>3. IsTrace(p, R, E)
  <2> SUFFICES ASSUME NEW i \in 1..Len(E)
               PROVE  p[i] = After(p[i - 1], E[i])
    BY <1>2 DEF IsTrace
  <2>1. CASE i = 1
    BY <1>1, <1>2, <2>1 DEF IsTrace
  <2>2. CASE i # 1
    <3>1. i - 1 \in 1..Len(Tail(E)) /\ i - 1 \in 1..(Len(E) - 1)
      BY <1>1, <2>2
    <3>2. r[i - 1] = After(r[i - 1 - 1], Tail(E)[i - 1])
      BY <3>1 DEF IsTrace
    <3>3. Tail(E)[i - 1] = E[i]
      BY <1>1, <3>1
    <3>4. p[i] = r[i - 1] /\ p[i - 1] = r[i - 1 - 1]
      BY <1>1, <1>2, <3>1
    <3> QED
      BY <3>2, <3>3, <3>4
  <2> QED
    BY <2>1, <2>2
<1>4. p[Len(E)] \in G
  BY <1>3 DEF EndsIn
<1> QED
  BY <1>1, <1>2, <1>4

\* Events that come later go on from where the others end.
LEMMA EndsInAppended ==
  ASSUME NEW S, NEW E \in Seq(S), NEW q \in Seq(S), NEW R, NEW G, NEW H,
         EndsIn(R, E, G), \A x \in G : EndsIn(x, q, H)
  PROVE  EndsIn(R, E \o q, H)
<1> SUFFICES ASSUME NEW r, IsTrace(r, R, E \o q)
             PROVE  r[Len(E \o q)] \in H
  BY DEF EndsIn
<1>1. /\ Len(E) \in Nat /\ Len(q) \in Nat /\ Len(E \o q) = Len(E) + Len(q)
      /\ \A i \in 1..Len(E) : (E \o q)[i] = E[i]
      /\ \A i \in 1..Len(q) : (E \o q)[Len(E) + i] = q[i]
  OBVIOUS
<1>2. IsTrace(r, R, E)
  BY <1>1 DEF IsTrace
<1>3. r[Len(E)] \in G
  BY <1>2 DEF EndsIn
<1> DEFINE p == [i \in 0..Len(q) |-> r[Len(E) + i]]
<1>4. \A i \in 0..Len(q) : p[i] = r[Len(E) + i]
  OBVIOUS
<1> HIDE DEF p
<1>5. IsTrace(p, r[Len(E)], q)
  <2>1. p[0] = r[Len(E)]
    BY <1>1, <1>4
  <2>2. ASSUME NEW i \in 1..Len(q)
        PROVE  p[i] = After(p[i - 1], q[i])
    <3>1. Len(E) + i \in 1..Len(E \o q) /\ Len(E) + i - 1 = Len(E) + (i - 1)
      BY <1>1
    <3>2. r[Len(E) + i] = After(r[Len(E) + i - 1], (E \o q)[Len(E) + i])
      BY <3>1 DEF IsTrace
    <3>3. p[i] = r[Len(E) + i] /\ p[i - 1] = r[Len(E) + (i - 1)]
      BY <1>1, <1>4
    <3> QED
      BY <1>1, <3>1, <3>2, <3>3
  <2> QED
    BY <2>1, <2>2 DEF IsTrace
<1>6. p[Len(q)] \in H
  BY <1>3, <1>5 DEF EndsIn
<1> QED
  BY <1>1, <1>4, <1>6

\* A list leads from P[0] to P[Len] if each event leads from one set to the next.
LEMMA Walk ==
  ASSUME NEW S, NEW q \in Seq(S), NEW P,
         \A i \in 1..Len(q) : \A x \in P[i - 1] : After(x, q[i]) \in P[i]
  PROVE  \A R \in P[0] : EndsIn(R, q, P[Len(q)])
<1> SUFFICES ASSUME NEW R \in P[0], NEW r, IsTrace(r, R, q)
             PROVE  r[Len(q)] \in P[Len(q)]
  BY DEF EndsIn
<1>1. Len(q) \in Nat
  OBVIOUS
<1> DEFINE T == {k \in Nat : k <= Len(q) => r[k] \in P[k]}
<1>2. 0 \in T
  BY DEF IsTrace
<1>3. ASSUME NEW k \in Nat, k \in T
      PROVE  k + 1 \in T
  <2> SUFFICES ASSUME k + 1 <= Len(q)
               PROVE  r[k + 1] \in P[k + 1]
    OBVIOUS
  <2>1. k + 1 \in 1..Len(q) /\ k + 1 - 1 = k /\ r[k] \in P[k]
    BY <1>1, <1>3
  <2>2. r[k + 1] = After(r[k], q[k + 1])
    BY <2>1 DEF IsTrace
  <2> QED
    BY <2>1, <2>2
<1>4. Len(q) \in T
  <2> HIDE DEF T
  <2> QED
    BY <1>1, <1>2, <1>3, SetInduction
<1> QED
  BY <1>4
-----------------------------------------------------------------------------
(***************************************************************************)
(* What the lists of events do for a service.                              *)
(***************************************************************************)

\* The registries that have a service with all that checkService has found of it.
Covering(s, check) ==
  {R \in SafeRegistries :
     /\ <<>> \in DOMAIN R /\ <<s>> \in DOMAIN R
     /\ \A e \in EndpointsOf(s, check) : e \in DOMAIN R /\ R[e] = check.metadata}

\* A service and the endpoints that it may have.
ObjectsOf(s) == {<<s>>} \cup {<<s, a>> : a \in Addresses}

LEMMA ObjectsOfOther ==
  ASSUME NEW s, NEW t, s # t
  PROVE  ObjectsOf(s) \cap ObjectsOf(t) = {} /\ <<>> \notin ObjectsOf(s)
BY Paths DEF ObjectsOf

\* What is done to other objects leaves a service as it is: the namespace cannot go
\* before it.
LEMMA OthersKeepCovering ==
  ASSUME NEW s \in Services, NEW check \in SafeChecks, NEW R \in Covering(s, check),
         NEW e \in SafeEvents, e.object \notin ObjectsOf(s)
  PROVE  After(R, e) \in Covering(s, check)
<1> DEFINE o == e.object
           new == After(R, e)
<1>1. new \in SafeRegistries
  BY AfterTyped DEF Covering
<1>2. <<s>> \in DOMAIN R /\ <<s>> # <<>> /\ Parent(<<s>>) = <<>> /\ <<>> \in DOMAIN R
  BY Paths DEF Covering
<1>3. EndpointsOf(s, check) \subseteq ObjectsOf(s) /\ <<s>> \in ObjectsOf(s)
  BY DEF EndpointsOf, ObjectsOf, SafeChecks
<1>4. \/ new = R
      \/ new = [x \in DOMAIN R \ {o} |-> R[x]] /\ o # <<>>
      \/ new = [x \in DOMAIN R \cup {o} |-> IF x = o THEN e.metadata ELSE R[x]]
  BY <1>2 DEF After
<1> HIDE DEF o, new
<1>5. \A x \in ObjectsOf(s) : x # o
  BY DEF o
<1>6. /\ <<>> \in DOMAIN new /\ <<s>> \in DOMAIN new
      /\ \A x \in EndpointsOf(s, check) : x \in DOMAIN new /\ new[x] = check.metadata
  BY <1>2, <1>3, <1>4, <1>5 DEF Covering
<1> QED
  BY <1>1, <1>6 DEF Covering, new

LEMMA OtherListKeepsCovering ==
  ASSUME NEW s \in Services, NEW check \in SafeChecks, NEW q \in SafeLists,
         \A i \in 1..Len(q) : q[i].object \notin ObjectsOf(s)
  PROVE  \A R \in Covering(s, check) : EndsIn(R, q, Covering(s, check))
<1> DEFINE P == [i \in 0..Len(q) |-> Covering(s, check)]
<1>1. q \in Seq(SafeEvents) /\ Len(q) \in Nat /\ \A i \in 1..Len(q) : q[i] \in SafeEvents
  BY DEF SafeLists
<1>2. \A i \in 0..Len(q) : P[i] = Covering(s, check)
  OBVIOUS
<1> HIDE DEF P
<1>3. \A i \in 1..Len(q) : \A x \in P[i - 1] : After(x, q[i]) \in P[i]
  BY <1>1, <1>2, OthersKeepCovering
<1>4. \A R \in P[0] : EndsIn(R, q, P[Len(q)])
  BY <1>1, <1>3, Walk
<1>5. P[0] = Covering(s, check) /\ P[Len(q)] = Covering(s, check)
  BY <1>1, <1>2
<1> QED
  BY <1>4, <1>5

\* The registries that have the namespace and a service.
Having(s) == {R \in SafeRegistries : <<>> \in DOMAIN R /\ <<s>> \in DOMAIN R}

\* Those in which the first k objects of a list are as they should be, if in K.
PutSoFar(s, q, k, K, md) ==
  {x \in Having(s) : \A i \in 1..k : q[i].object \in K =>
                       q[i].object \in DOMAIN x /\ x[q[i].object] = md}

\* One event for each of some endpoints, of which those of a set are put there.
LEMMA EndpointsPut ==
  ASSUME NEW s \in Services, NEW q \in SafeLists, NEW K, NEW md,
         \A i \in 1..Len(q) : /\ q[i].object \in {<<s, a>> : a \in Addresses}
                              /\ \A j \in 1..Len(q) : q[i].object = q[j].object => i = j
                              /\ q[i].object \in K => q[i].type # "delete" /\ q[i].metadata = md
  PROVE  \A R \in Having(s) : EndsIn(R, q, PutSoFar(s, q, Len(q), K, md))
<1> USE DEF PutSoFar
<1> DEFINE Put(k) == PutSoFar(s, q, k, K, md)
           P == [k \in 0..Len(q) |-> Put(k)]
<1>1. q \in Seq(SafeEvents) /\ Len(q) \in Nat /\ \A i \in 1..Len(q) : q[i] \in SafeEvents
  BY DEF SafeLists
<1>2. ASSUME NEW k \in 1..Len(q), NEW x \in Put(k - 1)
      PROVE  After(x, q[k]) \in Put(k)
  <2> DEFINE new == After(x, q[k])
             o == q[k].object
  <2>1. new \in SafeRegistries
    BY <1>1, AfterTyped DEF Having
  <2>2. o # <<>> /\ o # <<s>> /\ Parent(o) = <<s>>
    <3>1. PICK a \in Addresses : o = <<s, a>>
      OBVIOUS
    <3> HIDE DEF o
    <3> QED
      BY <3>1, Paths
  <2>3. \/ new = x /\ q[k].type = "delete"
        \/ new = [z \in DOMAIN x \ {o} |-> x[z]] /\ q[k].type = "delete"
        \/ new = [z \in DOMAIN x \cup {o} |-> IF z = o THEN q[k].metadata ELSE x[z]]
    BY <2>2 DEF After, Having
  <2>4. \A i \in 1..k : i = k \/ (i \in 1..(k - 1) /\ i \in 1..Len(q) /\ q[i].object # o)
    BY <1>1
  <2>5. k \in 1..Len(q) /\ (o \in K => q[k].type # "delete" /\ q[k].metadata = md)
    OBVIOUS
  <2>6. /\ <<>> \in DOMAIN x /\ <<s>> \in DOMAIN x
        /\ \A i \in 1..(k - 1) : q[i].object \in K =>
             q[i].object \in DOMAIN x /\ x[q[i].object] = md
    BY <1>2 DEF Having
  <2> HIDE DEF new
  <2>7. <<>> \in DOMAIN new /\ <<s>> \in DOMAIN new
    BY <2>2, <2>3, <2>6
  <2>8. \A i \in 1..k : q[i].object \in K =>
             q[i].object \in DOMAIN new /\ new[q[i].object] = md
    BY <2>3, <2>4, <2>5, <2>6
  <2> QED
    BY <2>1, <2>7, <2>8 DEF Having, new
<1>3. \A k \in 0..Len(q) : P[k] = Put(k)
  OBVIOUS
<1>0. Put(0) = Having(s)
  OBVIOUS
<1> HIDE DEF P, Put
<1>4. \A k \in 1..Len(q) : \A x \in P[k - 1] : After(x, q[k]) \in P[k]
  BY <1>1, <1>2, <1>3
<1>5. \A R \in P[0] : EndsIn(R, q, P[Len(q)])
  BY <1>1, <1>4, Walk
<1>6. P[0] = Having(s) /\ P[Len(q)] = Put(Len(q))
  BY <1>0, <1>1, <1>3
<1> QED
  BY <1>5, <1>6 DEF Put

\* One event for each endpoint of a set, as Each makes them: those among it that
\* checkService has found are put there.
LEMMA EachPut ==
  ASSUME NEW s \in Services, NEW old \in SafeChecks, NEW check \in SafeChecks,
         EndpointsOf(s, check) \subseteq EndpointsOf(s, old),
         NEW F \in [Objects -> SafeEvents],
         \A e \in Objects : F[e].object = e,
         \A e \in EndpointsOf(s, check) : F[e].type # "delete" /\ F[e].metadata = check.metadata,
         NEW p \in SetToSeqs(EndpointsOf(s, old)),
         NEW R \in Having(s)
  PROVE  EndsIn(R, [i \in DOMAIN p |-> F[p[i]]], Covering(s, check))
<1> DEFINE S == EndpointsOf(s, old)
           K == EndpointsOf(s, check)
           q == [i \in DOMAIN p |-> F[p[i]]]
           n == Cardinality(S)
           G == PutSoFar(s, q, Len(q), K, check.metadata)
<1>1. S \subseteq Objects /\ IsFiniteSet(S)
  BY EndpointsTyped
<1>2. n \in Nat /\ p \in [1..n -> S]
  BY <1>1, ListTyped
<1>3. (\A e \in S : \E i \in 1..n : p[i] = e) /\ (\A i, j \in 1..n : p[i] = p[j] => i = j)
  BY <1>1, ListComplete
<1>4. q \in [1..n -> SafeEvents] /\ \A i \in 1..n : q[i] = F[p[i]] /\ q[i].object = p[i]
  BY <1>1, <1>2
<1>5. S \subseteq {<<s, a>> : a \in Addresses}
  BY DEF EndpointsOf, SafeChecks
<1> HIDE DEF S, K, q, n
<1>6. q \in SafeLists /\ Len(q) = n
  BY <1>2, <1>4 DEF SafeLists
<1>7. \A i \in 1..Len(q) :
        /\ q[i].object \in {<<s, a>> : a \in Addresses}
        /\ \A j \in 1..Len(q) : q[i].object = q[j].object => i = j
        /\ q[i].object \in K => q[i].type # "delete" /\ q[i].metadata = check.metadata
  <2>1. \A e \in K : F[e].type # "delete" /\ F[e].metadata = check.metadata
    BY DEF K
  <2>2. \A i \in 1..n : q[i].object \in {<<s, a>> : a \in Addresses}
    <3>1. \A i \in 1..n : q[i].object = p[i] /\ p[i] \in S
      BY <1>2, <1>4
    <3> QED
      BY <1>5, <3>1
  <2>3. \A i, j \in 1..n : q[i].object = q[j].object => i = j
    BY <1>3, <1>4
  <2>4. \A i \in 1..n : q[i].object \in K => q[i].type # "delete" /\ q[i].metadata = check.metadata
    BY <1>4, <2>1
  <2> QED
    BY <1>6, <2>2, <2>3, <2>4
<1>8. EndsIn(R, q, G)
  BY <1>6, <1>7, EndpointsPut
<1>9. G \subseteq Covering(s, check)
  <2> SUFFICES ASSUME NEW x \in G
               PROVE  x \in Covering(s, check)
    OBVIOUS
  <2>1. ASSUME NEW e \in K
        PROVE  e \in DOMAIN x /\ x[e] = check.metadata
    <3>1. e \in S
      BY DEF K, S
    <3>2. PICK i \in 1..n : p[i] = e
      BY <1>3, <3>1
    <3>3. i \in 1..Len(q) /\ q[i].object = e
      BY <1>4, <1>6, <3>2
    <3> QED
      BY <2>1, <3>3 DEF PutSoFar
  <2> QED
    BY <2>1 DEF K, Having, Covering, PutSoFar
<1>10. EndsIn(R, q, Covering(s, check))
  BY <1>8, <1>9 DEF EndsIn
<1> QED
  BY <1>10 DEF q

\* The namespace and the service, with which lists begin, are there afterwards.
LEMMA ParentsPut ==
  ASSUME NEW s \in Services, NEW R \in SafeRegistries
  PROVE  EndsIn(R, <<Create(<<>>, {}), Create(<<s>>, {})>>, Having(s))
<1> DEFINE a == Create(<<>>, {})
           b == Create(<<s>>, {})
           q == <<a, b>>
           x == After(R, a)
           y == After(x, b)
<1>1. a \in SafeEvents /\ b \in SafeEvents
  BY PathsTyped, EventsTyped
<1>2. x \in SafeRegistries /\ y \in SafeRegistries
  BY <1>1, AfterTyped
<1>3. <<>> \in DOMAIN x
  BY DEF After, Create
<1>4. <<>> \in DOMAIN y /\ <<s>> \in DOMAIN y
  <2>1. Parent(<<s>>) = <<>>
    BY Paths
  <2>2. b.type = "create" /\ b.object = <<s>>
    BY DEF Create
  <2> HIDE DEF x, b
  <2>3. y = [z \in DOMAIN x \cup {<<s>>} |-> IF z = <<s>> THEN b.metadata ELSE x[z]]
    BY <1>3, <2>1, <2>2 DEF After
  <2> HIDE DEF y
  <2> QED
    BY <1>3, <2>3
<1>5. Len(q) = 2 /\ q[1] = a /\ q[2] = b
  OBVIOUS
<1>6. \A r : IsTrace(r, R, q) => r[2] = y
  <2> HIDE DEF q, a, b
  <2> SUFFICES ASSUME NEW r, IsTrace(r, R, q)
               PROVE  r[2] = y
    OBVIOUS
  <2>1. r[0] = R /\ r[1] = After(r[0], q[1]) /\ r[2] = After(r[1], q[2])
    BY <1>5 DEF IsTrace
  <2> QED
    BY <1>5, <2>1
<1> HIDE DEF x, y, a, b, q
<1>7. EndsIn(R, q, Having(s))
  BY <1>2, <1>4, <1>5, <1>6 DEF EndsIn, Having
<1> QED
  BY <1>7 DEF q, a, b

\* However the registry is before, a creation covers the service.
LEMMA CreationCovers ==
  ASSUME NEW s \in Services, NEW check \in SafeChecks, NEW q \in Creation(s, check)
  PROVE  \A R \in SafeRegistries : EndsIn(R, q, Covering(s, check))
<1> DEFINE S == EndpointsOf(s, check)
           F == [e \in Objects |-> Create(e, check.metadata)]
           head == <<Create(<<>>, {}), Create(<<s>>, {})>>
<1>1. F \in [Objects -> SafeEvents]
  BY EventsTyped DEF SafeChecks
<1>2. \A e \in Objects : F[e].object = e /\ F[e].type # "delete" /\ F[e].metadata = check.metadata
  BY DEF Create
<1>3. S \subseteq Objects /\ IsFiniteSet(S)
  BY EndpointsTyped
<1>4. PICK p \in SetToSeqs(S) : q = head \o [i \in DOMAIN p |-> Create(p[i], check.metadata)]
  BY DEF Creation, Each
<1>5. \A i \in DOMAIN p : p[i] \in Objects
  BY <1>3, ListTyped
<1>6. [i \in DOMAIN p |-> Create(p[i], check.metadata)] = [i \in DOMAIN p |-> F[p[i]]]
  BY <1>5
<1> DEFINE tail == [i \in DOMAIN p |-> F[p[i]]]
<1>7. head \in SafeLists
  BY PathsTyped, EventsTyped DEF SafeLists
<1> HIDE DEF F
<1>8. tail \in SafeLists
  BY <1>1, <1>3, EndpointListTyped
<1>9. \A R \in Having(s) : EndsIn(R, tail, Covering(s, check))
  BY <1>1, <1>2, <1>3, EachPut
<1>10. q = head \o tail
  BY <1>4, <1>6
<1> HIDE DEF head, tail
<1> QED
  <2>1. \A R \in SafeRegistries : EndsIn(R, head, Having(s))
    BY ParentsPut DEF head
  <2> QED
    BY <1>7, <1>8, <1>9, <1>10, <2>1, EndsInAppended DEF SafeLists

\* So does a modification, if the service has got no other addresses.
LEMMA ModificationCovers ==
  ASSUME NEW s \in Services, NEW old \in SafeChecks, NEW new \in SafeChecks,
         new.addresses \subseteq old.addresses, NEW q \in Modification(s, old, new)
  PROVE  \A R \in SafeRegistries : EndsIn(R, q, Covering(s, new))
<1> DEFINE S == EndpointsOf(s, old)
           f(e) == IF e \in EndpointsOf(s, new) THEN Update(e, new.metadata) ELSE Delete(e)
           F == [e \in Objects |-> f(e)]
           head == <<Create(<<>>, {}), Create(<<s>>, {})>>
<1>1. F \in [Objects -> SafeEvents]
  BY EventsTyped DEF SafeChecks
<1>2. /\ \A e \in Objects : F[e].object = e
      /\ \A e \in Objects : e \in EndpointsOf(s, new) =>
           F[e].type # "delete" /\ F[e].metadata = new.metadata
  BY DEF Update, Delete
<1>3. S \subseteq Objects /\ IsFiniteSet(S) /\ EndpointsOf(s, new) \subseteq S
  BY EndpointsTyped DEF EndpointsOf
<1>4. PICK p \in SetToSeqs(S) : q = head \o [i \in DOMAIN p |-> f(p[i])]
  BY DEF Modification, Each
<1>5. \A i \in DOMAIN p : p[i] \in Objects
  BY <1>3, ListTyped
<1>6. [i \in DOMAIN p |-> f(p[i])] = [i \in DOMAIN p |-> F[p[i]]]
  BY <1>5
<1> DEFINE tail == [i \in DOMAIN p |-> F[p[i]]]
<1>7. head \in SafeLists
  BY PathsTyped, EventsTyped DEF SafeLists
<1> HIDE DEF F
<1>8. tail \in SafeLists
  BY <1>1, <1>3, EndpointListTyped
<1>9. \A R \in Having(s) : EndsIn(R, tail, Covering(s, new))
  BY <1>1, <1>2, <1>3, EachPut
<1>10. q = head \o tail
  BY <1>4, <1>6
<1> HIDE DEF head, tail
<1> QED
  <2>1. \A R \in SafeRegistries : EndsIn(R, head, Having(s))
    BY ParentsPut DEF head
  <2> QED
    BY <1>7, <1>8, <1>9, <1>10, <2>1, EndsInAppended DEF SafeLists
-----------------------------------------------------------------------------
(***************************************************************************)
(* The notes of changes, and the lists that are made of them.              *)
(***************************************************************************)

Named(q, s) == \E i \in DOMAIN q : q[i].name = s

\* n is the last note of a service.
LastNote(q, s, n) ==
  \E i \in DOMAIN q : q[i] = n /\ n.name = s /\ \A j \in DOMAIN q : j > i => q[j].name # s

LEMMA LastAppended ==
  ASSUME NEW q \in Seq(Notes), NEW n \in Notes, NEW s, NEW m
  PROVE  /\ LastNote(Append(q, n), n.name, n)
         /\ s # n.name /\ LastNote(q, s, m) => LastNote(Append(q, n), s, m)
         /\ s # n.name /\ ~Named(q, s) => ~Named(Append(q, n), s)
<1> DEFINE r == Append(q, n)
<1>1. /\ Len(q) \in Nat /\ DOMAIN q = 1..Len(q) /\ DOMAIN r = 1..(Len(q) + 1)
      /\ r[Len(q) + 1] = n /\ \A i \in 1..Len(q) : r[i] = q[i]
  OBVIOUS
<1> HIDE DEF r
<1>2. LastNote(r, n.name, n)
  BY <1>1 DEF LastNote
<1>3. ASSUME s # n.name, LastNote(q, s, m)
      PROVE  LastNote(r, s, m)
  <2>1. PICK i \in 1..Len(q) : q[i] = m /\ m.name = s /\ \A j \in 1..Len(q) : j > i => q[j].name # s
    BY <1>1, <1>3 DEF LastNote
  <2>2. i \in DOMAIN r /\ r[i] = m
    BY <1>1, <2>1
  <2>3. ASSUME NEW j \in DOMAIN r, j > i
        PROVE  r[j].name # s
    <3>1. j = Len(q) + 1 \/ j \in 1..Len(q)
      BY <1>1
    <3> QED
      BY <1>1, <1>3, <2>1, <2>3, <3>1
  <2> QED
    BY <2>1, <2>2, <2>3 DEF LastNote
<1>4. ASSUME s # n.name, ~Named(q, s)
      PROVE  ~Named(r, s)
  BY <1>1, <1>4 DEF Named
<1> QED
  BY <1>2, <1>3, <1>4 DEF r

LEMMA LastInTail ==
  ASSUME NEW q \in Seq(Notes), q # <<>>, NEW s, NEW m
  PROVE  /\ LastNote(q, s, m) =>
              LastNote(Tail(q), s, m) \/ (m = Head(q) /\ s = Head(q).name /\ ~Named(Tail(q), s))
         /\ ~Named(q, s) => ~Named(Tail(q), s) /\ s # Head(q).name
<1> DEFINE r == Tail(q)
<1>1. /\ Len(q) \in Nat \ {0} /\ DOMAIN q = 1..Len(q) /\ DOMAIN r = 1..(Len(q) - 1)
      /\ Head(q) = q[1] /\ \A i \in 1..(Len(q) - 1) : r[i] = q[i + 1]
  OBVIOUS
<1> HIDE DEF r
<1>2. ASSUME LastNote(q, s, m)
      PROVE  LastNote(r, s, m) \/ (m = q[1] /\ s = q[1].name /\ ~Named(r, s))
  <2>1. PICK i \in 1..Len(q) : q[i] = m /\ m.name = s /\ \A j \in 1..Len(q) : j > i => q[j].name # s
    BY <1>1, <1>2 DEF LastNote
  <2>2. \A j \in DOMAIN r : j + 1 \in 1..Len(q) /\ r[j] = q[j + 1]
    BY <1>1
  <2>3. CASE i = 1
    BY <1>1, <2>1, <2>2, <2>3 DEF Named
  <2>4. CASE i # 1
    <3>1. i - 1 \in DOMAIN r /\ r[i - 1] = m
      BY <1>1, <2>1, <2>4
    <3>2. \A j \in DOMAIN r : j > i - 1 => r[j].name # s
      BY <1>1, <2>1, <2>2
    <3> QED
      BY <2>1, <3>1, <3>2 DEF LastNote
  <2> QED
    BY <2>3, <2>4
<1>3. ~Named(q, s) => ~Named(r, s) /\ s # q[1].name
  BY <1>1 DEF Named
<1> QED
  BY <1>1, <1>2, <1>3 DEF r

LEMMA LastOfLater ==
  ASSUME NEW q \in Seq(Notes), NEW r \in Seq(Notes), NEW s, NEW m, LastNote(r, s, m)
  PROVE  LastNote(q \o r, s, m)
<1> DEFINE t == q \o r
<1>1. /\ Len(q) \in Nat /\ Len(r) \in Nat /\ DOMAIN r = 1..Len(r)
      /\ DOMAIN t = 1..(Len(q) + Len(r)) /\ \A i \in 1..Len(r) : t[Len(q) + i] = r[i]
  OBVIOUS
<1> HIDE DEF t
<1>2. PICK i \in 1..Len(r) : r[i] = m /\ m.name = s /\ \A j \in 1..Len(r) : j > i => r[j].name # s
  BY <1>1 DEF LastNote
<1>3. Len(q) + i \in DOMAIN t /\ t[Len(q) + i] = m
  BY <1>1, <1>2
<1>4. ASSUME NEW j \in DOMAIN t, j > Len(q) + i
      PROVE  t[j].name # s
  <2>1. j - Len(q) \in 1..Len(r) /\ j - Len(q) > i /\ j = Len(q) + (j - Len(q))
    BY <1>1, <1>4
  <2>2. t[j] = r[j - Len(q)]
    BY <1>1, <2>1
  <2> QED
    BY <1>2, <2>1, <2>2
<1>5. LastNote(t, s, m)
  BY <1>2, <1>3, <1>4 DEF LastNote
<1> QED
  BY <1>5 DEF t

\* Of each service that there is the initial notes, and those of a resync, have one.
LEMMA InitialNotesComplete ==
  ASSUME NEW state \in [Services -> Service \cup {Absent}], NEW q \in InitialNotes(state),
         NEW s \in Services, state[s] # Absent
  PROVE  /\ LastNote(q, s, NoteOf(s, Absent, state[s]))
         /\ LastNote([i \in DOMAIN q |-> [q[i] EXCEPT !.old = q[i].new]], s,
                     NoteOf(s, state[s], state[s]))
<1> DEFINE S == {x \in Services : state[x] # Absent}
           n == Cardinality(S)
           r == [i \in DOMAIN q |-> [q[i] EXCEPT !.old = q[i].new]]
<1>1. PICK p \in SetToSeqs(S) : q = [i \in DOMAIN p |-> NoteOf(p[i], Absent, state[p[i]])]
  BY DEF InitialNotes
<1>2. IsFiniteSet(S) /\ s \in S
  BY ControllersAssumption, FS_Subset
<1> HIDE DEF S
<1>3. n \in Nat /\ p \in [1..n -> S]
  BY <1>2, ListTyped
<1>4. (\A e \in S : \E i \in 1..n : p[i] = e) /\ (\A i, j \in 1..n : p[i] = p[j] => i = j)
  BY <1>2, ListComplete
<1> HIDE DEF n
<1>5. PICK k \in 1..n : p[k] = s
  BY <1>2, <1>4
<1>6. DOMAIN q = 1..n /\ \A i \in 1..n : q[i] = NoteOf(p[i], Absent, state[p[i]])
  BY <1>1, <1>3
<1>7. \A i \in 1..n : i > k => p[i] # s
  BY <1>4, <1>5
<1>8. DOMAIN r = 1..n /\ \A i \in 1..n : r[i] = NoteOf(p[i], state[p[i]], state[p[i]])
  BY <1>6 DEF NoteOf
<1> HIDE DEF r
<1>9. \A x, y, z : NoteOf(x, y, z).name = x
  BY DEF NoteOf
<1>10. LastNote(q, s, NoteOf(s, Absent, state[s]))
  BY <1>5, <1>6, <1>7, <1>9 DEF LastNote
<1>11. LastNote(r, s, NoteOf(s, state[s], state[s]))
  BY <1>5, <1>7, <1>8, <1>9 DEF LastNote
<1> QED
  BY <1>10, <1>11 DEF r

\* The events that are about the namespace or one service.
EventsOf(s) == {e \in SafeEvents : e.object \in {<<>>} \cup ObjectsOf(s)}

LEMMA ListOfTyped ==
  ASSUME NEW S, IsFiniteSet(S), NEW p \in SetToSeqs(S), NEW T, NEW E \in [S -> T]
  PROVE  [i \in DOMAIN p |-> E[p[i]]] \in Seq(T)
<1>1. Cardinality(S) \in Nat /\ p \in [1..Cardinality(S) -> S]
  BY ListTyped
<1>2. [i \in DOMAIN p |-> E[p[i]]] \in [1..Cardinality(S) -> T]
  BY <1>1
<1> QED
  BY <1>1, <1>2

LEMMA ChangesAreAboutTheirService ==
  ASSUME NEW s \in Services, NEW old \in SafeChecks, NEW new \in SafeChecks,
         NEW q \in Creation(s, new) \cup Deletion(s, new) \cup Modification(s, old, new)
  PROVE  q \in Seq(EventsOf(s))
<1> DEFINE T == EventsOf(s)
           S == EndpointsOf(s, new)
           R == EndpointsOf(s, old)
           f(e) == IF e \in EndpointsOf(s, new) THEN Update(e, new.metadata) ELSE Delete(e)
           created == [e \in S |-> Create(e, new.metadata)]
           deleted == [e \in S |-> Delete(e)]
           modified == [e \in R |-> f(e)]
           a == Create(<<>>, {})
           b == Create(<<s>>, {})
           c == Delete(<<s>>)
<1>1. S \subseteq Objects /\ R \subseteq Objects /\ IsFiniteSet(S) /\ IsFiniteSet(R)
  BY EndpointsTyped
<1>2. S \subseteq ObjectsOf(s) /\ R \subseteq ObjectsOf(s)
  BY DEF EndpointsOf, ObjectsOf, SafeChecks
<1>3. new.metadata \in SUBSET Allowed
  BY DEF SafeChecks
<1>4. \A e : /\ Create(e, new.metadata).object = e /\ Create(e, {}).object = e
             /\ Update(e, new.metadata).object = e /\ Delete(e).object = e
  BY DEF Create, Update, Delete
<1>5. \A e \in ObjectsOf(s) \cap Objects :
        Create(e, new.metadata) \in T /\ Update(e, new.metadata) \in T /\ Delete(e) \in T
  BY <1>3, <1>4, EventsTyped DEF EventsOf
<1>6. a \in T /\ b \in T /\ c \in T
  BY <1>4, PathsTyped, EventsTyped DEF EventsOf, ObjectsOf
<1>7. created \in [S -> T] /\ deleted \in [S -> T] /\ modified \in [R -> T]
  BY <1>1, <1>2, <1>5
<1>8. \A p \in SetToSeqs(S) : \A i \in DOMAIN p : p[i] \in S
  BY <1>1, ListTyped
<1>9. \A p \in SetToSeqs(R) : \A i \in DOMAIN p : p[i] \in R
  BY <1>1, ListTyped
<1>10. CASE q \in Creation(s, new)
  <2>1. PICK p \in SetToSeqs(S) : q = <<a, b>> \o [i \in DOMAIN p |-> Create(p[i], new.metadata)]
    BY <1>10 DEF Creation, Each
  <2>2. [i \in DOMAIN p |-> Create(p[i], new.metadata)] = [i \in DOMAIN p |-> created[p[i]]]
    BY <1>8
  <2> HIDE DEF created, S, T, a, b
  <2>3. [i \in DOMAIN p |-> created[p[i]]] \in Seq(T)
    BY <1>1, <1>7, ListOfTyped
  <2>4. <<a, b>> \in Seq(T)
    BY <1>6
  <2> QED
    <3>1. \A x, y \in Seq(T) : x \o y \in Seq(T)
      OBVIOUS
    <3>2. q \in Seq(T)
      BY <2>1, <2>2, <2>3, <2>4, <3>1, Zenon
    <3> QED
      BY <3>2 DEF T
<1>11. CASE q \in Deletion(s, new)
  <2>1. PICK p \in SetToSeqs(S) : q = [i \in DOMAIN p |-> Delete(p[i])] \o <<c>>
    BY <1>11 DEF Deletion, Each
  <2>2. [i \in DOMAIN p |-> Delete(p[i])] = [i \in DOMAIN p |-> deleted[p[i]]]
    BY <1>8
  <2> HIDE DEF deleted, S, T, c
  <2>3. [i \in DOMAIN p |-> deleted[p[i]]] \in Seq(T)
    BY <1>1, <1>7, ListOfTyped
  <2>4. <<c>> \in Seq(T)
    BY <1>6
  <2> QED
    BY <2>1, <2>2, <2>3, <2>4 DEF T
<1>12. CASE q \in Modification(s, old, new)
  <2>1. PICK p \in SetToSeqs(R) : q = <<a, b>> \o [i \in DOMAIN p |-> f(p[i])]
    BY <1>12 DEF Modification, Each
  <2>2. [i \in DOMAIN p |-> f(p[i])] = [i \in DOMAIN p |-> modified[p[i]]]
    BY <1>9
  <2> HIDE DEF modified, R, T, a, b, f
  <2>3. [i \in DOMAIN p |-> modified[p[i]]] \in Seq(T)
    BY <1>1, <1>7, ListOfTyped
  <2>4. <<a, b>> \in Seq(T)
    BY <1>6
  <2> QED
    BY <2>1, <2>2, <2>3, <2>4 DEF T
<1> QED
  BY <1>10, <1>11, <1>12

\* A list that is made for a service names no object of another one.
LEMMA ListsKeepToTheirService ==
  ASSUME dns \subseteq Addresses, NEW note \in Notes, NEW mayFail \in BOOLEAN,
         NEW q \in ServiceEvents(note, mayFail),
         NEW s \in Services, s # note.name
  PROVE  \A i \in 1..Len(q) : q[i].object \notin ObjectsOf(s)
<1> DEFINE t == note.name
<1>0. t \in Services /\ note.old \in Service \cup {Absent} /\ note.new \in Service \cup {Absent}
  BY DEF Notes
<1>1. q \in Seq(EventsOf(t))
  <2>1. <<>> \in Seq(EventsOf(t))
    OBVIOUS
  <2>2. CASE q # <<>>
    <3>1. PICK old \in Checks(note.old, mayFail), new \in Checks(note.new, mayFail) :
            q \in CASE note.old = Absent -> IF new.passed THEN Creation(t, new) ELSE {<<>>}
                   [] note.old # Absent /\ note.new.deleting ->
                        IF note.old.deleting THEN {<<>>} ELSE Deletion(t, new)
                   [] note.old # Absent /\ ~note.new.deleting -> OnUpdate(t, old, new)
      BY <2>2 DEF ServiceEvents
    <3>2. old \in SafeChecks /\ new \in SafeChecks
      BY <1>0, ChecksTyped
    <3>3. q \in Creation(t, new) \cup Deletion(t, new) \cup OnUpdate(t, old, new)
      BY <2>2, <3>1
    <3>4. OnUpdate(t, old, new)
            \subseteq {<<>>} \cup Deletion(t, old) \cup Creation(t, new) \cup Modification(t, old, new)
      BY <3>2 DEF OnUpdate, SafeChecks
    <3>5. q \in Creation(t, new) \cup Deletion(t, new) \cup Modification(t, old, new)
          \/ q \in Deletion(t, old)
      BY <2>2, <3>3, <3>4
    <3> QED
      BY <1>0, <3>2, <3>5, ChangesAreAboutTheirService
  <2> QED
    BY <2>1, <2>2
<1>2. \A e \in EventsOf(t) : e.object \notin ObjectsOf(s)
  BY ObjectsOfOther DEF EventsOf
<1>3. \A i \in 1..Len(q) : q[i] \in EventsOf(t)
  BY <1>1
<1> QED
  BY <1>2, <1>3

\* From a registry the events lead to one.
LEMMA EndsSafely ==
  ASSUME NEW R \in SafeRegistries, NEW E \in SafeLists
  PROVE  EndsIn(R, E, SafeRegistries)
<1> DEFINE P == [i \in 0..Len(E) |-> SafeRegistries]
<1>1. E \in Seq(SafeEvents) /\ Len(E) \in Nat /\ \A i \in 1..Len(E) : E[i] \in SafeEvents
  BY DEF SafeLists
<1>2. \A i \in 0..Len(E) : P[i] = SafeRegistries
  OBVIOUS
<1> HIDE DEF P
<1>3. \A i \in 1..Len(E) : \A x \in P[i - 1] : After(x, E[i]) \in P[i]
  BY <1>1, <1>2, AfterTyped
<1>4. \A x \in P[0] : EndsIn(x, E, P[Len(E)])
  BY <1>1, <1>3, Walk
<1> QED
  BY <1>1, <1>2, <1>4

\* What a service is to be registered with, when the last change of it is n.
Leads(n, v) == n.new = v /\ (Published(n.old) => Check(v).addresses \subseteq Check(n.old).addresses)

\* If no lookup fails by chance, the checks find what there is.
LEMMA LookupsFound ==
  ASSUME NEW n \in Notes, NEW q \in ServiceEvents(n, TRUE),
         "names" \in Troubles => q \in ServiceEvents(n, FALSE)
  PROVE  q \in ServiceEvents(n, FALSE)
<1>1. CASE "names" \in Troubles
  BY <1>1
<1>2. CASE "names" \notin Troubles
  <2>1. \A v \in Service \cup {Absent} : v # Absent => ~v.byName
    BY <1>2 DEF Service
  <2>2. n.old \in Service \cup {Absent} /\ n.new \in Service \cup {Absent}
    BY DEF Notes
  <2>3. Checks(n.old, TRUE) = Checks(n.old, FALSE) /\ Checks(n.new, TRUE) = Checks(n.new, FALSE)
    BY <2>1, <2>2 DEF Checks
  <2> QED
    BY <2>3, ServiceEventsAre
<1> QED
  BY <1>1, <1>2

\* The list that is made of its last change covers a service that is wanted.
LEMMA LastListCovers ==
  ASSUME dns \subseteq Addresses, NEW n \in Notes, NEW q \in ServiceEvents(n, FALSE),
         NEW v \in Service, Leads(n, v), WatchedNow, Published(v), ~v.deleting
  PROVE  \A R \in SafeRegistries : EndsIn(R, q, Covering(n.name, Check(v)))
<1> DEFINE s == n.name
           old == Check(n.old)
           new == Check(v)
<1>1. n.new = v /\ n.new # Absent /\ s \in Services /\ n.old \in Service \cup {Absent}
  BY DEF Leads, Notes, Published, Check, Nothing
<1>2. Checks(n.old, FALSE) = {old} /\ Checks(n.new, FALSE) = {new}
  BY <1>1 DEF Checks
<1>3. old \in SafeChecks /\ new \in SafeChecks
  BY <1>1, CheckTyped
<1>4. new.passed /\ (old.passed => new.addresses \subseteq old.addresses)
  BY DEF Leads, Published
<1> HIDE DEF old, new
<1>5. q \in Creation(s, new) \/ (old.passed /\ q \in Modification(s, old, new))
  <2>1. q \in ListsOf(n, old, new)
    BY <1>1, <1>2, ServiceEventsAre
  <2>2. CASE n.old = Absent
    BY <1>4, <2>1, <2>2 DEF ListsOf
  <2>3. CASE n.old # Absent
    <3>1. q \in OnUpdate(s, old, new)
      BY <1>1, <2>1, <2>3 DEF ListsOf
    <3>2. CASE old.passed
      BY <1>4, <3>1, <3>2 DEF OnUpdate
    <3>3. CASE ~old.passed
      BY <1>4, <3>1, <3>3 DEF OnUpdate
    <3> QED
      BY <3>2, <3>3
  <2> QED
    BY <2>2, <2>3
<1>6. \A R \in SafeRegistries : EndsIn(R, q, Covering(s, new))
  BY <1>1, <1>3, <1>4, <1>5, CreationCovers, ModificationCovers
<1> QED
  BY <1>6 DEF new
-----------------------------------------------------------------------------
(***************************************************************************)
(* The invariant: while the history is whole, a service that is wanted is  *)
(* either still to be looked at, with a last change that says what it is   *)
(* now, or covered by the registry once what is on its way has arrived.    *)
(* And the namespace controller has nothing on its way, or to come of what *)
(* it has to look at, that would take away what is published.              *)
(***************************************************************************)

Coming == channel \o svcOut

ServiceKept(s) ==
  Wants(s) =>
    \/ \E n \in Notes : LastNote(svcNotes, s, n) /\ Leads(n, services[s])
    \/ ~Named(svcNotes, s) /\ EndsIn(registry, Coming, Covering(s, Check(services[s])))

ServicesKept == whole => \A s \in Services : ServiceKept(s)

\* A change of the namespace of which nothing follows.
Harmless(n) == n.new # Absent /\ (n.old = Absent \/ Watches(n.old) = Watches(n.new))

SomePublished == \E s \in Services : Published(services[s])

NamespaceKept ==
  whole /\ WatchedNow /\ SomePublished
    => nsOut = <<>> /\ \A i \in DOMAIN nsNotes : Harmless(nsNotes[i])

KeptInv == SafeInv /\ ServicesKept /\ NamespaceKept

LEMMA ChecksUnchanged ==
  ASSUME dns' = dns
  PROVE  /\ \A v : Check(v)' = Check(v)
         /\ \A v : Published(v)' = Published(v)
         /\ \A n, v : Leads(n, v)' = Leads(n, v)
<1>1. \A v : Check(v)' = Check(v)
  BY DEF Check, AllAddresses, NotFound, Nothing
<1>2. \A v : Published(v)' = Published(v)
  BY <1>1 DEF Published
<1>3. \A n, v : Leads(n, v)' = Leads(n, v)
  BY <1>1, <1>2 DEF Leads
<1> QED
  BY <1>1, <1>2, <1>3

LEMMA InitKept == OperatorInit => KeptInv
<1> SUFFICES ASSUME OperatorInit
             PROVE  KeptInv
  OBVIOUS
<1>1. SafeInv
  BY InitSafe
<1>2. NamespaceKept
  BY DEF OperatorInit, Init, NamespaceKept
<1>3. ASSUME NEW s \in Services, Wants(s)
      PROVE  ServiceKept(s)
  <2> DEFINE n == NoteOf(s, Absent, services[s])
  <2>1. services[s] # Absent /\ services \in [Services -> Service \cup {Absent}]
    BY <1>1, <1>3 DEF Wants, Published, Check, Nothing, SafeInv, ClusterTyped
  <2>2. n \in Notes
    BY <2>1 DEF NoteOf, Notes
  <2>3. LastNote(svcNotes, s, n)
    BY <2>1, InitialNotesComplete DEF OperatorInit, Init
  <2>4. Leads(n, services[s])
    BY DEF Leads, NoteOf, Published, Check, Nothing
  <2> QED
    BY <2>2, <2>3, <2>4 DEF ServiceKept
<1>4. ServicesKept
  BY <1>3 DEF ServicesKept, ServiceKept
<1> QED
  BY <1>1, <1>2, <1>4 DEF KeptInv

\* A service changes.
LEMMA ServiceChangeKeeps ==
  ASSUME KeptInv, NEW s \in Services, NEW new \in Service \cup {Absent},
         ServiceChange(s, new), UNCHANGED registry, whole' => whole,
         whole' /\ Wants(s)' /\ Published(services[s])
           => Check(new).addresses \subseteq Check(services[s]).addresses
  PROVE  ServicesKept'
<1> USE DEF KeptInv
<1>1. UNCHANGED <<namespace, dns, channel, svcOut>>
  BY DEF ServiceChange
<1>2. /\ services \in [Services -> Service \cup {Absent}] /\ svcNotes \in Seq(Notes)
      /\ services' = [services EXCEPT ![s] = new]
      /\ svcNotes' = Append(svcNotes, NoteOf(s, services[s], new))
  BY DEF ServiceChange, SafeInv, ClusterTyped, NotesTyped
<1>3. NoteOf(s, services[s], new) \in Notes /\ NoteOf(s, services[s], new).name = s
  BY <1>2 DEF NoteOf, Notes
<1> SUFFICES ASSUME whole', NEW t \in Services, Wants(t)'
             PROVE  ServiceKept(t)'
  BY DEF ServicesKept, ServiceKept
<1>4. CASE t = s
  <2> DEFINE n == NoteOf(s, services[s], new)
  <2>1. PICK m \in Notes : m = n
    BY <1>3
  <2>2. LastNote(svcNotes', s, m)
    BY <1>2, <1>3, <2>1, LastAppended
  <2>3. services'[s] = new
    BY <1>2
  <2>4. Leads(m, new)
    BY <1>4, <2>1 DEF Leads, NoteOf
  <2>5. Leads(m, services[s])'
    BY <1>1, <2>3, <2>4, ChecksUnchanged
  <2> QED
    BY <1>4, <2>2, <2>5 DEF ServiceKept
<1>5. CASE t # s
  <2>1. PICK v : v = services[t]
    OBVIOUS
  <2>2. services'[t] = v
    BY <1>2, <1>5, <2>1
  <2>3. Wants(t)
    BY <1>1, <2>1, <2>2, ChecksUnchanged DEF Wants, WatchedNow
  <2>4. ServiceKept(t)
    BY DEF ServicesKept
  <2>5. CASE \E n \in Notes : LastNote(svcNotes, t, n) /\ Leads(n, v)
    <3>1. PICK n \in Notes : LastNote(svcNotes, t, n) /\ Leads(n, v)
      BY <2>5
    <3>2. LastNote(svcNotes', t, n)
      BY <1>2, <1>3, <1>5, <3>1, LastAppended
    <3>3. Leads(n, services[t])'
      BY <1>1, <2>2, <3>1, ChecksUnchanged
    <3> QED
      BY <3>2, <3>3 DEF ServiceKept
  <2>6. CASE ~Named(svcNotes, t) /\ EndsIn(registry, Coming, Covering(t, Check(v)))
    <3>1. ~Named(svcNotes', t)
      BY <1>2, <1>3, <1>5, <2>6, LastAppended
    <3>2. Coming' = Coming /\ registry' = registry
      BY <1>1 DEF Coming
    <3>3. Check(services[t])' = Check(v)
      BY <1>1, <2>2, ChecksUnchanged
    <3> QED
      BY <2>6, <3>1, <3>2, <3>3 DEF ServiceKept
  <2> QED
    BY <2>1, <2>3, <2>4, <2>5, <2>6 DEF ServiceKept
<1> QED
  BY <1>4, <1>5

\* Of what is unpublished, deleted or being deleted nothing is wanted.
LEMMA ChangesOfServicesKeep ==
  ASSUME KeptInv,
         \/ \E s \in Services : \E new \in Service :
              ApplyService(s, new) /\ KeepsWholeIf(~Grows(s, new) /\ NamespaceControllerIdle)
         \/ \E s \in Services : MarkService(s) /\ KeepsWholeIf(TRUE)
         \/ \E s \in Services : RemoveService(s) /\ KeepsWholeIf(TRUE)
  PROVE  ServicesKept' /\ NamespaceKept'
<1> USE DEF KeptInv
<1>0. services \in [Services -> Service \cup {Absent}]
  BY DEF SafeInv, ClusterTyped
<1>1. ASSUME NEW s \in Services, NEW new \in Service, ApplyService(s, new),
             KeepsWholeIf(~Grows(s, new) /\ NamespaceControllerIdle)
      PROVE  ServicesKept' /\ NamespaceKept'
  <2>1. ServiceChange(s, new) /\ registry' = registry
    BY <1>1 DEF ApplyService, KeepsWholeIf
  <2>2. whole' => whole /\ ~Grows(s, new) /\ NamespaceControllerIdle
    BY <1>1 DEF KeepsWholeIf
  <2>3. UNCHANGED <<namespace, dns, nsNotes, nsOut>> /\ services'[s] = new
    BY <1>0, <2>1 DEF ServiceChange
  <2>4. ASSUME Wants(s)', Published(services[s]), whole'
        PROVE  Check(new).addresses \subseteq Check(services[s]).addresses
    <3>1. WatchedNow /\ Published(new)
      BY <2>3, <2>4, ChecksUnchanged DEF Wants, WatchedNow
    <3>2. AllAddresses(new) \subseteq AllAddresses(services[s])
      BY <2>2, <2>4, <3>1 DEF Grows
    <3> QED
      BY <2>4, <3>1, <3>2 DEF Published, Check, Nothing
  <2>5. ServicesKept'
    BY <2>1, <2>2, <2>4, ServiceChangeKeeps
  <2>6. NamespaceKept'
    BY <2>2, <2>3 DEF NamespaceKept, NamespaceControllerIdle
  <2> QED
    BY <2>5, <2>6
<1>2. ASSUME NEW s \in Services, NEW new \in Service \cup {Absent}, ServiceChange(s, new),
             KeepsWholeIf(TRUE), Published(new) => new.deleting /\ Published(services[s])
      PROVE  ServicesKept' /\ NamespaceKept'
  <2>1. UNCHANGED <<namespace, dns, nsNotes, nsOut, registry>> /\ services'[s] = new
        /\ (whole' => whole) /\ \A t \in Services \ {s} : services'[t] = services[t]
    BY <1>0, <1>2 DEF ServiceChange, KeepsWholeIf
  <2>2. ~Wants(s)'
    BY <1>2, <2>1, ChecksUnchanged DEF Wants
  <2>3. ServicesKept'
    BY <1>2, <2>1, <2>2, ServiceChangeKeeps
  <2>4. SomePublished' => SomePublished
    <3>1. ASSUME NEW t \in Services, Published(services[t])'
          PROVE  Published(services[t])
      BY <1>2, <2>1, <3>1, ChecksUnchanged
    <3> QED
      BY <3>1 DEF SomePublished
  <2>5. NamespaceKept'
    BY <2>1, <2>4 DEF NamespaceKept, WatchedNow
  <2> QED
    BY <2>3, <2>5
<1>3. CASE \E s \in Services : MarkService(s) /\ KeepsWholeIf(TRUE)
  <2>1. PICK s \in Services : MarkService(s) /\ KeepsWholeIf(TRUE)
    BY <1>3
  <2> DEFINE old == services[s]
             new == [old EXCEPT !.deleting = TRUE]
  <2>2. old \in Service /\ ServiceChange(s, new)
    BY <1>0, <2>1 DEF MarkService
  <2>3. new \in Service /\ new.deleting = TRUE
        /\ new.annotations = old.annotations /\ new.addresses = old.addresses
        /\ new.byName = old.byName
    BY <2>2 DEF Service
  <2>4. Published(new) => Published(old)
    <3> HIDE DEF old, new
    <3>1. AllAddresses(new) = AllAddresses(old) /\ NotFound(new) = NotFound(old)
      BY <2>3 DEF AllAddresses, NotFound
    <3>2. Check(old).passed <=> ~(\/ old = Absent \/ NotFound(old)
                                  \/ FilterAnnotations(old.annotations, ServiceAnnotations) = {}
                                  \/ AllAddresses(old) = {})
      BY DEF Check, Nothing
    <3>3. Check(new).passed <=> ~(\/ new = Absent \/ NotFound(new)
                                  \/ FilterAnnotations(new.annotations, ServiceAnnotations) = {}
                                  \/ AllAddresses(new) = {})
      BY DEF Check, Nothing
    <3>4. old # Absent
      BY <2>1 DEF MarkService, old
    <3> QED
      BY <2>3, <3>1, <3>2, <3>3, <3>4 DEF Published
  <2> HIDE DEF new
  <2> QED
    BY <1>2, <2>1, <2>2, <2>3, <2>4
<1>4. CASE \E s \in Services : RemoveService(s) /\ KeepsWholeIf(TRUE)
  <2>1. ~Published(Absent)
    BY DEF Published, Check, Nothing
  <2> QED
    BY <1>2, <1>4, <2>1 DEF RemoveService
<1> QED
  BY <1>1, <1>3, <1>4

\* The namespace or what a host name stands for changes.
LEMMA OtherChangesKeep ==
  ASSUME KeptInv,
         \/ \E new \in Labels \cup {Absent} :
              ChangeNamespace(new) /\ KeepsWholeIf(~Enables(new) /\ ServiceControllerIdle)
         \/ \E new \in SUBSET Addresses : ChangeNames(new) /\ KeepsWholeIf(FALSE)
  PROVE  ServicesKept' /\ NamespaceKept'
<1> USE DEF KeptInv
<1>1. CASE ~whole'
  BY <1>1 DEF ServicesKept, NamespaceKept
<1>2. ASSUME NEW new \in Labels \cup {Absent}, ChangeNamespace(new), whole',
             KeepsWholeIf(~Enables(new) /\ ServiceControllerIdle)
      PROVE  ServicesKept' /\ NamespaceKept'
  <2>1. whole /\ ~Enables(new) /\ ServiceControllerIdle /\ registry' = registry
    BY <1>2 DEF KeepsWholeIf
  <2>2. /\ namespace' = new /\ nsNotes' = Append(nsNotes, [old |-> namespace, new |-> new])
        /\ UNCHANGED <<services, dns, svcNotes, nsOut, svcOut, channel>>
    BY <1>2 DEF ChangeNamespace
  <2>3. SomePublished' <=> SomePublished
    BY <2>2, ChecksUnchanged DEF SomePublished
  <2>4. WatchedNow' /\ SomePublished => WatchedNow /\ Watches(new) /\ new # Absent
    BY <2>1, <2>2 DEF WatchedNow, Enables, SomePublished
  <2>5. \A s \in Services : Wants(s)' => Wants(s)
    BY <2>2, <2>4, ChecksUnchanged DEF Wants, SomePublished
  <2>6. \A s \in Services : ServiceKept(s)'
    <3> SUFFICES ASSUME NEW s \in Services, Wants(s)'
                 PROVE  ServiceKept(s)'
      BY DEF ServiceKept
    <3>1. Wants(s) /\ ServiceKept(s)
      BY <2>1, <2>5 DEF ServicesKept
    <3>2. \A n : ~LastNote(svcNotes, s, n)
      BY <2>1 DEF ServiceControllerIdle, LastNote
    <3>3. ~Named(svcNotes, s) /\ EndsIn(registry, Coming, Covering(s, Check(services[s])))
      BY <3>1, <3>2 DEF ServiceKept
    <3>4. Coming' = Coming
      BY <2>2 DEF Coming
    <3>5. Check(services[s])' = Check(services[s])
      BY <2>2, ChecksUnchanged
    <3> QED
      BY <2>1, <2>2, <3>3, <3>4, <3>5 DEF ServiceKept
  <2>7. ASSUME WatchedNow', SomePublished'
        PROVE  nsOut' = <<>> /\ \A i \in DOMAIN nsNotes' : Harmless(nsNotes'[i])
    <3>1. WatchedNow /\ Watches(new) /\ new # Absent /\ SomePublished
      BY <2>3, <2>4, <2>7
    <3>2. nsOut = <<>> /\ \A i \in DOMAIN nsNotes : Harmless(nsNotes[i])
      BY <2>1, <3>1 DEF NamespaceKept
    <3>3. Harmless([old |-> namespace, new |-> new])
      BY <3>1 DEF Harmless, WatchedNow, Watches
    <3>4. nsNotes \in Seq(NamespaceNotes)
      BY DEF SafeInv, NotesTyped
    <3>5. PICK n : n = [old |-> namespace, new |-> new]
      OBVIOUS
    <3>6. \A i \in DOMAIN nsNotes' : (i \in DOMAIN nsNotes /\ nsNotes'[i] = nsNotes[i]) \/ nsNotes'[i] = n
      BY <2>2, <3>4, <3>5
    <3> QED
      BY <2>2, <3>2, <3>3, <3>5, <3>6
  <2> QED
    BY <2>6, <2>7 DEF ServicesKept, NamespaceKept
<1> QED
  BY <1>1, <1>2 DEF KeepsWholeIf

\* The operator is told of all services: each has its note then.
LEMMA ToldKeeps ==
  ASSUME KeptInv, (Resync \/ Restart) /\ Told
  PROVE  ServicesKept' /\ NamespaceKept'
<1> USE DEF KeptInv
<1>1. NamespaceKept'
  <2>1. whole' => nsNotes' = <<>> /\ nsOut' = <<>>
    BY DEF Told, NamespaceControllerIdle
  <2> QED
    BY <2>1 DEF NamespaceKept
<1>2. /\ UNCHANGED <<namespace, services, dns>>
      /\ services \in [Services -> Service \cup {Absent}] /\ svcNotes \in Seq(Notes)
  BY DEF Resync, Restart, SafeInv, ClusterTyped, NotesTyped
<1>3. ASSUME NEW s \in Services, Wants(s)'
      PROVE  ServiceKept(s)'
  <2>1. services[s] # Absent
    BY <1>2, <1>3 DEF Wants, Published, Check, Nothing
  <2>2. PICK v \in Service : v = services[s]
    BY <1>2, <2>1
  <2>3. CASE Restart
    <3>1. PICK n : n = NoteOf(s, Absent, v)
      OBVIOUS
    <3>2. n \in Notes
      BY <3>1 DEF NoteOf, Notes
    <3>3. LastNote(svcNotes', s, n)
      BY <1>2, <2>1, <2>2, <2>3, <3>1, InitialNotesComplete DEF Restart
    <3>4. Leads(n, v)
      BY <3>1 DEF Leads, NoteOf, Published, Check, Nothing
    <3>5. Leads(n, services[s])'
      BY <1>2, <2>2, <3>4, ChecksUnchanged
    <3> QED
      BY <3>2, <3>3, <3>5 DEF ServiceKept
  <2>4. CASE Resync
    <3>1. PICK n : n = NoteOf(s, v, v)
      OBVIOUS
    <3>2. n \in Notes
      BY <3>1 DEF NoteOf, Notes
    <3>3. PICK q \in InitialNotes(services) :
            svcNotes' = svcNotes \o [i \in DOMAIN q |-> [q[i] EXCEPT !.old = q[i].new]]
      BY <2>4 DEF Resync
    <3> DEFINE r == [i \in DOMAIN q |-> [q[i] EXCEPT !.old = q[i].new]]
    <3>4. q \in Seq(Notes)
      BY <1>2, InitialNotesTyped
    <3>5. \A m \in Notes : [m EXCEPT !.old = m.new] \in Notes
      BY DEF Notes
    <3>6. r \in Seq(Notes)
      BY <3>4, <3>5
    <3>7. LastNote(r, s, n)
      BY <1>2, <2>1, <2>2, <3>1, InitialNotesComplete
    <3> HIDE DEF r
    <3>8. LastNote(svcNotes', s, n)
      <4>1. LastNote(svcNotes \o r, s, n)
        BY <1>2, <3>6, <3>7, LastOfLater
      <4> QED
        BY <3>3, <4>1 DEF r
    <3>9. Leads(n, v)
      BY <3>1 DEF Leads, NoteOf
    <3>10. Leads(n, services[s])'
      BY <1>2, <2>2, <3>9, ChecksUnchanged
    <3> QED
      BY <3>2, <3>8, <3>10 DEF ServiceKept
  <2> QED
    BY <2>3, <2>4
<1> QED
  BY <1>1, <1>3 DEF ServicesKept, ServiceKept

\* Nothing that a service is to be registered with changes, nor what will be there.
LEMMA SameKeeps ==
  ASSUME ServicesKept, UNCHANGED <<namespace, services, dns, svcNotes, whole>>,
         \A G : EndsIn(registry, Coming, G) => EndsIn(registry', Coming', G)
  PROVE  ServicesKept'
<1> SUFFICES ASSUME whole, NEW s \in Services, Wants(s)'
             PROVE  ServiceKept(s)'
  BY DEF ServicesKept, ServiceKept
<1>1. Wants(s) /\ ServiceKept(s)
  BY ChecksUnchanged DEF Wants, WatchedNow, ServicesKept
<1>2. PICK v : v = services[s]
  OBVIOUS
<1>3. services'[s] = v /\ Check(services[s])' = Check(v)
  BY <1>2, ChecksUnchanged
<1>4. \A n : Leads(n, v) => Leads(n, services[s])'
  BY <1>3, ChecksUnchanged
<1> QED
  BY <1>1, <1>2, <1>3, <1>4 DEF ServiceKept

\* The service controller looks at a change.
LEMMA HandleServiceKeeps ==
  ASSUME KeptInv, HandleService, KeepsWholeIf(LookupsSucceed(Head(svcNotes)))
  PROVE  ServicesKept' /\ NamespaceKept'
<1> USE DEF KeptInv
<1>0. PICK q : q = svcOut'
  OBVIOUS
<1> DEFINE n == Head(svcNotes)
<1>1. /\ UNCHANGED <<namespace, services, dns, nsNotes, nsOut, channel, registry>>
      /\ svcOut = <<>> /\ svcNotes # <<>> /\ svcNotes' = Tail(svcNotes)
      /\ q \in ServiceEvents(n, TRUE)
  BY <1>0 DEF HandleService, KeepsWholeIf, clusterVars
<1>2. whole' => whole /\ ("names" \in Troubles => q \in ServiceEvents(n, FALSE))
  BY <1>0 DEF KeepsWholeIf, LookupsSucceed
<1>3. /\ services \in [Services -> Service \cup {Absent}] /\ svcNotes \in Seq(Notes)
      /\ dns \subseteq Addresses /\ registry \in SafeRegistries /\ channel \in SafeLists
  BY DEF SafeInv, ClusterTyped, NotesTyped, RegistrySafe, ChannelTyped
<1>4. n \in Notes
  BY <1>1, <1>3
<1> HIDE DEF n
<1>5. q \in SafeLists
  BY <1>1, <1>3, <1>4, ServiceEventsTyped DEF Notes
<1>6. Coming = channel /\ Coming' = channel \o q
  BY <1>0, <1>1, <1>3 DEF Coming, SafeLists
<1>7. NamespaceKept'
  BY <1>1, <1>2, ChecksUnchanged DEF NamespaceKept, WatchedNow, SomePublished
<1>8. ASSUME whole', NEW s \in Services, Wants(s)'
      PROVE  ServiceKept(s)'
  <2>1. Wants(s) /\ ServiceKept(s)
    BY <1>1, <1>2, <1>8, ChecksUnchanged DEF Wants, WatchedNow, ServicesKept
  <2>2. PICK v \in Service : v = services[s]
    BY <1>3, <2>1 DEF Wants, Published, Check, Nothing
  <2>3. services'[s] = v /\ Check(services[s])' = Check(v)
    BY <1>1, <2>2, ChecksUnchanged
  <2>4. Check(v) \in SafeChecks
    BY <1>3, CheckTyped
  <2>5. CASE ~Named(svcNotes, s) /\ EndsIn(registry, channel, Covering(s, Check(v)))
    <3>1. ~Named(svcNotes', s) /\ s # n.name
      BY <1>1, <1>3, <2>5, LastInTail DEF n
    <3>2. \A i \in 1..Len(q) : q[i].object \notin ObjectsOf(s)
      BY <1>1, <1>3, <1>4, <3>1, ListsKeepToTheirService
    <3>3. \A R \in Covering(s, Check(v)) : EndsIn(R, q, Covering(s, Check(v)))
      BY <1>5, <2>4, <3>2, OtherListKeepsCovering
    <3>4. EndsIn(registry, channel \o q, Covering(s, Check(v)))
      BY <1>3, <1>5, <2>5, <3>3, EndsInAppended DEF SafeLists
    <3> QED
      BY <1>1, <1>6, <2>3, <3>1, <3>4 DEF ServiceKept
  <2>6. ASSUME NEW m \in Notes, LastNote(svcNotes, s, m), Leads(m, v)
        PROVE  ServiceKept(s)'
    <3>1. CASE LastNote(Tail(svcNotes), s, m)
      <4>1. Leads(m, services[s])'
        BY <1>1, <2>3, <2>6, ChecksUnchanged
      <4> QED
        BY <1>1, <3>1, <4>1 DEF ServiceKept
    <3>2. CASE m = n /\ s = n.name /\ ~Named(Tail(svcNotes), s)
      <4>1. q \in ServiceEvents(n, FALSE)
        BY <1>1, <1>2, <1>4, <1>8, LookupsFound
      <4>2. WatchedNow /\ Published(v) /\ ~v.deleting
        BY <2>1, <2>2 DEF Wants
      <4>3. \A R \in SafeRegistries : EndsIn(R, q, Covering(s, Check(v)))
        BY <1>3, <1>4, <2>6, <3>2, <4>1, <4>2, LastListCovers
      <4>4. EndsIn(registry, channel, SafeRegistries)
        BY <1>3, EndsSafely
      <4>5. EndsIn(registry, channel \o q, Covering(s, Check(v)))
        BY <1>3, <1>5, <4>3, <4>4, EndsInAppended DEF SafeLists
      <4> QED
        BY <1>1, <1>6, <2>3, <3>2, <4>5 DEF ServiceKept
    <3> QED
      BY <1>1, <1>3, <2>6, <3>1, <3>2, LastInTail DEF n
  <2> QED
    BY <1>6, <2>1, <2>2, <2>5, <2>6 DEF ServiceKept
<1> QED
  BY <1>7, <1>8 DEF ServicesKept, ServiceKept

\* The namespace controller looks at a change: if something is published, it is one
\* of which nothing follows.
LEMMA HandleNamespaceKeeps ==
  ASSUME KeptInv, HandleNamespace, KeepsWholeIf(TRUE)
  PROVE  ServicesKept' /\ NamespaceKept'
<1> USE DEF KeptInv
<1>1. /\ UNCHANGED <<namespace, services, dns, svcNotes, svcOut, channel, registry>>
      /\ whole' = whole
  BY DEF HandleNamespace, KeepsWholeIf, clusterVars, SafeInv, HistoryTyped
<1>2. nsNotes \in Seq(NamespaceNotes) /\ nsNotes # <<>> /\ nsNotes' = Tail(nsNotes)
  BY DEF HandleNamespace, SafeInv, NotesTyped
<1>3. ServicesKept'
  BY <1>1, SameKeeps DEF Coming
<1>4. ASSUME whole, WatchedNow', SomePublished'
      PROVE  nsOut' = <<>> /\ \A i \in DOMAIN nsNotes' : Harmless(nsNotes'[i])
  <2>1. WatchedNow /\ SomePublished
    BY <1>1, <1>4, ChecksUnchanged DEF WatchedNow, SomePublished
  <2>2. \A i \in DOMAIN nsNotes : Harmless(nsNotes[i])
    BY <1>4, <2>1 DEF NamespaceKept
  <2>3. \A i \in DOMAIN nsNotes' : i + 1 \in DOMAIN nsNotes /\ nsNotes'[i] = nsNotes[i + 1]
    BY <1>2
  <2>4. Harmless(Head(nsNotes))
    BY <1>2, <2>2
  <2>5. NamespaceEvents(Head(nsNotes)) = {<<>>}
    <3>1. PICK n : n = Head(nsNotes)
      OBVIOUS
    <3>2. CASE n.old = Absent /\ n.new # Absent
      BY <3>1, <3>2 DEF NamespaceEvents
    <3>3. CASE n.old # Absent /\ n.new # Absent /\ Watches(n.old) = Watches(n.new)
      BY <3>1, <3>3 DEF NamespaceEvents
    <3> QED
      BY <2>4, <3>1, <3>2, <3>3 DEF Harmless
  <2> QED
    BY <2>2, <2>3, <2>5 DEF HandleNamespace
<1> QED
  BY <1>1, <1>3, <1>4 DEF NamespaceKept

\* Events are sent and dealt with in their order.
LEMMA EventsKeep ==
  ASSUME KeptInv,
         \/ SendService /\ KeepsWholeIf(TRUE)
         \/ SendNamespace /\ KeepsWholeIf(TRUE)
         \/ Handle
  PROVE  ServicesKept' /\ NamespaceKept'
<1> USE DEF KeptInv
<1>1. UNCHANGED <<namespace, services, dns, nsNotes, svcNotes>> /\ whole' = whole
  BY DEF SendService, SendNamespace, Handle, Receive, KeepsWholeIf, clusterVars, SafeInv, HistoryTyped
<1>2. channel \in Seq(SafeEvents) /\ svcOut \in Seq(SafeEvents)
  BY DEF SafeInv, ChannelTyped, OutTyped, SafeLists
<1>3. \A s \in Services : Wants(s)' <=> Wants(s)
  BY <1>1, ChecksUnchanged DEF Wants, WatchedNow
<1>4. WatchedNow' = WatchedNow /\ SomePublished' = SomePublished
  BY <1>1, ChecksUnchanged DEF WatchedNow, SomePublished
<1>6. CASE SendService /\ KeepsWholeIf(TRUE)
  <2>1. Coming' = Coming
    BY <1>2, <1>6 DEF SendService, Coming
  <2>2. registry' = registry /\ nsOut' = nsOut
    BY <1>6 DEF SendService, KeepsWholeIf
  <2> QED
    BY <1>1, <1>4, <2>1, <2>2, SameKeeps DEF NamespaceKept
<1>7. CASE SendNamespace
  <2>1. nsOut # <<>>
    BY <1>7 DEF SendNamespace
  <2>2. ~(whole /\ WatchedNow /\ SomePublished)
    BY <2>1 DEF NamespaceKept
  <2>3. NamespaceKept'
    BY <1>1, <1>4, <2>2 DEF NamespaceKept
  <2>4. whole => \A s \in Services : ~Wants(s)
    BY <2>2 DEF Wants, SomePublished
  <2> QED
    BY <1>1, <1>3, <2>3, <2>4 DEF ServicesKept, ServiceKept
<1>8. CASE Handle
  <2>1. channel # <<>> /\ channel' = Tail(channel) /\ svcOut' = svcOut /\ nsOut' = nsOut
        /\ registry' = After(registry, Head(channel))
    BY <1>8, HandleIsAfter DEF Handle, Receive
  <2>2. /\ Coming \in Seq(SafeEvents) /\ Coming # <<>>
        /\ Coming' = Tail(Coming) /\ Head(Coming) = Head(channel)
    BY <1>2, <2>1 DEF Coming
  <2>3. \A G : EndsIn(registry, Coming, G) => EndsIn(registry', Coming', G)
    BY <2>1, <2>2, EndsInTail
  <2> QED
    BY <1>1, <1>4, <2>1, <2>3, SameKeeps DEF NamespaceKept
<1> QED
  BY <1>6, <1>7, <1>8

LEMMA NextKept == KeptInv /\ [Next]_vars => KeptInv'
<1> SUFFICES ASSUME KeptInv, [Next]_vars
             PROVE  KeptInv'
  OBVIOUS
<1>1. SafeInv'
  BY NextSafe DEF KeptInv
<1>2. CASE UNCHANGED vars
  <2>1. UNCHANGED <<namespace, services, dns, nsNotes, svcNotes, nsOut, svcOut, channel,
                    registry, whole>>
    BY <1>2 DEF vars, clusterVars, controllerVars
  <2>2. ServicesKept'
    BY <2>1, SameKeeps DEF KeptInv, Coming
  <2>3. NamespaceKept'
    BY <2>1, ChecksUnchanged DEF KeptInv, NamespaceKept, WatchedNow, SomePublished
  <2> QED
    BY <1>1, <2>2, <2>3 DEF KeptInv
<1>3. CASE Fault
  BY <1>1, <1>3 DEF Fault, KeptInv, ServicesKept, NamespaceKept
<1>4. CASE Next
  BY <1>1, <1>2, <1>3, <1>4, ChangesOfServicesKeep, OtherChangesKeep, ToldKeeps,
     HandleServiceKeeps, HandleNamespaceKeeps, EventsKeep
  DEF Next, Done, Lose, KeptInv
<1> QED
  BY <1>2, <1>4

\* When nothing is on its way any more what is wanted is there.
LEMMA KeptRestores == KeptInv => RestartRestores
<1> SUFFICES ASSUME KeptInv, Settled, whole
             PROVE  Wanted \subseteq Present /\ MetadataReflected
  BY DEF RestartRestores
<1>1. services \in [Services -> Service \cup {Absent}] /\ dns \subseteq Addresses
  BY DEF KeptInv, SafeInv, ClusterTyped
<1>2. Coming = <<>> /\ svcNotes = <<>>
  BY DEF Settled, ServiceControllerIdle, Coming
<1>3. ASSUME NEW s \in Services, Wants(s)
      PROVE  registry \in Covering(s, Check(services[s]))
  <2>1. ServiceKept(s)
    BY DEF KeptInv, ServicesKept
  <2>2. \A n : ~LastNote(svcNotes, s, n)
    BY <1>2 DEF LastNote
  <2>3. EndsIn(registry, <<>>, Covering(s, Check(services[s])))
    BY <1>2, <1>3, <2>1, <2>2 DEF ServiceKept
  <2> QED
    BY <2>3, EndsInEmpty
<1>4. ASSUME NEW o \in Wanted
      PROVE  /\ o \in Present
             /\ Len(o) = 2 =>
                  registry[o] = AllowedOf(services[o[1]].annotations, ServiceAnnotations)
  <2>1. PICK s \in Services : Wants(s) /\ o \in {<<s>>} \cup EndpointsOf(s, Check(services[s]))
    BY <1>4 DEF Wanted
  <2>2. PICK v : v = services[s]
    OBVIOUS
  <2>3. PICK check : check = Check(v)
    OBVIOUS
  <2>4. registry \in Covering(s, check)
    BY <1>3, <2>1, <2>2, <2>3
  <2>5. CASE o = <<s>>
    BY <2>4, <2>5 DEF Covering, Present
  <2>6. CASE o \in EndpointsOf(s, check)
    <3>1. o \in Present /\ registry[o] = check.metadata
      BY <2>4, <2>6 DEF Covering, Present
    <3>2. o[1] = s
      BY <2>6 DEF EndpointsOf
    <3>3. v \in Service /\ check.metadata = FilterAnnotations(v.annotations, ServiceAnnotations)
      BY <1>1, <2>1, <2>2, <2>3 DEF Wants, Published, Check, Nothing
    <3>4. v.annotations \in SUBSET Keys(STRING) /\ ServiceAnnotations \in SUBSET Keys(STRING)
      BY <3>3, ControllersAssumption DEF Keys, Service
    <3>5. check.metadata = AllowedOf(v.annotations, ServiceAnnotations)
      BY <3>3, <3>4, FilterKeepsWhatIsAllowed
    <3> QED
      BY <2>2, <3>1, <3>2, <3>5
  <2> QED
    BY <2>1, <2>2, <2>3, <2>5, <2>6
<1> QED
  BY <1>4 DEF MetadataReflected

\* Whatever is lost, fails or is missed: once the operator has been told of all
\* services and has dealt with it, each service that is wanted is in the registry,
\* with all its addresses and exactly the annotations that the documentation allows.
THEOREM RestartRestoresAlways == Spec => []RestartRestores
  BY InitKept, NextKept, KeptRestores, PTL DEF Spec
=============================================================================
