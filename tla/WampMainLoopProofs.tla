------------------------- MODULE WampMainLoopProofs -------------------------
(***************************************************************************)
(* Theorems about WampMainLoop, for any objects, clients and calls: the    *)
(* types, that nothing deleted is kept, that the descriptors belong to     *)
(* watches, and that the loop implements DispatchLifecycle.                *)
(***************************************************************************)
EXTENDS WampMainLoop, FiniteSetTheorems, SequenceTheorems, TLAPS

-----------------------------------------------------------------------------
(* Sequences                                                               *)

(* Erasing elements leaves the others. *)
LEMMA WithoutKeepsOthers ==
    ASSUME NEW S, NEW s \in Seq(S), NEW E
    PROVE  /\ Without(s, E) \in Seq(S)
           /\ ToSet(Without(s, E)) = ToSet(s) \ E
<1> DEFINE kept == {i \in DOMAIN s : s[i] \notin E}
           Upto(i) == {j \in kept : j =< i}
           Rank(i) == Cardinality(Upto(i))
           At_(n) == CHOOSE i \in kept : Rank(i) = n
           f == [i \in kept |-> Rank(i)]
<1>1. /\ DOMAIN s = 1..Len(s) /\ Len(s) \in Nat
      /\ \A i \in 1..Len(s) : s[i] \in S
  BY LenProperties, ElementOfSeq
<1>2. IsFiniteSet(kept) /\ Cardinality(kept) \in Nat
  <2>1. IsFiniteSet(1..Len(s))
    BY <1>1, FS_Interval
  <2>2. kept \in SUBSET (1..Len(s))
    BY <1>1
  <2> HIDE DEF kept
  <2> QED BY <2>1, <2>2, FS_Subset, FS_CardinalityType
<1>3. ASSUME NEW i \in kept
      PROVE  /\ IsFiniteSet(Upto(i))
             /\ Rank(i) \in 1..Cardinality(kept)
  <2>1. IsFiniteSet(Upto(i)) /\ Rank(i) \in Nat /\ Rank(i) =< Cardinality(kept)
    BY <1>2, FS_Subset, FS_CardinalityType
  <2>2. i \in Upto(i)
    BY <1>1
  <2>3. Rank(i) # 0
    BY <2>1, <2>2, FS_EmptySet
  <2> HIDE DEF kept
  <2> QED BY <1>2, <2>1, <2>3
<1>4. ASSUME NEW i \in kept, NEW j \in kept, i < j
      PROVE  Rank(i) # Rank(j)
  <2>1. Upto(i) \subseteq Upto(j) /\ j \in Upto(j) /\ j \notin Upto(i)
    BY <1>1, <1>4
  <2> HIDE DEF kept, Upto
  <2> QED BY <1>3, <2>1, FS_Subset
<1>5. f \in Injection(kept, 1..Cardinality(kept))
  <2>1. f \in [kept -> 1..Cardinality(kept)]
    BY <1>3
  <2>2. ASSUME NEW i \in kept, NEW j \in kept, i # j
        PROVE  f[i] # f[j]
    <3>1. i < j \/ j < i
      BY <1>1, <2>2
    <3> QED BY <1>4, <3>1
  <2> HIDE DEF f, kept
  <2> QED BY <2>1, <2>2 DEF Injection, IsInjective
<1>6. \A n \in 1..Cardinality(kept) : \E i \in kept : Rank(i) = n
  <2>1. /\ IsFiniteSet(1..Cardinality(kept))
        /\ Cardinality(1..Cardinality(kept)) = Cardinality(kept)
    <3> HIDE DEF kept
    <3> QED BY <1>2, FS_Interval
  <2>2. f \in Surjection(kept, 1..Cardinality(kept))
    BY <1>5, <2>1, FS_Injection
  <2> QED BY <2>2 DEF Surjection
<1>7. \A n \in 1..Cardinality(kept) : At_(n) \in kept /\ Rank(At_(n)) = n
  <2> HIDE DEF kept, Rank
  <2> QED BY <1>6
<1>8. Without(s, E) = [n \in 1..Cardinality(kept) |-> s[At_(n)]]
  BY DEF Without
<1>9. \A i \in kept : At_(Rank(i)) = i
  <2> SUFFICES ASSUME NEW i \in kept PROVE At_(Rank(i)) = i
    OBVIOUS
  <2> DEFINE j == At_(Rank(i))
  <2>1. j \in kept /\ Rank(j) = Rank(i)
    BY <1>3, <1>7
  <2> HIDE DEF j
  <2>2. ~(i < j) /\ ~(j < i) /\ i \in Nat /\ j \in Nat
    BY <1>1, <1>4, <2>1
  <2> QED BY <2>2 DEF j
<1>10. \A n \in 1..Cardinality(kept) : At_(n) \in 1..Len(s)
  BY <1>1, <1>7
<1>11. Without(s, E) \in Seq(S)
  <2> HIDE DEF At_, kept
  <2> QED BY <1>1, <1>2, <1>8, <1>10
<1>12. ToSet(Without(s, E)) = {s[i] : i \in kept}
  <2> DEFINE N == 1..Cardinality(kept)
             w == Without(s, E)
  <2>1. w = [n \in N |-> s[At_(n)]] /\ DOMAIN w = N
    BY <1>8
  <2>2. /\ \A n \in N : At_(n) \in kept
        /\ \A i \in kept : Rank(i) \in N /\ At_(Rank(i)) = i
    BY <1>3, <1>7, <1>9
  <2> HIDE DEF At_, kept, Rank, N, w
  <2>3. ToSet(w) = {w[n] : n \in N}
    BY <2>1 DEF ToSet
  <2>4. \A n \in N : w[n] = s[At_(n)]
    BY <2>1
  <2>5. \A i \in kept : s[i] \in ToSet(w)
    BY <2>2, <2>3, <2>4
  <2>6. \A y \in ToSet(w) : \E i \in kept : y = s[i]
    BY <2>2, <2>3, <2>4
  <2> QED BY <2>5, <2>6 DEF w
<1> QED BY <1>11, <1>12 DEF ToSet

(* Inserting an element adds it, wherever it goes. *)
LEMMA InsertAddsElement ==
    ASSUME NEW S, NEW s \in Seq(S), NEW x \in S, NEW i \in 1..(Len(s) + 1)
    PROVE  /\ InsertAt(s, i, x) \in Seq(S)
           /\ ToSet(InsertAt(s, i, x)) = ToSet(s) \cup {x}
<1> DEFINE a == SubSeq(s, 1, i - 1)
           b == SubSeq(s, i, Len(s))
           t == a \o <<x>> \o b
<1>1. /\ Len(s) \in Nat /\ DOMAIN s = 1..Len(s)
      /\ \A j \in 1..Len(s) : s[j] \in S
  BY LenProperties, ElementOfSeq
<1>2. /\ a \in Seq(S) /\ Len(a) = i - 1
      /\ \A j \in 1..(i - 1) : a[j] = s[j]
  BY <1>1
<1>3. /\ b \in Seq(S) /\ Len(b) = Len(s) - i + 1
      /\ \A j \in 1..(Len(s) - i + 1) : b[j] = s[i + j - 1]
  BY <1>1
<1> HIDE DEF a, b
<1>4. /\ t \in Seq(S) /\ Len(t) = Len(s) + 1 /\ DOMAIN t = 1..(Len(s) + 1)
      /\ \A j \in 1..(i - 1) : t[j] = s[j]
      /\ t[i] = x
      /\ \A j \in (i + 1)..(Len(s) + 1) : t[j] = s[j - 1]
  <2> DEFINE u == a \o <<x>>
  <2>1. /\ u \in Seq(S) /\ Len(u) = i
        /\ \A j \in 1..(i - 1) : u[j] = s[j]
        /\ u[i] = x
    BY <1>1, <1>2
  <2> HIDE DEF u
  <2>2. /\ u \o b \in Seq(S) /\ Len(u \o b) = Len(s) + 1
        /\ \A j \in 1..i : (u \o b)[j] = u[j]
        /\ \A j \in (i + 1)..(Len(s) + 1) : (u \o b)[j] = b[j - i]
    BY <1>1, <1>3, <2>1, ConcatProperties
  <2>3. ASSUME NEW j \in (i + 1)..(Len(s) + 1) PROVE b[j - i] = s[j - 1]
    <3>1. i \in Nat /\ j \in Nat /\ j - i \in 1..(Len(s) - i + 1)
      BY <1>1
    <3>2. b[j - i] = s[i + (j - i) - 1]
      BY <1>3, <3>1
    <3>3. i + (j - i) - 1 = j - 1
      BY <3>1
    <3> QED BY <3>2, <3>3
  <2> DEFINE v == u \o b
  <2>4. t = v
    BY DEF u
  <2>5. /\ v \in Seq(S) /\ Len(v) = Len(s) + 1
        /\ \A j \in 1..i : v[j] = u[j]
        /\ \A j \in (i + 1)..(Len(s) + 1) : v[j] = s[j - 1]
    BY <2>2, <2>3
  <2> HIDE DEF v, t
  <2>6. DOMAIN v = 1..(Len(s) + 1)
    BY <2>5, LenProperties
  <2>7. /\ \A j \in 1..(i - 1) : v[j] = s[j]
        /\ v[i] = x
    BY <1>1, <2>1, <2>5
  <2> QED BY <2>4, <2>5, <2>6, <2>7
<1>5. InsertAt(s, i, x) = t
  BY DEF InsertAt, a, b
<1> HIDE DEF t
<1>6. ToSet(t) \subseteq ToSet(s) \cup {x}
  <2> SUFFICES ASSUME NEW j \in 1..(Len(s) + 1), t[j] # x
               PROVE  \E m \in 1..Len(s) : t[j] = s[m]
    BY <1>1, <1>4 DEF ToSet
  <2>1. CASE j < i
    BY <1>1, <1>4, <2>1
  <2>2. CASE j > i
    BY <1>1, <1>4, <2>2
  <2> QED BY <1>4, <2>1, <2>2
<1>7. \A m \in 1..Len(s) : \E j \in 1..(Len(s) + 1) : t[j] = s[m]
  <2> TAKE m \in 1..Len(s)
  <2>1. CASE m < i
    BY <1>1, <1>4, <2>1
  <2>2. CASE ~(m < i)
    <3>1. m + 1 \in (i + 1)..(Len(s) + 1)
      BY <1>1, <2>2
    <3>2. t[m + 1] = s[m]
      BY <1>1, <1>4, <3>1
    <3> QED BY <1>1, <3>1, <3>2
  <2> QED BY <2>1, <2>2
<1>8. ToSet(s) \cup {x} \subseteq ToSet(t)
  BY <1>1, <1>4, <1>7 DEF ToSet
<1> QED BY <1>4, <1>5, <1>6, <1>8

(* A set of numbers has a least one. *)
LEMMA LeastNumber ==
    ASSUME NEW T \in SUBSET Nat, T # {}
    PROVE  Min(T) \in T
<1> DEFINE R == OpToRel(<, Nat)
<1>1. PICK m \in T : \A n \in T : ~(<<n, m>> \in R)
  BY WFMin, NatLessThanWellFounded
<1>2. ASSUME NEW n \in Nat, n < m
      PROVE  <<n, m>> \in R
  BY <1>2, Zenon DEF OpToRel
<1>3. \A n \in T : ~(n < m)
  BY <1>1, <1>2, Zenon
<1>4. \A n \in T : m =< n
  BY ONLY <1>3, T \in SUBSET Nat, m \in T
<1> QED BY ONLY <1>4, m \in T DEF Min

Descriptors == [fd : Watches \cup {Wake}, revents : BOOLEAN]

(* The descriptor of a watch is taken out of the vector behind the first
   position, and the descriptors behind it move up by one.                 *)
LEMMA RemovedFd ==
    ASSUME NEW x, fds \in Seq(Descriptors), Len(fds) >= 1, fds[1].fd # x
    PROVE  \E d \in 2..(Len(fds) + 1) :
              /\ WithoutFd(x) \in Seq(Descriptors)
              /\ Len(WithoutFd(x)) = IF d =< Len(fds) THEN Len(fds) - 1 ELSE Len(fds)
              /\ \A i \in 1..Len(WithoutFd(x)) :
                    WithoutFd(x)[i] = fds[IF i < d THEN i ELSE i + 1]
              /\ d =< Len(fds) => fds[d].fd = x
              /\ d > Len(fds) => \A i \in 1..Len(fds) : fds[i].fd # x
<1> DEFINE I == {i \in 1..Len(fds) : fds[i].fd = x}
           d == Min(I)
           a == SubSeq(fds, 1, d - 1)
           b == SubSeq(fds, d + 1, Len(fds))
<1>1. Len(fds) \in Nat /\ \A i \in 1..Len(fds) : fds[i] \in Descriptors
  OBVIOUS
<1>2. WithoutFd(x) = IF I # {} THEN a \o b ELSE fds
  BY DEF WithoutFd, RemoveFirstMatch, RemoveAt, SelectInSeq
<1> HIDE DEF d
<1>3. CASE I = {}
  <2>1. Len(fds) + 1 \in 2..(Len(fds) + 1) /\ ~(Len(fds) + 1 =< Len(fds))
    BY <1>1
  <2>2. \A i \in 1..Len(fds) : fds[i].fd # x /\ i < Len(fds) + 1
    BY <1>1, <1>3
  <2> QED BY <1>1, <1>2, <1>3, <2>1, <2>2
<1>4. CASE I # {}
  <2>1. I \in SUBSET Nat
    BY <1>1
  <2>2. d \in I
    <3> HIDE DEF I
    <3> QED BY <1>4, <2>1, LeastNumber DEF d
  <2>3. d \in 2..Len(fds) /\ fds[d].fd = x
    BY <1>1, <2>2
  <2>4. /\ a \in Seq(Descriptors) /\ Len(a) = d - 1
        /\ \A i \in 1..(d - 1) : a[i] = fds[i]
    BY <1>1, <2>3, SubSeqProperties
  <2>5. /\ b \in Seq(Descriptors) /\ Len(b) = Len(fds) - d
        /\ \A i \in 1..(Len(fds) - d) : b[i] = fds[d + i]
    BY <1>1, <2>3, SubSeqProperties
  <2> HIDE DEF a, b
  <2>6. /\ a \o b \in Seq(Descriptors) /\ Len(a \o b) = Len(fds) - 1
        /\ \A i \in 1..(Len(fds) - 1) :
              (a \o b)[i] = IF i < d THEN a[i] ELSE b[i - d + 1]
    <3>1. /\ a \o b \in Seq(Descriptors) /\ Len(a \o b) = Len(a) + Len(b)
          /\ \A i \in 1..(Len(a) + Len(b)) :
                (a \o b)[i] = IF i =< Len(a) THEN a[i] ELSE b[i - Len(a)]
      <4>1. a \in Seq(Descriptors) /\ b \in Seq(Descriptors)
        BY <2>4, <2>5
      <4> QED BY ONLY <4>1, ConcatProperties, Zenon
    <3> DEFINE u == a \o b
    <3> HIDE DEF u
    <3>2. /\ u \in Seq(Descriptors) /\ Len(u) = Len(fds) - 1
          /\ \A i \in 1..(Len(fds) - 1) :
                u[i] = IF i < d THEN a[i] ELSE b[i - (d - 1)]
      BY <1>1, <2>3, <2>4, <2>5, <3>1 DEF u
    <3>3. \A i \in 1..(Len(fds) - 1) : i - (d - 1) = i - d + 1
      BY <1>1, <2>3
    <3> QED BY <3>2, <3>3 DEF u
  <2>7. \A i \in 1..(Len(fds) - 1) :
           (a \o b)[i] = fds[IF i < d THEN i ELSE i + 1]
    BY <1>1, <2>3, <2>4, <2>5, <2>6
  <2> DEFINE u == a \o b
  <2> HIDE DEF u
  <2>8. /\ WithoutFd(x) = u /\ u \in Seq(Descriptors) /\ Len(u) = Len(fds) - 1
        /\ \A i \in 1..Len(u) : u[i] = fds[IF i < d THEN i ELSE i + 1]
    BY <1>2, <1>4, <2>6, <2>7 DEF u
  <2>9. d \in 2..(Len(fds) + 1) /\ d =< Len(fds)
    BY <1>1, <2>3
  <2> USE <2>9
  <2> WITNESS d \in 2..(Len(fds) + 1)
  <2> QED BY <1>1, <2>3, <2>8, <2>9
<1> QED BY <1>3, <1>4

-----------------------------------------------------------------------------
(* What the loop has been given                                            *)

Registrations ==
    /\ registered \in [Kinds -> Seq(Objects)]
    /\ \A k \in Kinds : ToSet(registered[k]) \subseteq Of[k]

(* A client in the middle of a call works on a watch of its own: on one that
   is not registered yet, or on one that is not marked yet.                *)
Claims ==
    /\ cpc \in [Clients -> ClientPCs]
    /\ carg \in [Clients -> Objects \cup {None}]
    /\ \A c, d \in Clients : carg[c] # None /\ carg[c] = carg[d] => c = d
    /\ \A c \in Clients :
          /\ cpc[c] \in {"idle", "stopWake"} => carg[c] = None
          /\ cpc[c] = "watchFd" => carg[c] \in Watches \ Given
          /\ cpc[c] \in {"unwatchFd", "unwatchMark"} =>
                carg[c] \in ToSet(registered["watch"]) \ deleteObject

(* The three ways in which a step changes what the loop has been given. *)
Erases(k, E) ==
    /\ E \subseteq ToSet(registered[k]) /\ E \subseteq Deletable(k)
    /\ registered' \in [Kinds -> Seq(Objects)]
    /\ ToSet(registered'[k]) = ToSet(registered[k]) \ E
    /\ \A j \in Kinds \ {k} : registered'[j] = registered[j]
    /\ freed' = freed \cup E /\ deleteObject' = deleteObject

Adds(k, x) ==
    /\ x \in Of[k] \ Given
    /\ registered' \in [Kinds -> Seq(Objects)]
    /\ ToSet(registered'[k]) = ToSet(registered[k]) \cup {x}
    /\ \A j \in Kinds \ {k} : registered'[j] = registered[j]
    /\ freed' = freed /\ deleteObject' = deleteObject

Marks(k, x) ==
    /\ x \in ToSet(registered[k]) \ deleteObject
    /\ registered' = registered /\ freed' = freed
    /\ deleteObject' = deleteObject \cup {x}

GivesNothing == UNCHANGED <<registered, deleteObject, freed>>

(* The three kinds of objects are disjoint. *)
LEMMA OfKinds ==
    /\ Of["source"] = Sources /\ Of["timeout"] = Timeouts /\ Of["watch"] = Watches
    /\ \A k \in Kinds : Of[k] \subseteq Objects
    /\ \A j, k \in Kinds : j # k => Of[j] \cap Of[k] = {}
    /\ \A k \in Kinds : None \notin Of[k] /\ Wake \notin Of[k]
BY ObjectsDistinct DEF Of, Kinds, Objects

(* An object was given to the loop if it is registered or deleted. *)
LEMMA GivenIs ==
    /\ \A x : x \in Given <=> x \in freed \/ \E k \in Kinds : x \in ToSet(registered[k])
    /\ \A x : x \in Given' <=> x \in freed' \/ \E k \in Kinds : x \in ToSet(registered'[k])
BY DEF Given

(* A pass of the loop erases only what may be deleted. *)
LEMMA CleanErases ==
    ASSUME Registrations, NEW k \in Kinds, Clean(k)
    PROVE  \E E : Erases(k, E)
<1> DEFINE E == Erased(registered[k], Deletable(k))
<1>1. registered[k] \in Seq(Objects)
  BY DEF Registrations
<1>2. E \subseteq ToSet(registered[k]) /\ E \subseteq Deletable(k)
  <2>1. \A j \in DOMAIN registered[k] : j \in Nat \ {0}
    BY <1>1
  <2>2. ASSUME NEW j \in DOMAIN registered[k], NEW b \in 0..(j - 1),
               \A m \in (b + 1)..j : registered[k][m] \in Deletable(k)
        PROVE  registered[k][j] \in Deletable(k)
    BY <2>1, <2>2
  <2> QED BY <2>1, <2>2 DEF Erased, ToSet
<1>3. /\ registered' = [registered EXCEPT ![k] = Without(registered[k], E)]
      /\ freed' = freed \cup E /\ deleteObject' = deleteObject
  BY DEF Clean
<1> HIDE DEF E
<1>4. /\ Without(registered[k], E) \in Seq(Objects)
      /\ ToSet(Without(registered[k], E)) = ToSet(registered[k]) \ E
  BY <1>1, WithoutKeepsOthers
<1>5. /\ registered' \in [Kinds -> Seq(Objects)]
      /\ registered'[k] = Without(registered[k], E)
      /\ \A j \in Kinds \ {k} : registered'[j] = registered[j]
  BY <1>3, <1>4 DEF Registrations
<1> QED BY <1>2, <1>3, <1>4, <1>5 DEF Erases

(* Inserting an object at any position registers it. *)
LEMMA InsertRegisters ==
    ASSUME Registrations, NEW k \in Kinds, NEW x \in Of[k], Insert(k, x)
    PROVE  /\ registered' \in [Kinds -> Seq(Objects)]
           /\ ToSet(registered'[k]) = ToSet(registered[k]) \cup {x}
           /\ \A j \in Kinds \ {k} : registered'[j] = registered[j]
<1>1. registered[k] \in Seq(Objects) /\ x \in Objects
  BY OfKinds DEF Registrations
<1>2. PICK i \in 1..(Len(registered[k]) + 1) :
         registered' = [registered EXCEPT ![k] = InsertAt(registered[k], i, x)]
  BY DEF Insert
<1>3. /\ InsertAt(registered[k], i, x) \in Seq(Objects)
      /\ ToSet(InsertAt(registered[k], i, x)) = ToSet(registered[k]) \cup {x}
  BY <1>1, InsertAddsElement
<1>4. /\ registered' \in [Kinds -> Seq(Objects)]
      /\ registered'[k] = InsertAt(registered[k], i, x)
      /\ \A j \in Kinds \ {k} : registered'[j] = registered[j]
  BY <1>2, <1>3 DEF Registrations
<1> QED BY <1>3, <1>4

(* Steps of the driving thread erase objects, in the cleaning phases. *)
LEMMA LoopMoves ==
    ASSUME Registrations, Loop
    PROVE  /\ UNCHANGED clients
           /\ GivesNothing \/ \E k \in Kinds : \E E : Erases(k, E)
<1>1. CASE CleanSources \/ CleanTimeouts \/ CleanWatches
  <2>1. PICK k \in Kinds : Clean(k)
    BY <1>1 DEF CleanSources, CleanTimeouts, CleanWatches, Kinds
  <2> QED BY <2>1, CleanErases DEF Clean
<1>2. CASE RunTest \/ PrepareSources \/ PrepareTimeouts \/ PollEnter \/ PollReturn
  BY <1>2 DEF RunTest, PrepareSources, PrepareTimeouts, PollEnter, PollReturn,
              objects, GivesNothing
<1>3. CASE PollAck \/ CheckFds \/ CheckWatches \/ CheckSources
  BY <1>3 DEF PollAck, CheckFds, CheckWatches, CheckSources, objects, GivesNothing
<1>4. CASE DispatchNext \/ Executed \/ DispatchKindDone
  BY <1>4 DEF DispatchNext, Executed, DispatchKindDone, objects, GivesNothing
<1> QED BY <1>1, <1>2, <1>3, <1>4 DEF Loop

(* Clients register and unregister. *)
LEMMA RegisterAdds ==
    ASSUME Registrations, NEW c \in Clients, NEW k, Register(c, k)
    PROVE  \E x \in New(k) : k \in {"source", "timeout"} /\ Adds(k, x)
<1>1. k \in {"source", "timeout"} /\ k \in Kinds
  BY DEF Register, Kinds
<1>2. PICK x \in New(k) : Insert(k, x)
  BY DEF Register
<1>3. x \in Of[k] \ Given
  BY DEF New
<1> QED BY <1>1, <1>2, <1>3, InsertRegisters DEF Register, Adds

(* registerWatch adds the watch that the client claimed. *)
LEMMA RegisterWatchFdAdds ==
    ASSUME Registrations, Claims, NEW c \in Clients, RegisterWatchFd(c)
    PROVE  carg[c] \in Watches \ Given /\ Adds("watch", carg[c])
<1>1. carg[c] \in Watches \ Given /\ "watch" \in Kinds
  BY DEF RegisterWatchFd, Claims, Kinds
<1> QED BY <1>1, OfKinds, InsertRegisters DEF RegisterWatchFd, Adds

(* The unregistrations mark one object that is registered. *)
LEMMA UnregisterMarks ==
    ASSUME Registrations, Claims, NEW c \in Clients,
           \/ UnregisterDispatchSource(c) \/ UnregisterTimeout(c)
           \/ UnregisterWatchMark(c)
    PROVE  \E k \in Kinds : \E x : Marks(k, x)
<1>1. CASE UnregisterDispatchSource(c)
  BY <1>1 DEF UnregisterDispatchSource, Live, Marks, Kinds
<1>2. CASE UnregisterTimeout(c)
  BY <1>2 DEF UnregisterTimeout, Live, Marks, Kinds
<1>3. CASE UnregisterWatchMark(c)
  BY <1>3 DEF UnregisterWatchMark, Claims, Marks, Kinds
<1> QED BY <1>1, <1>2, <1>3

(* A client registers an object, marks one, or leaves all as they are. *)
LEMMA ClientMoves ==
    ASSUME Registrations, Claims, NEW c \in Clients, Client(c) \/ ClientGoesOn(c)
    PROVE  GivesNothing \/ \E k \in Kinds : \E x : Adds(k, x) \/ Marks(k, x)
<1>1. CASE \E k \in {"source", "timeout"} : Register(c, k)
  BY <1>1, RegisterAdds DEF Kinds
<1>2. CASE RegisterWatchFd(c)
  BY <1>2, RegisterWatchFdAdds DEF Kinds
<1>3. CASE UnregisterDispatchSource(c) \/ UnregisterTimeout(c) \/ UnregisterWatchMark(c)
  BY <1>3, UnregisterMarks
<1>4. CASE \/ RegisterWatch(c) \/ UnregisterWatch(c) \/ UnregisterWatchFd(c)
           \/ Stop(c) \/ StopWake(c) \/ Wakeup(c)
  BY <1>4 DEF RegisterWatch, UnregisterWatch, UnregisterWatchFd, Stop, StopWake,
              Wakeup, objects, GivesNothing
<1> QED BY <1>1, <1>2, <1>3, <1>4 DEF Client, ClientGoesOn

(* Those moves keep the registrations in order. *)
LEMMA MovesKeepRegistrations ==
    ASSUME Registrations,
           \/ GivesNothing
           \/ \E k \in Kinds : \E E : Erases(k, E)
           \/ \E k \in Kinds : \E x : Adds(k, x) \/ Marks(k, x)
    PROVE  Registrations'
BY DEF Registrations, GivesNothing, Erases, Adds, Marks

(* What is given to the loop is never given again. *)
LEMMA GivenGrows ==
    ASSUME Registrations, NEW k \in Kinds
    PROVE  /\ GivesNothing => Given' = Given
           /\ \A E : Erases(k, E) => Given' = Given
           /\ \A x : Adds(k, x) => Given' = Given \cup {x}
           /\ \A x : Marks(k, x) => Given' = Given
<1>1. GivesNothing => Given' = Given
  BY DEF GivesNothing, Given
<1>2. ASSUME NEW E, Erases(k, E) PROVE Given' = Given
  <2>1. /\ E \subseteq ToSet(registered[k]) /\ freed' = freed \cup E
        /\ ToSet(registered'[k]) = ToSet(registered[k]) \ E
        /\ \A j \in Kinds \ {k} : ToSet(registered'[j]) = ToSet(registered[j])
    BY <1>2 DEF Erases
  <2>2. \A x : x \in Given' <=> x \in Given
    BY <2>1, GivenIs
  <2> QED BY <2>2
<1>3. ASSUME NEW x, Adds(k, x) PROVE Given' = Given \cup {x}
  <2>1. /\ freed' = freed
        /\ ToSet(registered'[k]) = ToSet(registered[k]) \cup {x}
        /\ \A j \in Kinds \ {k} : ToSet(registered'[j]) = ToSet(registered[j])
    BY <1>3 DEF Adds
  <2>2. \A y : y \in Given' <=> y \in Given \cup {x}
    BY <2>1, GivenIs
  <2> QED BY <2>2
<1>4. ASSUME NEW x, Marks(k, x) PROVE Given' = Given
  BY <1>4 DEF Marks, Given
<1> QED BY <1>1, <1>2, <1>3, <1>4

(* Each client keeps its own watch, whatever the others do. *)
LEMMA MovesKeepClaims ==
    ASSUME Registrations, Claims, UNCHANGED clients,
           GivesNothing \/ \E k \in Kinds : \E E : Erases(k, E)
    PROVE  Claims'
<1>1. cpc' = cpc /\ carg' = carg
  BY DEF clients
<1>2. CASE GivesNothing
  BY <1>1, <1>2, GivenGrows DEF Claims, GivesNothing, Kinds
<1>3. CASE \E k \in Kinds : \E E : Erases(k, E)
  <2>0. PICK k \in Kinds : \E E : Erases(k, E)
    BY <1>3
  <2>1. PICK E : Erases(k, E)
    BY <2>0
  <2>2. Given' = Given
    BY <2>1, GivenGrows
  <2>3. ToSet(registered["watch"]) \ deleteObject
           \subseteq ToSet(registered'["watch"]) \ deleteObject'
    BY <2>1 DEF Erases, Deletable, Kinds
  <2> QED BY <1>1, <2>2, <2>3 DEF Claims
<1> QED BY <1>2, <1>3

(* Clients in the middle of a call keep the watches they claimed apart. *)
LEMMA ClientKeepsClaims ==
    ASSUME Registrations, Claims, NEW c \in Clients, Client(c) \/ ClientGoesOn(c)
    PROVE  Claims'
<1> USE DEF Claims, ClientPCs
<1>1. CASE \E k \in {"source", "timeout"} : Register(c, k)
  <2>0. PICK k \in {"source", "timeout"} : Register(c, k)
    BY <1>1
  <2>1. PICK x \in New(k) : Register(c, k) /\ Adds(k, x)
    BY <2>0, RegisterAdds
  <2>2. cpc' = cpc /\ carg' = carg
    BY <2>1 DEF Register, clients
  <2>3. Given' = Given \cup {x} /\ \A d \in Clients : carg[d] # x
    BY <2>1, GivenGrows DEF Kinds, New
  <2>4. registered'["watch"] = registered["watch"] /\ deleteObject' = deleteObject
    BY <2>1 DEF Adds, Kinds
  <2> QED BY <2>2, <2>3, <2>4
<1>2. CASE UnregisterDispatchSource(c) \/ UnregisterTimeout(c)
  <2>0. PICK k \in {"source", "timeout"} : \E y \in Live(k) : Marks(k, y)
    BY <1>2 DEF UnregisterDispatchSource, UnregisterTimeout, Live, Marks
  <2>1. PICK x \in Live(k) : Marks(k, x)
    BY <2>0
  <2>2. cpc' = cpc /\ carg' = carg /\ cpc[c] = "idle"
    BY <1>2 DEF UnregisterDispatchSource, UnregisterTimeout, clients, Free
  <2>3. \A d \in Clients : carg[d] # x
    BY DEF Live
  <2>4. Given' = Given
    BY <2>1, GivenGrows DEF Kinds
  <2> QED BY <2>1, <2>2, <2>3, <2>4 DEF Marks
<1>3. CASE RegisterWatch(c)
  <2>1. PICK x \in New("watch") : carg' = [carg EXCEPT ![c] = x]
    BY <1>3 DEF RegisterWatch
  <2>2. /\ cpc' = [cpc EXCEPT ![c] = "watchFd"]
        /\ registered' = registered /\ deleteObject' = deleteObject /\ Given' = Given
    BY <1>3 DEF RegisterWatch, objects, Given
  <2>3. x \in Watches \ Given /\ x \in Objects /\ \A d \in Clients : carg[d] # x
    BY OfKinds DEF New, Kinds
  <2> QED BY <2>1, <2>2, <2>3
<1>4. CASE RegisterWatchFd(c)
  <2>1. Adds("watch", carg[c])
    BY <1>4, RegisterWatchFdAdds
  <2>2. /\ cpc' = [cpc EXCEPT ![c] = "idle"] /\ carg' = [carg EXCEPT ![c] = None]
        /\ carg[c] \in Watches /\ carg[c] # None
    BY <1>4, OfKinds DEF RegisterWatchFd, Kinds
  <2>3. Given' = Given \cup {carg[c]}
    BY <2>1, GivenGrows DEF Kinds
  <2>4. /\ ToSet(registered'["watch"]) = ToSet(registered["watch"]) \cup {carg[c]}
        /\ deleteObject' = deleteObject
    BY <2>1 DEF Adds
  <2> QED BY <2>2, <2>3, <2>4
<1>5. CASE UnregisterWatch(c)
  <2>1. PICK x \in Live("watch") : carg' = [carg EXCEPT ![c] = x]
    BY <1>5 DEF UnregisterWatch
  <2>2. /\ cpc' = [cpc EXCEPT ![c] = "unwatchFd"]
        /\ registered' = registered /\ deleteObject' = deleteObject /\ Given' = Given
    BY <1>5 DEF UnregisterWatch, objects, Given
  <2>3. /\ x \in ToSet(registered["watch"]) \ deleteObject /\ x \in Objects
        /\ \A d \in Clients : carg[d] # x
    BY OfKinds DEF Live, Kinds, Registrations
  <2> QED BY <2>1, <2>2, <2>3
<1>6. CASE UnregisterWatchFd(c)
  <2>1. /\ cpc[c] = "unwatchFd" /\ cpc' = [cpc EXCEPT ![c] = "unwatchMark"]
        /\ carg' = carg
        /\ registered' = registered /\ deleteObject' = deleteObject /\ Given' = Given
    BY <1>6 DEF UnregisterWatchFd, objects, Given
  <2> QED BY <2>1
<1>7. CASE UnregisterWatchMark(c)
  <2>1. /\ cpc' = [cpc EXCEPT ![c] = "idle"] /\ carg' = [carg EXCEPT ![c] = None]
        /\ deleteObject' = deleteObject \cup {carg[c]}
        /\ registered' = registered /\ Given' = Given
        /\ cpc[c] = "unwatchMark"
    BY <1>7 DEF UnregisterWatchMark, Given
  <2>2. carg[c] # None
    BY <2>1, OfKinds DEF Registrations, Kinds
  <2> QED BY <2>1, <2>2
<1>8. CASE Stop(c) \/ StopWake(c) \/ Wakeup(c)
  <2>1. /\ carg' = carg
        /\ registered' = registered /\ deleteObject' = deleteObject /\ Given' = Given
    BY <1>8 DEF Stop, StopWake, Wakeup, clients, objects, Given
  <2>2. \/ cpc' = cpc
        \/ cpc[c] = "idle" /\ cpc' = [cpc EXCEPT ![c] = "stopWake"]
        \/ cpc[c] = "stopWake" /\ cpc' = [cpc EXCEPT ![c] = "idle"]
    BY <1>8 DEF Stop, StopWake, Wakeup, clients, Free
  <2> QED BY <2>1, <2>2
<1> QED BY <1>1, <1>2, <1>3, <1>4, <1>5, <1>6, <1>7, <1>8 DEF Client, ClientGoesOn

-----------------------------------------------------------------------------
(* What waits for dispatch() stays registered, and nothing registered is   *)
(* deleted.                                                                *)

Books ==
    /\ toDispatch \in [Kinds -> SUBSET Objects]
    /\ \A k \in Kinds : toDispatch[k] \subseteq ToSet(registered[k])
    /\ \A k \in Kinds : ToSet(registered[k]) \cap freed = {}
    /\ deleteObject \subseteq Given \cap Objects /\ freed \subseteq deleteObject
    /\ kind \in Kinds /\ todo \subseteq toDispatch[kind]
    /\ exec # None <=> pc = "executing"
    /\ exec # None => exec \in toDispatch[kind]

(* Cleaning, registering and unregistering, while dispatch() has its sets. *)
LEMMA MovesKeepBooks ==
    ASSUME Registrations, Books, UNCHANGED dispatching,
           pc' = "executing" <=> pc = "executing",
           \/ GivesNothing
           \/ \E k \in Kinds : \E E : Erases(k, E)
           \/ \E k \in Kinds : \E x : Adds(k, x) \/ Marks(k, x)
    PROVE  Books'
<1>1. toDispatch' = toDispatch /\ kind' = kind /\ todo' = todo /\ exec' = exec
  BY DEF dispatching
<1>2. CASE GivesNothing
  BY <1>1, <1>2, GivenGrows DEF Books, GivesNothing
<1>3. ASSUME NEW k \in Kinds, NEW E, Erases(k, E)
      PROVE  Books'
  <2>1. /\ E \subseteq ToSet(registered[k]) /\ E \subseteq deleteObject
        /\ E \cap toDispatch[k] = {}
        /\ freed' = freed \cup E /\ deleteObject' = deleteObject
        /\ ToSet(registered'[k]) = ToSet(registered[k]) \ E
        /\ \A j \in Kinds \ {k} : ToSet(registered'[j]) = ToSet(registered[j])
    BY <1>3 DEF Erases, Deletable
  <2>2. Given' = Given
    BY <1>3, GivenGrows
  <2>3. \A j \in Kinds \ {k} : ToSet(registered[j]) \cap E = {}
    BY <2>1, OfKinds DEF Registrations
  <2>4. \A j \in Kinds : toDispatch[j] \subseteq ToSet(registered'[j])
    BY <2>1 DEF Books
  <2>5. \A j \in Kinds : ToSet(registered'[j]) \cap freed' = {}
    BY <2>1, <2>3 DEF Books
  <2> QED BY <1>1, <2>1, <2>2, <2>4, <2>5 DEF Books
<1>4. ASSUME NEW k \in Kinds, NEW x, Adds(k, x)
      PROVE  Books'
  <2>1. /\ x \notin Given /\ freed' = freed /\ deleteObject' = deleteObject
        /\ ToSet(registered'[k]) = ToSet(registered[k]) \cup {x}
        /\ \A j \in Kinds \ {k} : ToSet(registered'[j]) = ToSet(registered[j])
    BY <1>4 DEF Adds
  <2>2. Given' = Given \cup {x} /\ x \notin freed
    BY <1>4, <2>1, GivenGrows, GivenIs
  <2> QED BY <1>1, <2>1, <2>2 DEF Books
<1>5. ASSUME NEW k \in Kinds, NEW x, Marks(k, x)
      PROVE  Books'
  <2>1. Given' = Given /\ x \in Given /\ x \in Objects
    BY <1>5, GivenGrows, GivenIs, OfKinds DEF Marks, Registrations
  <2> QED BY <1>1, <1>5, <2>1 DEF Books, Marks
<1> QED BY <1>2, <1>3, <1>4, <1>5

(* The phases put registered objects up for dispatch. *)
LEMMA DispatchKeepsBooks ==
    ASSUME Registrations, Books,
           \/ \E f \in Calls : Begin(f)
           \/ PrepareSources \/ PrepareTimeouts \/ CheckWatches \/ CheckSources
           \/ DispatchNext \/ Executed \/ DispatchKindDone
    PROVE  Books'
<1>1. /\ registered' = registered /\ freed' = freed /\ deleteObject' = deleteObject
      /\ Given' = Given
  BY DEF Begin, PrepareSources, PrepareTimeouts, CheckWatches, CheckSources,
         DispatchNext, Executed, DispatchKindDone, objects, Given
<1>2. ASSUME NEW k \in Kinds, NEW X \in SUBSET ToSet(registered[k]),
             toDispatch' = [toDispatch EXCEPT ![k] = @ \cup X],
             \/ kind' = kind /\ todo' = todo
             \/ StartDispatch,
             exec' = exec, pc # "executing", pc' # "executing"
      PROVE  Books'
  <2>1. X \subseteq Objects
    BY OfKinds DEF Registrations
  <2>2. /\ toDispatch' \in [Kinds -> SUBSET Objects]
        /\ \A j \in Kinds : toDispatch'[j] \subseteq ToSet(registered[j])
        /\ \A j \in Kinds : toDispatch[j] \subseteq toDispatch'[j]
    BY <1>2, <2>1 DEF Books
  <2>3. kind' \in Kinds /\ todo' \subseteq toDispatch'[kind']
    BY <1>2, <2>2 DEF Books, StartDispatch, Kinds
  <2> QED BY <1>1, <1>2, <2>2, <2>3 DEF Books
<1>3. CASE \E f \in Calls : Begin(f)
  <2>1. PICK f \in Calls : Begin(f)
    BY <1>3
  <2>2. pc = "idle" /\ pc' # "executing"
    BY <2>1, CallsKnown DEF Begin, Entry, At
  <2>3. /\ toDispatch' = toDispatch /\ exec' = exec
        /\ (kind' = kind /\ todo' = todo) \/ StartDispatch
    BY <2>1 DEF Begin, dispatching
  <2>4. kind' \in Kinds /\ todo' \subseteq toDispatch'[kind']
    BY <2>3 DEF Books, StartDispatch, Kinds
  <2> QED BY <1>1, <2>2, <2>3, <2>4 DEF Books
<1>4. CASE PrepareSources
  BY <1>2, <1>4 DEF PrepareSources, At, Goto, Kinds
<1>5. CASE PrepareTimeouts
  <2>1. NewlyDue \subseteq ToSet(registered["timeout"])
    BY DEF NewlyDue
  <2> QED BY <1>2, <1>5, <2>1 DEF PrepareTimeouts, At, Goto, Finish, Kinds
<1>6. CASE CheckWatches
  <2> DEFINE X == (Hot \cap ToSet(registered["watch"])) \ deleteObject
  <2>1. X \in SUBSET ToSet(registered["watch"])
    OBVIOUS
  <2> HIDE DEF X
  <2>2. /\ toDispatch' = [toDispatch EXCEPT !["watch"] = @ \cup X]
        /\ kind' = kind /\ todo' = todo /\ exec' = exec
        /\ pc # "executing" /\ pc' # "executing"
    BY <1>6 DEF CheckWatches, At, Goto, X
  <2> QED BY <1>2, <2>1, <2>2 DEF Kinds
<1>7. CASE CheckSources
  BY <1>2, <1>7 DEF CheckSources, At, Goto, Finish, Kinds
<1>8. CASE DispatchNext
  <2>1. PICK x \in todo : /\ todo' = todo \ {x}
                          /\ IF Runs(x) THEN exec' = x /\ Goto("executing")
                                        ELSE UNCHANGED exec /\ Goto("dispatch")
    BY <1>8 DEF DispatchNext
  <2>2. toDispatch' = toDispatch /\ kind' = kind /\ pc = "dispatch"
    BY <1>8 DEF DispatchNext, At
  <2>3. x \in toDispatch[kind] /\ x # None
    BY ObjectsDistinct DEF Books
  <2> QED BY <1>1, <2>1, <2>2, <2>3 DEF Books, Goto
<1>9. CASE Executed
  BY <1>1, <1>9 DEF Executed, Books, At, Goto
<1>10. CASE DispatchKindDone
  <2>1. /\ pc = "dispatch" /\ pc' # "executing" /\ exec' = exec
        /\ toDispatch' = [toDispatch EXCEPT ![kind] = {}]
    BY <1>10 DEF DispatchKindDone, At, Goto, Finish, Cleared
  <2>2. /\ toDispatch' \in [Kinds -> SUBSET Objects]
        /\ \A j \in Kinds : toDispatch'[j] \subseteq toDispatch[j]
        /\ \A j \in Kinds \ {kind} : toDispatch'[j] = toDispatch[j]
    BY <2>1 DEF Books
  <2>3. /\ kind' \in Kinds
        /\ todo' \subseteq toDispatch'[kind']
    BY <1>10, <2>2 DEF DispatchKindDone, Kinds
  <2> QED BY <1>1, <2>1, <2>2, <2>3 DEF Books
<1> QED BY <1>3, <1>4, <1>5, <1>6, <1>7, <1>8, <1>9, <1>10

ObjectInv == Registrations /\ Claims /\ Books

(* Nothing is registered at first. *)
LEMMA ObjectInvInit == Init => ObjectInv
<1> SUFFICES ASSUME Init PROVE ObjectInv
  OBVIOUS
<1>1. \A k \in Kinds : registered[k] = <<>> /\ ToSet(registered[k]) = {}
  BY DEF Init, ToSet
<1>2. Registrations
  BY <1>1 DEF Init, Registrations
<1>3. Claims
  BY DEF Init, Claims, ClientPCs
<1>4. Books
  BY <1>1 DEF Init, Books, Kinds
<1> QED BY <1>2, <1>3, <1>4 DEF ObjectInv

(* The phases other than these leave the sets to dispatch alone. *)
LEMMA OtherLoopSteps ==
    ASSUME Loop
    PROVE  \/ PrepareSources \/ PrepareTimeouts \/ CheckWatches \/ CheckSources
           \/ DispatchNext \/ Executed \/ DispatchKindDone
           \/ UNCHANGED dispatching /\ pc # "executing" /\ pc' # "executing"
<1>1. CASE CleanSources \/ CleanTimeouts \/ CleanWatches
  BY <1>1 DEF CleanSources, CleanTimeouts, CleanWatches, Clean, At, Goto, dispatching
<1>2. CASE RunTest \/ PollEnter \/ PollReturn \/ PollAck \/ CheckFds
  BY <1>2 DEF RunTest, PollEnter, PollReturn, PollAck, CheckFds, At, Goto, Finish
<1> QED BY <1>1, <1>2 DEF Loop

(* So do the clients. *)
LEMMA ClientsLeaveDispatching ==
    ASSUME NEW c \in Clients, Client(c) \/ ClientGoesOn(c)
    PROVE  UNCHANGED dispatching /\ pc' = pc
<1>1. CASE Client(c)
  BY <1>1 DEF Client, Register, UnregisterDispatchSource, UnregisterTimeout,
              RegisterWatch, UnregisterWatch, Stop, Wakeup
<1>2. CASE ClientGoesOn(c)
  BY <1>2 DEF ClientGoesOn, RegisterWatchFd, UnregisterWatchFd, UnregisterWatchMark,
              StopWake
<1> QED BY <1>1, <1>2

(* No step of the loop or of a client breaks the books. *)
LEMMA ObjectInvStep ==
    ASSUME ObjectInv, [Next]_vars
    PROVE  ObjectInv'
<1> USE DEF ObjectInv
<1>1. CASE \E f \in Calls : Begin(f)
  <2>1. GivesNothing /\ UNCHANGED clients
    BY <1>1 DEF Begin, objects, GivesNothing
  <2> QED BY <1>1, <2>1, MovesKeepRegistrations, MovesKeepClaims, DispatchKeepsBooks
<1>2. CASE Loop
  <2>1. Registrations' /\ Claims'
    BY <1>2, LoopMoves, MovesKeepRegistrations, MovesKeepClaims
  <2>2. Books'
    <3>1. CASE UNCHANGED dispatching /\ pc # "executing" /\ pc' # "executing"
      BY <1>2, <3>1, LoopMoves, MovesKeepBooks
    <3> QED BY <1>2, <3>1, OtherLoopSteps, DispatchKeepsBooks
  <2> QED BY <2>1, <2>2
<1>3. ASSUME NEW c \in Clients, Client(c) \/ ClientGoesOn(c)
      PROVE  ObjectInv'
  BY <1>3, ClientMoves, ClientsLeaveDispatching, MovesKeepRegistrations,
     ClientKeepsClaims, MovesKeepBooks
<1>4. CASE BecomesDue \/ BecomesReadable \/ UNCHANGED vars
  <2>1. GivesNothing /\ UNCHANGED clients /\ UNCHANGED dispatching /\ pc' = pc
    BY <1>4 DEF BecomesDue, BecomesReadable, vars, objects, clients, dispatching,
                GivesNothing
  <2> QED BY <2>1, MovesKeepRegistrations, MovesKeepClaims, MovesKeepBooks
<1> QED BY <1>1, <1>2, <1>3, <1>4 DEF Next

(* The books are right in every state. *)
LEMMA ObjectsInOrder == Spec => []ObjectInv
BY ObjectInvInit, ObjectInvStep, PTL DEF Spec

(* The loop keeps no pointer to an object it has deleted, whatever is
   registered and unregistered, in callbacks or by other threads, and in
   whatever order the phases are called.                                   *)
THEOREM NoUseAfterFree == Spec => []NothingFreedInUse
<1>1. ObjectInv => NothingFreedInUse
  <2> SUFFICES ASSUME ObjectInv PROVE NothingFreedInUse
    OBVIOUS
  <2>1. None \notin freed
    BY ObjectsDistinct DEF ObjectInv, Books
  <2> QED BY <2>1 DEF ObjectInv, Books, NothingFreedInUse
<1> QED BY <1>1, ObjectsInOrder, PTL

-----------------------------------------------------------------------------
(* The descriptors                                                         *)

Linked ==
    /\ fds \in Seq(Descriptors) /\ Len(fds) >= 1 /\ fds[1].fd = Wake
    /\ DescriptorsLinked
    /\ \A c \in Clients : cpc[c] = "unwatchMark" =>
          \A i \in 1..Len(fds) : fds[i].fd # carg[c]

LiveWatches == ToSet(registered["watch"]) \ deleteObject

(* It matters only which descriptors stand where. *)
LEMMA SameDescriptors ==
    ASSUME Linked,
           fds' \in Seq(Descriptors), Len(fds') = Len(fds),
           \A i \in 1..Len(fds) : fds'[i].fd = fds[i].fd,
           LiveWatches \subseteq LiveWatches',
           \A c \in Clients : cpc'[c] = "unwatchMark" =>
              cpc[c] = "unwatchMark" /\ carg'[c] = carg[c]
    PROVE  Linked'
<1>1. Len(fds) \in Nat
  BY DEF Linked
<1>2. DescriptorsLinked'
  BY <1>1 DEF Linked, DescriptorsLinked, LiveWatches
<1> QED BY <1>1, <1>2 DEF Linked

(* No move but the marking of a watch takes a watch away. *)
LEMMA MovesKeepLiveWatches ==
    ASSUME Registrations,
           \/ GivesNothing
           \/ \E k \in Kinds : \E E : Erases(k, E)
           \/ \E k \in Kinds : \E x : Adds(k, x)
           \/ \E k \in {"source", "timeout"} : \E x : Marks(k, x)
    PROVE  LiveWatches \subseteq LiveWatches'
<1>1. CASE GivesNothing
  BY <1>1 DEF GivesNothing, LiveWatches
<1>2. ASSUME NEW k \in Kinds, NEW E, Erases(k, E)
      PROVE  LiveWatches \subseteq LiveWatches'
  BY <1>2 DEF Erases, Deletable, LiveWatches, Kinds
<1>3. ASSUME NEW k \in Kinds, NEW x, Adds(k, x)
      PROVE  LiveWatches \subseteq LiveWatches'
  BY <1>3 DEF Adds, LiveWatches, Kinds
<1>4. ASSUME NEW k \in {"source", "timeout"}, NEW x, Marks(k, x)
      PROVE  LiveWatches \subseteq LiveWatches'
  <2>1. x \notin ToSet(registered["watch"])
    BY <1>4, OfKinds DEF Marks, Registrations, Kinds
  <2> QED BY <1>4, <2>1 DEF Marks, LiveWatches
<1> QED BY <1>1, <1>2, <1>3, <1>4

(* ::poll writes into the vector but moves no descriptor. *)
LEMMA AnswersKeepDescriptors ==
    ASSUME Linked, NEW r \in [1..Len(fds) -> BOOLEAN],
           fds' = [i \in 1..Len(fds) |-> [fds[i] EXCEPT !.revents = r[i]]]
    PROVE  /\ fds' \in Seq(Descriptors) /\ Len(fds') = Len(fds)
           /\ \A i \in 1..Len(fds) : /\ fds'[i].fd = fds[i].fd
                                     /\ fds'[i].revents = r[i]
<1>1. Len(fds) \in Nat /\ DOMAIN fds = 1..Len(fds)
  BY DEF Linked
<1>2. \A i \in 1..Len(fds) : fds[i] \in Descriptors
  BY DEF Linked
<1>3. \A i \in 1..Len(fds) : /\ fds'[i] \in Descriptors
                             /\ fds'[i].fd = fds[i].fd /\ fds'[i].revents = r[i]
  BY <1>1, <1>2 DEF Descriptors
<1>4. fds' \in Seq(Descriptors) /\ Len(fds') = Len(fds)
  <2>1. fds' \in [1..Len(fds) -> Descriptors]
    BY <1>1, <1>3
  <2> QED BY <1>1, <2>1
<1> QED BY <1>3, <1>4

(* The loop changes the revents of descriptors, never their watches. *)
LEMMA LoopKeepsLinked ==
    ASSUME ObjectInv, Linked, Loop
    PROVE  Linked'
<1>1. LiveWatches \subseteq LiveWatches' /\ cpc' = cpc /\ carg' = carg
  BY LoopMoves, MovesKeepLiveWatches DEF ObjectInv, clients
<1>2. CASE PollEnter
  <2>1. fds' = [i \in DOMAIN fds |-> [fds[i] EXCEPT !.revents = FALSE]]
    BY <1>2 DEF PollEnter, NoRevents
  <2>2. /\ fds' \in Seq(Descriptors) /\ Len(fds') = Len(fds)
        /\ \A i \in 1..Len(fds) : fds'[i].fd = fds[i].fd
    <3> DEFINE r == [i \in 1..Len(fds) |-> FALSE]
    <3>1. r \in [1..Len(fds) -> BOOLEAN]
      OBVIOUS
    <3>2. fds' = [i \in 1..Len(fds) |-> [fds[i] EXCEPT !.revents = r[i]]]
      <4>1. DOMAIN fds = 1..Len(fds)
        BY DEF Linked
      <4>2. \A i \in 1..Len(fds) : r[i] = FALSE
        OBVIOUS
      <4> HIDE DEF r
      <4> QED BY <2>1, <4>1, <4>2, Zenon
    <3> HIDE DEF r
    <3> QED BY <3>1, <3>2, AnswersKeepDescriptors
  <2> QED BY <1>1, <2>2, SameDescriptors
<1>3. CASE PollReturn
  <2>1. CASE moved
    <3>1. fds' = fds
      BY <1>3, <2>1 DEF PollReturn
    <3> QED BY <1>1, <3>1, SameDescriptors DEF Linked
  <2>2. CASE ~moved
    <3>1. fds' = [i \in DOMAIN fds |->
                    [fds[i] EXCEPT !.revents = fds[i].revents \/ i \in ReadyFds]]
      BY <1>3, <2>2 DEF PollReturn
    <3>2. /\ fds' \in Seq(Descriptors) /\ Len(fds') = Len(fds)
          /\ \A i \in 1..Len(fds) : fds'[i].fd = fds[i].fd
      <4> DEFINE r == [i \in 1..Len(fds) |-> fds[i].revents \/ i \in ReadyFds]
      <4>1. r \in [1..Len(fds) -> BOOLEAN]
        OBVIOUS
      <4>2. fds' = [i \in 1..Len(fds) |-> [fds[i] EXCEPT !.revents = r[i]]]
        BY <3>1 DEF Linked
      <4> HIDE DEF r
      <4> QED BY <4>1, <4>2, AnswersKeepDescriptors
    <3> QED BY <1>1, <3>2, SameDescriptors
  <2> QED BY <2>1, <2>2
<1>4. CASE fds' = fds
  BY <1>1, <1>4, SameDescriptors DEF Linked
<1>5. CASE CleanSources \/ CleanTimeouts \/ CleanWatches
  BY <1>4, <1>5 DEF CleanSources, CleanTimeouts, CleanWatches, Clean, polling
<1>6. CASE RunTest \/ PrepareSources \/ PrepareTimeouts \/ PollAck \/ CheckFds
  BY <1>4, <1>6 DEF RunTest, PrepareSources, PrepareTimeouts, PollAck, CheckFds, polling
<1>7. CASE CheckWatches \/ CheckSources \/ DispatchNext \/ Executed \/ DispatchKindDone
  BY <1>4, <1>7 DEF CheckWatches, CheckSources, DispatchNext, Executed,
                    DispatchKindDone, polling
<1> QED BY <1>2, <1>3, <1>5, <1>6, <1>7 DEF Loop

(* A client adds a descriptor with its watch, and takes it out before the
   watch is marked.                                                         *)
LEMMA ClientKeepsLinked ==
    ASSUME ObjectInv, Linked, NEW c \in Clients, Client(c) \/ ClientGoesOn(c)
    PROVE  Linked'
<1>0. /\ Registrations /\ Claims
      /\ cpc \in [Clients -> ClientPCs] /\ carg \in [Clients -> Objects \cup {None}]
      /\ fds \in Seq(Descriptors) /\ Len(fds) \in Nat /\ Len(fds) >= 1
  BY DEF ObjectInv, Claims, Linked
<1>1. ASSUME LiveWatches \subseteq LiveWatches', fds' = fds,
             \A d \in Clients : cpc'[d] = "unwatchMark" =>
                cpc[d] = "unwatchMark" /\ carg'[d] = carg[d]
      PROVE  Linked'
  BY <1>0, <1>1, SameDescriptors
<1>2. CASE \E k \in {"source", "timeout"} : Register(c, k)
  <2>1. LiveWatches \subseteq LiveWatches'
    BY <1>0, <1>2, RegisterAdds, MovesKeepLiveWatches DEF Kinds
  <2> QED BY <1>1, <1>2, <2>1 DEF Register, clients, polling
<1>3. CASE UnregisterDispatchSource(c) \/ UnregisterTimeout(c)
  <2>1. \E k \in {"source", "timeout"} : \E x : Marks(k, x)
    BY <1>3 DEF UnregisterDispatchSource, UnregisterTimeout, Live, Marks
  <2>2. LiveWatches \subseteq LiveWatches'
    BY <1>0, <2>1, MovesKeepLiveWatches
  <2> QED BY <1>1, <1>3, <2>2 DEF UnregisterDispatchSource, UnregisterTimeout,
                                  clients, polling
<1>4. CASE RegisterWatch(c) \/ UnregisterWatch(c) \/ Stop(c) \/ StopWake(c) \/ Wakeup(c)
  <2>1. LiveWatches' = LiveWatches /\ fds' = fds
    BY <1>4 DEF RegisterWatch, UnregisterWatch, Stop, StopWake, Wakeup, objects,
                polling, LiveWatches
  <2>2. /\ \A d \in Clients \ {c} : cpc'[d] = cpc[d] /\ carg'[d] = carg[d]
        /\ cpc'[c] # "unwatchMark"
    BY <1>0, <1>4 DEF RegisterWatch, UnregisterWatch, Stop, StopWake, Wakeup, clients,
                      Free
  <2> QED BY <1>1, <2>1, <2>2
<1>5. CASE RegisterWatchFd(c)
  <2> DEFINE w == carg[c]
             p == [fd |-> w, revents |-> FALSE]
  <2>1. w \in Watches \ Given /\ Adds("watch", w)
    BY <1>0, <1>5, RegisterWatchFdAdds
  <2>2. /\ fds' = Append(fds, p)
        /\ cpc' = [cpc EXCEPT ![c] = "idle"] /\ carg' = [carg EXCEPT ![c] = None]
    BY <1>5 DEF RegisterWatchFd
  <2>3. p \in Descriptors
    BY <2>1 DEF Descriptors
  <2>4. /\ fds' \in Seq(Descriptors) /\ Len(fds') = Len(fds) + 1
        /\ \A i \in 1..Len(fds) : fds'[i] = fds[i]
        /\ fds'[Len(fds) + 1].fd = w
    <3> HIDE DEF p
    <3>1. /\ fds' \in Seq(Descriptors) /\ Len(fds') = Len(fds) + 1
          /\ \A i \in 1..Len(fds) : fds'[i] = fds[i]
          /\ fds'[Len(fds) + 1] = p
      BY <1>0, <2>2, <2>3
    <3> QED BY <3>1 DEF p
  <2>5. w \notin LiveWatches /\ LiveWatches \cup {w} \subseteq LiveWatches'
    <3>1. w \notin ToSet(registered["watch"]) /\ w \notin deleteObject
      BY <2>1, GivenIs DEF Kinds, ObjectInv, Books
    <3> QED BY <2>1, <3>1 DEF Adds, LiveWatches
  <2> HIDE DEF w, p
  <2>6. \A i \in 2..Len(fds) : fds[i].fd \in LiveWatches /\ fds[i].fd # w
    BY <2>5 DEF Linked, DescriptorsLinked, LiveWatches
  <2>7. \A i \in 2..Len(fds') : fds'[i].fd \in LiveWatches'
    BY <1>0, <2>4, <2>5, <2>6
  <2>8. \A i, j \in 2..Len(fds') : fds'[i].fd = fds'[j].fd => i = j
    BY <1>0, <2>4, <2>6 DEF Linked, DescriptorsLinked
  <2>9. ASSUME NEW d \in Clients, cpc'[d] = "unwatchMark", NEW i \in 1..Len(fds')
        PROVE  fds'[i].fd # carg'[d]
    <3>1. d # c /\ cpc[d] = "unwatchMark" /\ carg'[d] = carg[d]
      BY <1>0, <2>2, <2>9
    <3>2. carg[d] # w
      BY <2>1, <3>1, OfKinds DEF ObjectInv, Claims, w, Kinds
    <3> QED BY <1>0, <2>4, <3>1, <3>2 DEF Linked
  <2>10. DescriptorsLinked'
    BY <2>7, <2>8 DEF DescriptorsLinked, LiveWatches
  <2> QED BY <1>0, <2>4, <2>9, <2>10 DEF Linked
<1>6. CASE UnregisterWatchFd(c)
  <2> DEFINE w == carg[c]
  <2>1. /\ fds' = WithoutFd(w) /\ cpc[c] = "unwatchFd"
        /\ cpc' = [cpc EXCEPT ![c] = "unwatchMark"] /\ carg' = carg
        /\ LiveWatches' = LiveWatches
    BY <1>6 DEF UnregisterWatchFd, objects, LiveWatches
  <2>2. w \in Watches /\ fds[1].fd # w
    BY <1>0, <2>1, OfKinds DEF Claims, Registrations, Linked, Kinds
  <2> HIDE DEF w
  <2>3. PICK e \in 2..(Len(fds) + 1) :
           /\ fds' \in Seq(Descriptors)
           /\ Len(fds') = IF e =< Len(fds) THEN Len(fds) - 1 ELSE Len(fds)
           /\ \A i \in 1..Len(fds') : fds'[i] = fds[IF i < e THEN i ELSE i + 1]
           /\ e =< Len(fds) => fds[e].fd = w
           /\ e > Len(fds) => \A i \in 1..Len(fds) : fds[i].fd # w
    BY <1>0, <2>1, <2>2, RemovedFd
  <2>4. ASSUME NEW i \in 2..Len(fds')
        PROVE  \E m \in 2..Len(fds) : m # e /\ m = (IF i < e THEN i ELSE i + 1)
                                      /\ fds'[i] = fds[m]
    BY <1>0, <2>3
  <2>5. Len(fds') >= 1 /\ fds'[1] = fds[1]
    BY <1>0, <2>3
  <2>6. /\ \A i \in 2..Len(fds) : fds[i].fd \in LiveWatches
        /\ \A i, j \in 2..Len(fds) : fds[i].fd = fds[j].fd => i = j
    BY DEF Linked, DescriptorsLinked, LiveWatches
  <2>7. \A i \in 2..Len(fds') : fds'[i].fd \in LiveWatches'
    BY <2>1, <2>4, <2>6
  <2>8. ASSUME NEW i \in 2..Len(fds'), NEW j \in 2..Len(fds'), fds'[i].fd = fds'[j].fd
        PROVE  i = j
    <3>1. PICK m \in 2..Len(fds) : m # e /\ m = (IF i < e THEN i ELSE i + 1)
                                   /\ fds'[i] = fds[m]
      BY <2>4
    <3>2. PICK n \in 2..Len(fds) : n # e /\ n = (IF j < e THEN j ELSE j + 1)
                                   /\ fds'[j] = fds[n]
      BY <2>4
    <3>3. m = n
      BY <2>6, <2>8, <3>1, <3>2
    <3> QED BY <1>0, <2>3, <3>1, <3>2, <3>3
  <2>9. \A i \in 1..Len(fds') : fds'[i].fd # w
    <3>1. ASSUME NEW i \in 2..Len(fds'), fds'[i].fd = w PROVE FALSE
      <4>1. PICK m \in 2..Len(fds) : m # e /\ fds'[i] = fds[m]
        BY <2>4
      <4> QED BY <1>0, <2>3, <2>6, <3>1, <4>1
    <3> QED BY <1>0, <2>2, <2>3, <2>5, <3>1
  <2>10. ASSUME NEW d \in Clients, d # c, cpc[d] = "unwatchMark", NEW i \in 1..Len(fds')
         PROVE  fds'[i].fd # carg[d]
    <3>1. \E m \in 1..Len(fds) : fds'[i] = fds[m]
      BY <1>0, <2>3, <2>4, <2>5
    <3> QED BY <2>10, <3>1 DEF Linked
  <2>11. DescriptorsLinked'
    BY <2>7, <2>8 DEF DescriptorsLinked, LiveWatches
  <2> QED BY <1>0, <2>1, <2>3, <2>5, <2>9, <2>10, <2>11 DEF Linked, w
<1>7. CASE UnregisterWatchMark(c)
  <2>1. /\ cpc[c] = "unwatchMark" /\ fds' = fds
        /\ cpc' = [cpc EXCEPT ![c] = "idle"] /\ carg' = [carg EXCEPT ![c] = None]
        /\ LiveWatches' = LiveWatches \ {carg[c]}
    BY <1>7 DEF UnregisterWatchMark, polling, LiveWatches
  <2>2. \A i \in 1..Len(fds) : fds[i].fd # carg[c]
    BY <2>1 DEF Linked
  <2>3. DescriptorsLinked'
    BY <1>0, <2>1, <2>2 DEF Linked, DescriptorsLinked, LiveWatches
  <2> QED BY <1>0, <2>1, <2>3 DEF Linked
<1> QED BY <1>2, <1>3, <1>4, <1>5, <1>6, <1>7 DEF Client, ClientGoesOn

(* The first descriptor is the loop's own. *)
LEMMA LinkedInit == Init => Linked
<1> SUFFICES ASSUME Init PROVE Linked
  OBVIOUS
<1>1. /\ fds = <<[fd |-> Wake, revents |-> FALSE]>> /\ Len(fds) = 1
      /\ fds[1] = [fd |-> Wake, revents |-> FALSE]
  BY DEF Init
<1>2. fds \in Seq(Descriptors)
  BY <1>1 DEF Descriptors
<1> QED BY <1>1, <1>2 DEF Init, Linked, DescriptorsLinked

(* Every step keeps descriptors and watches together. *)
LEMMA LinkedStep ==
    ASSUME ObjectInv, Linked, [Next]_vars
    PROVE  Linked'
<1>1. CASE (\E f \in Calls : Begin(f)) \/ BecomesDue \/ BecomesReadable \/ UNCHANGED vars
  <2>1. /\ fds' = fds /\ cpc' = cpc /\ carg' = carg /\ LiveWatches' = LiveWatches
    BY <1>1 DEF Begin, BecomesDue, BecomesReadable, vars, objects, clients, polling,
                LiveWatches
  <2> QED BY <2>1, SameDescriptors DEF Linked
<1> QED BY <1>1, LoopKeepsLinked, ClientKeepsLinked DEF Next

(* Every descriptor but the first one belongs to one registered watch, while
   watches come and go during check() and ::poll.                          *)
THEOREM DescriptorsBelongToWatches == Spec => []DescriptorsLinked
<1>1. Linked => DescriptorsLinked
  BY DEF Linked
<1> QED BY <1>1, LinkedInit, LinkedStep, ObjectsInOrder, PTL DEF Spec

-----------------------------------------------------------------------------
(* The answers of ::poll                                                   *)

(* As long as no watch was unregistered during the ::poll, the vector has the
   descriptors that were polled in front, and an answer only for a descriptor
   that was reported.                                                      *)
Answers ==
    /\ polled \in Seq(Watches \cup {Wake})
    /\ ~shifted => \A i \in 2..Len(fds) : fds[i].revents => fds[i].fd \in reported
    /\ pc = "polling" => reported = {}
    /\ pc = "polling" /\ ~shifted =>
          /\ Len(polled) =< Len(fds)
          /\ \A i \in 1..Len(polled) : polled[i] = fds[i].fd

(* There is no answer before the first ::poll. *)
LEMMA AnswersInit == Init => Answers
<1> SUFFICES ASSUME Init PROVE Answers
  OBVIOUS
<1>1. Len(fds) = 1 /\ polled = <<>>
  BY DEF Init
<1> QED BY <1>1 DEF Init, Answers

(* poll() forgets the old answers and remembers the descriptors it asks for. *)
LEMMA PollEnterKeepsAnswers ==
    ASSUME Linked, PollEnter
    PROVE  Answers'
<1>1. /\ fds \in Seq(Descriptors) /\ Len(fds) \in Nat /\ DOMAIN fds = 1..Len(fds)
      /\ \A i \in 1..Len(fds) : fds[i] \in Descriptors
  BY DEF Linked
<1>2. /\ fds' = [i \in 1..Len(fds) |-> [fds[i] EXCEPT !.revents = FALSE]]
      /\ polled' = [i \in 1..Len(fds) |-> fds[i].fd]
      /\ reported' = {}
  BY <1>1 DEF PollEnter, NoRevents
<1>3. /\ Len(fds') = Len(fds)
      /\ \A i \in 1..Len(fds) : fds'[i].fd = fds[i].fd /\ fds'[i].revents = FALSE
  BY <1>1, <1>2 DEF Descriptors
<1>4. /\ polled' \in Seq(Watches \cup {Wake}) /\ Len(polled') = Len(fds)
      /\ \A i \in 1..Len(fds) : polled'[i] = fds[i].fd
  <2>1. \A i \in 1..Len(fds) : fds[i].fd \in Watches \cup {Wake}
    BY <1>1 DEF Descriptors
  <2> QED BY <1>1, <1>2, <2>1
<1> QED BY <1>1, <1>2, <1>3, <1>4 DEF Answers

(* The kernel's answers reach the descriptors they are for, if none was
   taken out meanwhile.                                                     *)
LEMMA PollReturnKeepsAnswers ==
    ASSUME ObjectInv, Linked, Answers, PollReturn
    PROVE  Answers'
<1>1. /\ pc = "polling" /\ pc' # "polling" /\ reported = {} /\ polled' = <<>>
      /\ shifted' = shifted
      /\ reported' = {polled[i] : i \in ReadyFds} \ {Wake}
  BY DEF PollReturn, At, Goto, Answers
<1>2. ASSUME ~shifted, NEW i \in 2..Len(fds'), fds'[i].revents
      PROVE  fds'[i].fd \in reported'
  <2>1. /\ Len(fds) \in Nat /\ DOMAIN fds = 1..Len(fds)
        /\ \A j \in 1..Len(fds) : fds[j] \in Descriptors
    BY DEF Linked
  <2>2. \A j \in 2..Len(fds) : ~fds[j].revents
    BY <1>1, <1>2 DEF Answers
  <2>3. CASE moved
    <3>1. fds' = fds
      BY <2>3 DEF PollReturn
    <3> QED BY <1>2, <2>2, <3>1
  <2>4. CASE ~moved
    <3>1. fds' = [j \in 1..Len(fds) |->
                    [fds[j] EXCEPT !.revents = fds[j].revents \/ j \in ReadyFds]]
      BY <2>1, <2>4 DEF PollReturn
    <3>2. /\ Len(fds') = Len(fds)
          /\ \A j \in 1..Len(fds) : /\ fds'[j].fd = fds[j].fd
                                    /\ fds'[j].revents => fds[j].revents \/ j \in ReadyFds
      BY <2>1, <3>1 DEF Descriptors
    <3>3. i \in 2..Len(fds) /\ i \in ReadyFds
      BY <1>2, <2>1, <2>2, <3>2
    <3>4. i \in DOMAIN polled /\ DOMAIN polled = 1..Len(polled)
      BY <3>3 DEF ReadyFds, Answers
    <3>5. polled[i] = fds[i].fd
      BY <1>1, <1>2, <3>4 DEF Answers
    <3>6. fds[i].fd # Wake
      BY <3>3, OfKinds DEF Linked, DescriptorsLinked, ObjectInv, Registrations, Kinds
    <3> QED BY <1>1, <2>1, <3>2, <3>3, <3>5, <3>6
  <2> QED BY <2>3, <2>4
<1> QED BY <1>1, <1>2 DEF Answers

(* A descriptor that is appended moves no other. *)
LEMMA RegisterWatchFdKeepsAnswers ==
    ASSUME ObjectInv, Linked, Answers, NEW c \in Clients, RegisterWatchFd(c)
    PROVE  Answers'
<1> DEFINE p == [fd |-> carg[c], revents |-> FALSE]
<1>1. /\ fds \in Seq(Descriptors) /\ Len(fds) \in Nat /\ Len(polled) \in Nat
  BY DEF Linked, Answers
<1>2. /\ fds' = Append(fds, p) /\ polled' = polled /\ pc' = pc
      /\ shifted' = shifted /\ reported' = reported
  BY DEF RegisterWatchFd
<1>3. ~p.revents
  OBVIOUS
<1>4. p \in Descriptors
  BY RegisterWatchFdAdds DEF Descriptors, ObjectInv
<1> HIDE DEF p
<1>5. /\ Len(fds') = Len(fds) + 1 /\ fds'[Len(fds) + 1] = p
      /\ \A i \in 1..Len(fds) : fds'[i] = fds[i]
  BY <1>1, <1>2, <1>4
<1>6. ASSUME ~shifted, NEW i \in 2..Len(fds'), fds'[i].revents
      PROVE  fds'[i].fd \in reported
  <2>1. i # Len(fds) + 1
    BY <1>3, <1>5, <1>6
  <2>2. i \in 2..Len(fds) /\ fds'[i] = fds[i]
    BY <1>1, <1>5, <2>1
  <2> QED BY <1>6, <2>2 DEF Answers
<1>7. ASSUME pc = "polling", ~shifted
      PROVE  /\ Len(polled) =< Len(fds')
             /\ \A i \in 1..Len(polled) : polled[i] = fds'[i].fd
  <2>1. /\ Len(polled) =< Len(fds)
        /\ \A i \in 1..Len(polled) : polled[i] = fds[i].fd
    BY <1>7 DEF Answers
  <2> QED BY <1>1, <1>5, <2>1
<1> QED BY <1>2, <1>6, <1>7 DEF Answers

(* One that is taken out while ::poll runs shifts those behind it; at other
   times they keep their revents.                                           *)
LEMMA UnregisterWatchFdKeepsAnswers ==
    ASSUME ObjectInv, Linked, Answers, NEW c \in Clients, UnregisterWatchFd(c)
    PROVE  Answers'
<1> DEFINE w == carg[c]
<1>1. /\ fds \in Seq(Descriptors) /\ Len(fds) \in Nat /\ Len(fds) >= 1
  BY DEF Linked
<1>2. /\ fds' = WithoutFd(w) /\ polled' = polled /\ pc' = pc
      /\ reported' = reported /\ shifted' = (shifted \/ pc = "polling")
  BY DEF UnregisterWatchFd, At
<1>3. fds[1].fd # w
  BY OfKinds DEF UnregisterWatchFd, ObjectInv, Claims, Registrations, Linked, Kinds
<1> HIDE DEF w
<1>4. PICK e \in 2..(Len(fds) + 1) :
         /\ Len(fds') = IF e =< Len(fds) THEN Len(fds) - 1 ELSE Len(fds)
         /\ \A i \in 1..Len(fds') : fds'[i] = fds[IF i < e THEN i ELSE i + 1]
  BY <1>1, <1>2, <1>3, RemovedFd
<1>5. \A i \in 2..Len(fds') : \E m \in 2..Len(fds) : fds'[i] = fds[m]
  BY <1>1, <1>4
<1>6. ~shifted' => ~shifted /\ pc # "polling"
  BY <1>2, Zenon
<1>7. ~shifted' => \A i \in 2..Len(fds') : fds'[i].revents => fds'[i].fd \in reported
  BY <1>5, <1>6 DEF Answers
<1> QED BY <1>2, <1>6, <1>7 DEF Answers

(* Nothing else touches the vector or what was polled. *)
LEMMA OthersLeavePolling ==
    ASSUME [Next]_vars
    PROVE  \/ PollEnter \/ PollReturn
           \/ \E c \in Clients : RegisterWatchFd(c) \/ UnregisterWatchFd(c)
           \/ UNCHANGED polling /\ (pc' = "polling" => pc = "polling")
<1>1. CASE \E f \in Calls : Begin(f)
  BY <1>1, CallsKnown DEF Begin, Entry
<1>2. CASE Loop
  <2>1. CASE CleanSources \/ CleanTimeouts \/ CleanWatches
    BY <2>1 DEF CleanSources, CleanTimeouts, CleanWatches, Clean, Goto
  <2>2. CASE RunTest \/ PrepareSources \/ PrepareTimeouts \/ PollAck \/ CheckFds
    BY <2>2 DEF RunTest, PrepareSources, PrepareTimeouts, PollAck, CheckFds, Goto, Finish
  <2>3. CASE CheckWatches \/ CheckSources \/ DispatchNext \/ Executed \/ DispatchKindDone
    BY <2>3 DEF CheckWatches, CheckSources, DispatchNext, Executed, DispatchKindDone,
                Goto, Finish
  <2> QED BY <1>2, <2>1, <2>2, <2>3 DEF Loop
<1>3. ASSUME NEW c \in Clients, Client(c) \/ ClientGoesOn(c)
      PROVE  \/ RegisterWatchFd(c) \/ UnregisterWatchFd(c)
             \/ UNCHANGED polling /\ pc' = pc
  <2>1. CASE Client(c)
    BY <2>1 DEF Client, Register, UnregisterDispatchSource, UnregisterTimeout,
                RegisterWatch, UnregisterWatch, Stop, Wakeup
  <2>2. CASE UnregisterWatchMark(c) \/ StopWake(c)
    BY <2>2 DEF UnregisterWatchMark, StopWake
  <2> QED BY <1>3, <2>1, <2>2 DEF ClientGoesOn
<1>4. CASE BecomesDue \/ BecomesReadable \/ UNCHANGED vars
  BY <1>4 DEF BecomesDue, BecomesReadable, vars, polling
<1> QED BY <1>1, <1>2, <1>3, <1>4 DEF Next

(* Every step keeps answers and descriptors together. *)
LEMMA AnswersStep ==
    ASSUME ObjectInv, Linked, Answers, [Next]_vars
    PROVE  Answers'
<1>1. CASE UNCHANGED polling /\ (pc' = "polling" => pc = "polling")
  BY <1>1 DEF Answers, polling
<1> QED BY <1>1, OthersLeavePolling, PollEnterKeepsAnswers, PollReturnKeepsAnswers,
           RegisterWatchFdKeepsAnswers, UnregisterWatchFdKeepsAnswers

(* The answers are right in every state. *)
LEMMA AnswersInOrder == Spec => [](ObjectInv /\ Linked /\ Answers)
BY ObjectInvInit, ObjectInvStep, LinkedInit, LinkedStep, AnswersInit, AnswersStep, PTL
   DEF Spec

(* Only check() puts watches up for dispatch. *)
LEMMA OthersPutUpNoWatch ==
    ASSUME ObjectInv, [Next]_vars
    PROVE  CheckWatches \/ toDispatch'["watch"] \subseteq toDispatch["watch"]
<1>0. toDispatch \in [Kinds -> SUBSET Objects] /\ kind \in Kinds
  BY DEF ObjectInv, Books
<1>1. CASE UNCHANGED dispatching
  BY <1>1 DEF dispatching
<1>2. CASE PrepareSources \/ CheckSources
  BY <1>0, <1>2 DEF PrepareSources, CheckSources, Kinds
<1>3. CASE PrepareTimeouts
  BY <1>0, <1>3 DEF PrepareTimeouts, Kinds
<1>4. CASE DispatchNext \/ Executed
  BY <1>4 DEF DispatchNext, Executed
<1>5. CASE DispatchKindDone
  BY <1>0, <1>5 DEF DispatchKindDone, Cleared, Kinds
<1>6. CASE \E f \in Calls : Begin(f)
  BY <1>6 DEF Begin, dispatching
<1>7. CASE BecomesDue \/ BecomesReadable \/ UNCHANGED vars
  BY <1>7 DEF BecomesDue, BecomesReadable, vars, dispatching
<1> QED BY <1>1, <1>2, <1>3, <1>4, <1>5, <1>6, <1>7, OtherLoopSteps,
           ClientsLeaveDispatching DEF Next

(* A watch is put up for dispatch only for an answer of its own, in whatever
   order the phases are called, unless another watch was unregistered while
   ::poll was running.                                                     *)
THEOREM DispatchForOwnAnswer == Spec => ReportedUnlessShifted
<1>1. ASSUME ObjectInv, Linked, Answers, [Next]_vars, ~shifted
      PROVE  toDispatch'["watch"] \ toDispatch["watch"] \subseteq reported
  <2>1. CASE CheckWatches
    <3>1. toDispatch'["watch"] \ toDispatch["watch"] \subseteq Hot
      BY <1>1, <2>1 DEF CheckWatches, ObjectInv, Books, Kinds
    <3>2. Hot \subseteq reported
      BY <1>1 DEF Hot, Answers
    <3> QED BY <3>1, <3>2
  <2> QED BY <1>1, <2>1, OthersPutUpNoWatch
<1> QED BY <1>1, AnswersInOrder, PTL DEF Spec, ReportedUnlessShifted

-----------------------------------------------------------------------------
(* The promise                                                             *)

(* What erasing, adding and marking do to the status of each object. *)
LEMMA StatusMoves ==
    ASSUME ObjectInv, NEW k \in Kinds
    PROVE  /\ GivesNothing => \A y : Status(y)' = Status(y)
           /\ \A E : Erases(k, E) =>
                 \A y : /\ y \in E => Status(y) = "unregistered" /\ y # exec
                        /\ Status(y)' = IF y \in E THEN "freed" ELSE Status(y)
           /\ \A x : Adds(k, x) =>
                 \A y : /\ Status(x) = "new"
                        /\ Status(y)' = IF y = x THEN "registered" ELSE Status(y)
           /\ \A x : Marks(k, x) =>
                 \A y : /\ Status(x) = "registered"
                        /\ Status(y)' = IF y = x THEN "unregistered" ELSE Status(y)
<1>0. /\ \A j \in Kinds : ToSet(registered[j]) \cap freed = {}
      /\ deleteObject \subseteq Given /\ freed \subseteq deleteObject
  BY DEF ObjectInv, Books
<1>1. GivesNothing => \A y : Status(y)' = Status(y)
  BY DEF GivesNothing, Status
<1>2. ASSUME NEW E, Erases(k, E), NEW y
      PROVE  /\ y \in E => Status(y) = "unregistered" /\ y # exec
             /\ Status(y)' = IF y \in E THEN "freed" ELSE Status(y)
  <2>1. /\ E \subseteq ToSet(registered[k]) /\ E \subseteq deleteObject
        /\ y \in E => y # exec
        /\ freed' = freed \cup E /\ deleteObject' = deleteObject
        /\ ToSet(registered'[k]) = ToSet(registered[k]) \ E
        /\ \A j \in Kinds \ {k} : ToSet(registered'[j]) = ToSet(registered[j])
    BY <1>2 DEF Erases, Deletable
  <2>2. CASE y \in E
    BY <1>0, <2>1, <2>2 DEF Status
  <2>3. CASE y \notin E
    BY <2>1, <2>3 DEF Status
  <2> QED BY <2>2, <2>3
<1>3. ASSUME NEW x, Adds(k, x), NEW y
      PROVE  /\ Status(x) = "new"
             /\ Status(y)' = IF y = x THEN "registered" ELSE Status(y)
  <2>1. /\ x \notin freed /\ x \notin deleteObject
        /\ \A j \in Kinds : x \notin ToSet(registered[j])
    BY <1>0, <1>3, GivenIs DEF Adds
  <2>2. /\ freed' = freed /\ deleteObject' = deleteObject
        /\ ToSet(registered'[k]) = ToSet(registered[k]) \cup {x}
        /\ \A j \in Kinds \ {k} : ToSet(registered'[j]) = ToSet(registered[j])
    BY <1>3 DEF Adds
  <2> QED BY <2>1, <2>2 DEF Status
<1>4. ASSUME NEW x, Marks(k, x), NEW y
      PROVE  /\ Status(x) = "registered"
             /\ Status(y)' = IF y = x THEN "unregistered" ELSE Status(y)
  BY <1>0, <1>4 DEF Marks, Status
<1> QED BY <1>1, <1>2, <1>3, <1>4

(* The running callback changes in dispatch() only, where the object that is
   called was put up for dispatch and is still registered.                 *)
LEMMA ExecutedObject ==
    ASSUME ObjectInv, [Next]_vars
    PROVE  \/ UNCHANGED exec
           \/ /\ GivesNothing /\ exec = None
              /\ exec' \in Objects /\ Status(exec') = "registered"
           \/ GivesNothing /\ exec # None /\ exec' = None
<1>1. CASE DispatchNext
  <2>1. PICK x \in todo : IF Runs(x) THEN exec' = x ELSE UNCHANGED exec
    BY <1>1 DEF DispatchNext
  <2>2. exec = None /\ GivesNothing
    BY <1>1 DEF DispatchNext, At, ObjectInv, Books, objects, GivesNothing
  <2>3. CASE Runs(x)
    <3>1. /\ x \in Objects /\ x \notin deleteObject /\ x \notin freed
          /\ x \in ToSet(registered[kind]) /\ kind \in Kinds
      BY <2>3 DEF ObjectInv, Books, Runs
    <3> QED BY <2>1, <2>2, <2>3, <3>1 DEF Status
  <2> QED BY <2>1, <2>3
<1>2. CASE Executed
  BY <1>2 DEF Executed, At, ObjectInv, Books, objects, GivesNothing
<1>3. CASE UNCHANGED dispatching
  BY <1>3 DEF dispatching
<1>4. CASE PrepareSources \/ PrepareTimeouts \/ CheckWatches \/ CheckSources
           \/ DispatchKindDone
  BY <1>4 DEF PrepareSources, PrepareTimeouts, CheckWatches, CheckSources,
              DispatchKindDone
<1>5. CASE \E f \in Calls : Begin(f)
  BY <1>5 DEF Begin, dispatching
<1>6. CASE BecomesDue \/ BecomesReadable \/ UNCHANGED vars
  BY <1>6 DEF BecomesDue, BecomesReadable, vars, dispatching
<1> QED BY <1>1, <1>2, <1>3, <1>4, <1>5, <1>6, OtherLoopSteps,
           ClientsLeaveDispatching DEF Next

(* Every step erases, adds or marks objects of one kind, or none. *)
LEMMA NextMoves ==
    ASSUME ObjectInv, [Next]_vars
    PROVE  \/ GivesNothing
           \/ \E k \in Kinds : \E E : Erases(k, E)
           \/ \E k \in Kinds : \E x : Adds(k, x) \/ Marks(k, x)
<1>1. CASE (\E f \in Calls : Begin(f)) \/ BecomesDue \/ BecomesReadable \/ UNCHANGED vars
  BY <1>1 DEF Begin, BecomesDue, BecomesReadable, vars, objects, GivesNothing
<1> QED BY <1>1, LoopMoves, ClientMoves DEF Next, ObjectInv

(* The loop implements DispatchLifecycle: an object is called back only
   between its registration and its unregistration, one callback at a time,
   and deleted once, after its unregistration and not while it runs.  Adding
   an object maps to Register, marking one to Unregister, a pass that erases
   some to Free, and the two ends of a callback to Start and End.          *)
THEOREM LoopKeepsPromise == Spec => KeepsPromise
<1> DEFINE status == [x \in Objects |-> Status(x)]
<1>1. Init => Promise!Init
  <2> SUFFICES ASSUME Init PROVE Promise!Init
    OBVIOUS
  <2>1. \A x : Status(x) = "new"
    BY DEF Init, Status, ToSet
  <2> QED BY <2>1 DEF Init, Promise!Init
<1>2. ASSUME ObjectInv, [Next]_vars
      PROVE  [Promise!Next]_<<status, exec>>
  <2>1. CASE GivesNothing
    <3>1. status' = status
      BY <1>2, <2>1, StatusMoves DEF Kinds
    <3>2. CASE exec = None /\ exec' \in Objects /\ Status(exec') = "registered"
      <4>1. Promise!Start(exec')
        BY <3>1, <3>2 DEF Promise!Start
      <4> QED BY <3>2, <4>1 DEF Promise!Next
    <3>3. CASE exec # None /\ exec' = None
      BY <3>1, <3>3 DEF Promise!Next, Promise!End
    <3> QED BY <1>2, <3>1, <3>2, <3>3, ExecutedObject
  <2>2. ASSUME ~GivesNothing, NEW k \in Kinds, NEW E, Erases(k, E)
        PROVE  Promise!Next
    <3>1. exec' = exec
      BY <1>2, <2>2, ExecutedObject
    <3>2. E \in SUBSET Objects
      BY <1>2, <2>2, OfKinds DEF Erases, ObjectInv, Registrations
    <3>3. \A y : /\ y \in E => Status(y) = "unregistered" /\ y # exec
                 /\ Status(y)' = IF y \in E THEN "freed" ELSE Status(y)
      BY <1>2, <2>2, StatusMoves
    <3>4. Promise!Free(E)
      BY <3>1, <3>2, <3>3 DEF Promise!Free
    <3> QED BY <3>2, <3>4 DEF Promise!Next
  <2>3. ASSUME ~GivesNothing, NEW k \in Kinds, NEW x, Adds(k, x)
        PROVE  Promise!Next
    <3>1. exec' = exec /\ x \in Objects
      BY <1>2, <2>3, ExecutedObject, OfKinds DEF Adds
    <3>2. \A y : /\ Status(x) = "new"
                 /\ Status(y)' = IF y = x THEN "registered" ELSE Status(y)
      BY <1>2, <2>3, StatusMoves
    <3>3. Promise!Register(x)
      BY <3>1, <3>2 DEF Promise!Register, Promise!Move
    <3> QED BY <3>1, <3>3 DEF Promise!Next
  <2>4. ASSUME ~GivesNothing, NEW k \in Kinds, NEW x, Marks(k, x)
        PROVE  Promise!Next
    <3>1. exec' = exec /\ x \in Objects
      BY <1>2, <2>4, ExecutedObject, OfKinds DEF Marks, ObjectInv, Registrations
    <3>2. \A y : /\ Status(x) = "registered"
                 /\ Status(y)' = IF y = x THEN "unregistered" ELSE Status(y)
      BY <1>2, <2>4, StatusMoves
    <3>3. Promise!Unregister(x)
      BY <3>1, <3>2 DEF Promise!Unregister, Promise!Move
    <3> QED BY <3>1, <3>3 DEF Promise!Next
  <2> QED BY <1>2, <2>1, <2>2, <2>3, <2>4, NextMoves
<1> QED BY <1>1, <1>2, ObjectsInOrder, PTL DEF Spec, KeepsPromise, Promise!Spec

-----------------------------------------------------------------------------
(* The types                                                               *)

Phases == /\ pc \in LoopPCs
          /\ call \in {"none", "run", "iteration", "prepare", "poll", "check", "dispatch"}

Flags == {isBroken, hasToStop, woken, moved, shifted, fdMutex, watchesMutex} \subseteq BOOLEAN

Marked == /\ elapsed \subseteq Timeouts /\ due \subseteq Timeouts
          /\ readable \subseteq Watches /\ reported \subseteq Watches

(* Every step leads from one phase of the loop to another. *)
LEMMA PhasesStep ==
    ASSUME Phases, [Next]_vars
    PROVE  Phases'
<1> USE DEF Phases, LoopPCs, Goto, Finish
<1>1. CASE \E f \in Calls : Begin(f)
  BY <1>1, CallsKnown DEF Begin, Entry
<1>2. CASE Loop
  <2>1. CASE CleanSources \/ CleanTimeouts \/ CleanWatches
    BY <2>1 DEF CleanSources, CleanTimeouts, CleanWatches
  <2>2. CASE RunTest \/ PrepareSources \/ PrepareTimeouts \/ PollEnter \/ PollReturn
    BY <2>2 DEF RunTest, PrepareSources, PrepareTimeouts, PollEnter, PollReturn
  <2>3. CASE PollAck \/ CheckFds \/ CheckWatches \/ CheckSources
    BY <2>3 DEF PollAck, CheckFds, CheckWatches, CheckSources
  <2>4. CASE DispatchNext \/ Executed \/ DispatchKindDone
    BY <2>4 DEF DispatchNext, Executed, DispatchKindDone
  <2> QED BY <1>2, <2>1, <2>2, <2>3, <2>4 DEF Loop
<1>3. ASSUME NEW c \in Clients, Client(c) \/ ClientGoesOn(c)
      PROVE  Phases'
  BY <1>3 DEF Client, ClientGoesOn, Register, UnregisterDispatchSource,
              UnregisterTimeout, RegisterWatch, UnregisterWatch, Stop, Wakeup,
              RegisterWatchFd, UnregisterWatchFd, UnregisterWatchMark, StopWake
<1>4. CASE BecomesDue \/ BecomesReadable \/ UNCHANGED vars
  BY <1>4 DEF BecomesDue, BecomesReadable, vars
<1> QED BY <1>1, <1>2, <1>3, <1>4 DEF Next

(* Every step keeps the flags Boolean. *)
LEMMA FlagsStep ==
    ASSUME Flags, [Next]_vars
    PROVE  Flags'
<1> USE DEF Flags, flags, polling
<1>1. CASE \E f \in Calls : Begin(f)
  BY <1>1 DEF Begin
<1>2. CASE Loop
  <2>1. CASE CleanSources \/ CleanTimeouts \/ CleanWatches
    BY <2>1 DEF CleanSources, CleanTimeouts, CleanWatches, Clean
  <2>2. CASE RunTest \/ PrepareSources \/ PrepareTimeouts \/ PollEnter \/ PollReturn
    BY <2>2 DEF RunTest, PrepareSources, PrepareTimeouts, PollEnter, PollReturn
  <2>3. CASE PollAck
    BY <2>3 DEF PollAck
  <2>4. CASE CheckFds \/ CheckWatches \/ CheckSources
    BY <2>4 DEF CheckFds, CheckWatches, CheckSources
  <2>5. CASE DispatchNext \/ Executed
    BY <2>5 DEF DispatchNext, Executed
  <2>6. CASE DispatchKindDone
    BY <2>6 DEF DispatchKindDone
  <2> QED BY <1>2, <2>1, <2>2, <2>3, <2>4, <2>5, <2>6 DEF Loop
<1>3. ASSUME NEW c \in Clients, Client(c)
      PROVE  Flags'
  BY <1>3 DEF Client, Register, UnregisterDispatchSource, UnregisterTimeout,
              RegisterWatch, UnregisterWatch, Stop, Wakeup
<1>4. ASSUME NEW c \in Clients, ClientGoesOn(c)
      PROVE  Flags'
  <2>1. CASE RegisterWatchFd(c)
    BY <2>1 DEF RegisterWatchFd, At
  <2>2. CASE UnregisterWatchFd(c)
    BY <2>2 DEF UnregisterWatchFd, At
  <2>3. CASE UnregisterWatchMark(c) \/ StopWake(c)
    BY <2>3 DEF UnregisterWatchMark, StopWake
  <2> QED BY <1>4, <2>1, <2>2, <2>3 DEF ClientGoesOn
<1>5. CASE BecomesDue \/ BecomesReadable \/ UNCHANGED vars
  BY <1>5 DEF BecomesDue, BecomesReadable, vars
<1> QED BY <1>1, <1>2, <1>3, <1>4, <1>5 DEF Next

(* Only timeouts elapse and only watches become readable. *)
LEMMA MarkedStep ==
    ASSUME ObjectInv, Answers, Marked, [Next]_vars
    PROVE  Marked'
<1> USE DEF Marked, objects, polling, world
<1>0. /\ ToSet(registered["timeout"]) \subseteq Timeouts
      /\ ToSet(registered["watch"]) \subseteq Watches
  BY OfKinds DEF ObjectInv, Registrations, Kinds
<1>1. CASE \E f \in Calls : Begin(f)
  BY <1>1 DEF Begin
<1>2. CASE Loop
  <2>1. CASE CleanSources \/ CleanTimeouts \/ CleanWatches
    BY <2>1 DEF CleanSources, CleanTimeouts, CleanWatches, Clean
  <2>2. CASE RunTest \/ PrepareSources \/ PollEnter \/ PollAck \/ CheckFds
    BY <2>2 DEF RunTest, PrepareSources, PollEnter, PollAck, CheckFds
  <2>3. CASE PrepareTimeouts
    BY <1>0, <2>3 DEF PrepareTimeouts, NewlyDue
  <2>4. CASE PollReturn
    <3>1. \A i \in ReadyFds : polled[i] \in Watches \cup {Wake}
      BY DEF ReadyFds, Answers
    <3> QED BY <2>4, <3>1 DEF PollReturn
  <2>5. CASE CheckWatches \/ CheckSources \/ DispatchNext \/ Executed \/ DispatchKindDone
    BY <2>5 DEF CheckWatches, CheckSources, DispatchNext, Executed, DispatchKindDone
  <2> QED BY <1>2, <2>1, <2>2, <2>3, <2>4, <2>5 DEF Loop
<1>3. ASSUME NEW c \in Clients, Client(c) \/ ClientGoesOn(c)
      PROVE  Marked'
  BY <1>3 DEF Client, ClientGoesOn, Register, UnregisterDispatchSource,
              UnregisterTimeout, RegisterWatch, UnregisterWatch, Stop, Wakeup,
              RegisterWatchFd, UnregisterWatchFd, UnregisterWatchMark, StopWake
<1>4. CASE BecomesDue \/ BecomesReadable \/ UNCHANGED vars
  BY <1>0, <1>4 DEF BecomesDue, BecomesReadable, vars
<1> QED BY <1>1, <1>2, <1>3, <1>4 DEF Next

(* Each variable keeps its type: the sets that wait for dispatch() hold
   objects of their kind, only unregistered objects are deleted, and the
   wakeup descriptor stays at the front of the vector.                     *)
THEOREM LoopTypes == Spec => []TypeOK
<1>1. Init => Phases /\ Flags /\ Marked
  BY DEF Init, Phases, Flags, Marked, LoopPCs
<1>2. ObjectInv /\ Linked /\ Answers /\ Phases /\ Flags /\ Marked => TypeOK
  <2> SUFFICES ASSUME ObjectInv, Linked, Answers, Phases, Flags, Marked
               PROVE  TypeOK
    OBVIOUS
  <2>1. \A k \in Kinds : /\ ToSet(registered[k]) \subseteq Of[k]
                         /\ toDispatch[k] \subseteq Of[k]
    BY DEF ObjectInv, Registrations, Books
  <2>2. exec \in Objects \cup {None}
    BY DEF ObjectInv, Books
  <2>3. ToSet(fds) \subseteq Descriptors /\ Head(fds).fd = Wake
    BY DEF Linked, ToSet
  <2>4. ToSet(polled) \subseteq Watches \cup {Wake}
    BY DEF Answers, ToSet
  <2> QED BY <2>1, <2>2, <2>3, <2>4
          DEF TypeOK, ObjectInv, Books, Claims, Phases, Flags, Marked, Descriptors
<1> QED BY <1>1, <1>2, PhasesStep, FlagsStep, MarkedStep, AnswersInOrder, PTL DEF Spec

-----------------------------------------------------------------------------
(* Who holds the two mutexes                                               *)

(* fileDescriptorsMutex_ is held by check() in its scan, watchesMutex_ by one
   registerWatch() that is about to take fileDescriptorsMutex_, and a callback
   is in the middle of a call only while dispatch() is executing it.       *)
HolderInv ==
    /\ cpc \in [Clients -> ClientPCs]
    /\ fdMutex <=> pc = "checkWatch"
    /\ watchesMutex <=> \E c \in Clients : cpc[c] = "watchFd"
    /\ \A c, d \in Clients : cpc[c] = "watchFd" /\ cpc[d] = "watchFd" => c = d
    /\ Callback \in Clients /\ cpc[Callback] # "idle" => pc = "executing"

(* A step of the driving thread leaves the clients and watchesMutex_ alone, and
   an executing callback until it is back.                                 *)
LoopHolds ==
    /\ UNCHANGED <<cpc, watchesMutex>>
    /\ fdMutex' <=> pc' = "checkWatch"
    /\ pc = "executing" => pc' = pc \/ (Callback \in Clients => cpc[Callback] = "idle")

(* Such a step keeps the mutexes with their holders. *)
LEMMA LoopHoldsStep ==
    ASSUME HolderInv, LoopHolds PROVE HolderInv'
BY DEF HolderInv, LoopHolds

(* A step of a client leaves the phase and fileDescriptorsMutex_ alone, begins
   from idle, in an executing callback if it is the callback's, and has
   watchesMutex_ exactly at registerWatch()'s second lock.                 *)
ClientHolds(c) ==
    /\ UNCHANGED <<pc, fdMutex>>
    /\ cpc[c] = "idle" /\ c = Callback => pc = "executing"
    /\ \/ UNCHANGED <<cpc, watchesMutex>>
       \/ \E label \in ClientPCs \ {"watchFd"} :
             /\ cpc[c] # "watchFd" /\ UNCHANGED watchesMutex
             /\ cpc' = [cpc EXCEPT ![c] = label]
       \/ /\ cpc[c] = "idle" /\ ~watchesMutex /\ watchesMutex' = TRUE
          /\ cpc' = [cpc EXCEPT ![c] = "watchFd"]
       \/ /\ cpc[c] = "watchFd" /\ ~fdMutex /\ watchesMutex' = FALSE
          /\ cpc' = [cpc EXCEPT ![c] = "idle"]

(* Such a step keeps the mutexes with their holders. *)
LEMMA ClientHoldsStep ==
    ASSUME HolderInv, NEW c \in Clients, ClientHolds(c) PROVE HolderInv'
<1> USE DEF HolderInv, ClientPCs
<1>0. UNCHANGED <<pc, fdMutex>> /\ (cpc[c] = "idle" /\ c = Callback => pc = "executing")
  BY DEF ClientHolds
<1>1. CASE UNCHANGED <<cpc, watchesMutex>>
  BY <1>0, <1>1
<1>2. ASSUME NEW label \in ClientPCs \ {"watchFd"}, cpc[c] # "watchFd",
             UNCHANGED watchesMutex, cpc' = [cpc EXCEPT ![c] = label]
      PROVE  HolderInv'
  <2>1. \A d \in Clients : cpc'[d] = "watchFd" <=> cpc[d] = "watchFd"
    BY <1>2
  <2>2. Callback \in Clients /\ cpc'[Callback] # "idle" => pc' = "executing"
    BY <1>0, <1>2
  <2> QED BY <1>0, <1>2, <2>1, <2>2
<1>3. CASE /\ cpc[c] = "idle" /\ ~watchesMutex /\ watchesMutex' = TRUE
           /\ cpc' = [cpc EXCEPT ![c] = "watchFd"]
  <2>1. \A d \in Clients : cpc'[d] = "watchFd" <=> d = c
    BY <1>3
  <2>2. Callback \in Clients /\ cpc'[Callback] # "idle" => pc' = "executing"
    BY <1>0, <1>3
  <2> QED BY <1>0, <1>3, <2>1, <2>2
<1>4. CASE /\ cpc[c] = "watchFd" /\ ~fdMutex /\ watchesMutex' = FALSE
           /\ cpc' = [cpc EXCEPT ![c] = "idle"]
  <2>1. \A d \in Clients : cpc'[d] # "watchFd"
    BY <1>4
  <2>2. Callback \in Clients /\ cpc'[Callback] # "idle" => pc' = "executing"
    BY <1>0, <1>4
  <2> QED BY <1>0, <1>4, <2>1, <2>2
<1> QED BY <1>1, <1>2, <1>3, <1>4 DEF ClientHolds

(* Every step of the driving thread is of the one kind. *)
LEMMA LoopStepsHold ==
    ASSUME HolderInv, (\E f \in Calls : Begin(f)) \/ Loop PROVE LoopHolds
<1> USE DEF HolderInv, LoopHolds, At, Goto, Finish, clients
<1>1. CASE \E f \in Calls : Begin(f)
  <2>1. \A f \in Calls : Entry[f] # "checkWatch"
    BY CallsKnown DEF Entry
  <2> QED BY <1>1, <2>1 DEF Begin
<1>2. CASE CleanSources \/ CleanTimeouts \/ CleanWatches
  BY <1>2 DEF CleanSources, CleanTimeouts, CleanWatches, Clean
<1>3. CASE RunTest \/ PrepareSources \/ PrepareTimeouts
  BY <1>3 DEF RunTest, PrepareSources, PrepareTimeouts
<1>4. CASE PollEnter \/ PollReturn \/ PollAck
  BY <1>4 DEF PollEnter, PollReturn, PollAck
<1>5. CASE CheckFds
  BY <1>5 DEF CheckFds
<1>6. CASE CheckWatches \/ CheckSources
  BY <1>6 DEF CheckWatches, CheckSources
<1>7. CASE DispatchNext \/ Executed
  BY <1>7 DEF DispatchNext, Executed
<1>8. CASE DispatchKindDone
  BY <1>8 DEF DispatchKindDone
<1> QED BY <1>1, <1>2, <1>3, <1>4, <1>5, <1>6, <1>7, <1>8 DEF Loop

(* Every step of a client is of the other. *)
LEMMA ClientStepsHold ==
    ASSUME HolderInv, NEW c \in Clients, Client(c) \/ ClientGoesOn(c)
    PROVE  ClientHolds(c)
<1> USE DEF ClientHolds, Free, At, ClientPCs, clients
<1>1. CASE \/ \E k \in {"source", "timeout"} : Register(c, k)
           \/ UnregisterDispatchSource(c) \/ UnregisterTimeout(c) \/ Wakeup(c)
  BY <1>1 DEF Register, UnregisterDispatchSource, UnregisterTimeout, Wakeup
<1>2. CASE RegisterWatch(c)
  BY <1>2 DEF RegisterWatch
<1>3. CASE UnregisterWatch(c) \/ Stop(c)
  BY <1>3 DEF UnregisterWatch, Stop
<1>4. CASE RegisterWatchFd(c)
  BY <1>4 DEF RegisterWatchFd
<1>5. CASE UnregisterWatchFd(c) \/ UnregisterWatchMark(c) \/ StopWake(c)
  BY <1>5 DEF UnregisterWatchFd, UnregisterWatchMark, StopWake
<1> QED BY <1>1, <1>2, <1>3, <1>4, <1>5 DEF Client, ClientGoesOn

(* Time and data leave the mutexes alone. *)
LEMMA HolderInvStep == HolderInv /\ [Next]_vars => HolderInv'
<1> SUFFICES ASSUME HolderInv, [Next]_vars PROVE HolderInv'
  OBVIOUS
<1>1. CASE BecomesDue \/ BecomesReadable \/ UNCHANGED vars
  <2>1. UNCHANGED <<pc, cpc, fdMutex, watchesMutex>>
    BY <1>1 DEF BecomesDue, BecomesReadable, clients, vars
  <2> QED BY <2>1 DEF HolderInv
<1> QED BY <1>1, LoopStepsHold, LoopHoldsStep, ClientStepsHold, ClientHoldsStep DEF Next

(* The mutexes are with their holders from the start. *)
LEMMA HoldersInOrder == Spec => []HolderInv
<1>1. Init => HolderInv
  BY DEF Init, HolderInv, ClientPCs
<1> QED BY <1>1, HolderInvStep, PTL DEF Spec

(* Whoever finds one of the two mutexes locked waits for check() or for one
   registerWatch() of another thread, and for nobody else.                 *)
THEOREM OnlyTwoHolders == Spec => []MutexHolders
<1>1. HolderInv => MutexHolders
  BY DEF HolderInv, MutexHolders
<1> QED BY <1>1, HoldersInOrder, PTL

(* check() holds fileDescriptorsMutex_ and waits for watchesMutex_, and a
   registerWatch() has them the other way round.                           *)
Deadlocked == fdMutex /\ watchesMutex

(* Nobody gets out of that: the loop stays in check() for good. *)
THEOREM DeadlockIsForGood ==
    Spec => [][Deadlocked => Deadlocked' /\ pc' = "checkWatch"]_vars
<1> USE DEF Deadlocked
<1>1. ASSUME HolderInv, Next, Deadlocked PROVE Deadlocked' /\ pc' = "checkWatch"
  <2>0. pc = "checkWatch"
    BY <1>1 DEF HolderInv
  <2>1. ASSUME NEW c \in Clients, Client(c) \/ ClientGoesOn(c)
        PROVE  Deadlocked' /\ pc' = "checkWatch"
    BY <1>1, <2>0, <2>1, ClientStepsHold DEF ClientHolds
  <2>2. CASE Loop \/ \E f \in Calls : Begin(f)
    BY <1>1, <2>0, <2>2
       DEF Begin, Loop, RunTest, CleanSources, CleanTimeouts, CleanWatches, PrepareSources,
           PrepareTimeouts, PollEnter, PollReturn, PollAck, CheckFds, CheckWatches,
           CheckSources, DispatchNext, Executed, DispatchKindDone, At
  <2>3. CASE BecomesDue \/ BecomesReadable
    BY <1>1, <2>0, <2>3 DEF BecomesDue, BecomesReadable
  <2> QED BY <1>1, <2>1, <2>2, <2>3 DEF Next
<1>2. HolderInv /\ [Next]_vars => [Deadlocked => Deadlocked' /\ pc' = "checkWatch"]_vars
  BY <1>1
<1> QED BY <1>2, HoldersInOrder, PTL DEF Spec

-----------------------------------------------------------------------------
(* What it takes to dispatch a watch for an answer that is not its own     *)

(* Inside run() watches wait for dispatch() only from check() to the end of
   their turn, and unless the vector was shifted for an answer of their own. *)
RunInv ==
    /\ pc # "idle" => call = "run"
    /\ \/ toDispatch["watch"] = {}
       \/ pc \in {"checkWatch", "checkSources"}
       \/ pc \in {"dispatch", "executing"} /\ kind # "source"
    /\ shifted \/ toDispatch["watch"] \subseteq reported

(* The driving thread, when it does nothing but run(). *)
LEMMA RunInvLoop ==
    ASSUME ObjectInv, Answers, RunInv, Loop
    PROVE  RunInv'
<1>0. toDispatch \in [Kinds -> SUBSET Objects] /\ kind \in Kinds
  BY DEF ObjectInv, Books
<1> USE DEF RunInv, At, Goto, Finish, Iterating, dispatching, polling
<1>1. CASE CleanSources \/ CleanTimeouts \/ CleanWatches
  BY <1>1 DEF CleanSources, CleanTimeouts, CleanWatches, Clean
<1>2. CASE RunTest \/ PollAck \/ CheckFds
  BY <1>2 DEF RunTest, PollAck, CheckFds
<1>3. CASE PollEnter \/ PollReturn
  BY <1>3 DEF PollEnter, PollReturn
<1>4. CASE PrepareSources \/ PrepareTimeouts
  <2>1. toDispatch'["watch"] = {} /\ toDispatch["watch"] = {}
    BY <1>0, <1>4 DEF PrepareSources, PrepareTimeouts, Kinds
  <2> QED BY <1>4, <2>1 DEF PrepareSources, PrepareTimeouts
<1>5. CASE CheckWatches
  <2>1. shifted \/ Hot \subseteq reported
    BY DEF Hot, Answers
  <2>2. toDispatch'["watch"] \subseteq toDispatch["watch"] \cup Hot
    BY <1>0, <1>5 DEF CheckWatches, Kinds
  <2> QED BY <1>5, <2>1, <2>2 DEF CheckWatches
<1>6. CASE CheckSources
  <2>1. toDispatch'["watch"] = toDispatch["watch"]
    BY <1>0, <1>6 DEF CheckSources, Kinds
  <2>2. toDispatch'["watch"] = {} \/ (pc' = "dispatch" /\ kind' = "timeout")
    BY <1>6 DEF CheckSources, StartDispatch, Kinds
  <2> QED BY <1>6, <2>1, <2>2 DEF CheckSources
<1>7. CASE DispatchNext \/ Executed
  BY <1>7 DEF DispatchNext, Executed
<1>8. CASE DispatchKindDone
  <2>1. /\ toDispatch'["watch"] \subseteq toDispatch["watch"]
        /\ kind = "watch" => toDispatch'["watch"] = {}
    BY <1>0, <1>8 DEF DispatchKindDone, Cleared, Kinds
  <2> QED BY <1>8, <2>1 DEF DispatchKindDone
<1> QED BY <1>1, <1>2, <1>3, <1>4, <1>5, <1>6, <1>7, <1>8 DEF Loop

(* A client puts nothing up for dispatch, and takes no answer back. *)
LEMMA RunInvClient ==
    ASSUME RunInv, NEW c \in Clients, Client(c) \/ ClientGoesOn(c)
    PROVE  RunInv'
<1>1. UNCHANGED dispatching /\ pc' = pc
  BY ClientsLeaveDispatching
<1>2. call' = call /\ reported' = reported /\ (shifted => shifted')
  <2>1. CASE Client(c)
    BY <2>1 DEF Client, Register, UnregisterDispatchSource, UnregisterTimeout,
                RegisterWatch, UnregisterWatch, Stop, Wakeup, polling
  <2>2. CASE RegisterWatchFd(c) \/ UnregisterWatchMark(c) \/ StopWake(c)
    BY <2>2 DEF RegisterWatchFd, UnregisterWatchMark, StopWake, polling
  <2>3. CASE UnregisterWatchFd(c)
    <3>1. call' = call /\ reported' = reported
      BY <2>3 DEF UnregisterWatchFd
    <3>2. shifted => shifted'
      BY <2>3, Zenon DEF UnregisterWatchFd
    <3> QED BY <3>1, <3>2
  <2> QED BY <2>1, <2>2, <2>3 DEF ClientGoesOn
<1> QED BY <1>1, <1>2 DEF RunInv, dispatching

(* An application that only calls run() sees no watch dispatched for another's
   answer, unless a watch was unregistered while the last ::poll waited: the
   violation of DispatchOnlyReported has no other cause.                   *)
THEOREM OwnAnswersInRun ==
    ASSUME Calls \subseteq {"run"}
    PROVE  Spec => [](shifted \/ DispatchOnlyReported)
<1>1. Init => RunInv
  BY DEF Init, RunInv, Kinds
<1>2. ASSUME ObjectInv, Answers, RunInv, [Next]_vars PROVE RunInv'
  <2>1. CASE \E f \in Calls : Begin(f)
    BY <1>2, <2>1 DEF Begin, Entry, At, RunInv, dispatching, polling
  <2>2. CASE BecomesDue \/ BecomesReadable \/ UNCHANGED vars
    BY <1>2, <2>2 DEF BecomesDue, BecomesReadable, vars, RunInv, dispatching, polling
  <2> QED BY <1>2, <2>1, <2>2, RunInvLoop, RunInvClient DEF Next
<1>3. RunInv => (shifted \/ DispatchOnlyReported)
  BY DEF RunInv, DispatchOnlyReported
<1> QED BY <1>1, <1>2, <1>3, AnswersInOrder, PTL DEF Spec

(* And that takes a thread other than the one in run(): a callback may
   unregister watches as it likes.                                         *)
THEOREM ShiftedByAnotherThread ==
    Spec => [][~shifted /\ shifted' =>
                  pc = "polling" /\ \E c \in Clients \ {Callback} : UnregisterWatchFd(c)]_vars
<1> DEFINE ByOther == ~shifted /\ shifted' =>
              pc = "polling" /\ \E c \in Clients \ {Callback} : UnregisterWatchFd(c)
<1>1. ASSUME HolderInv, [Next]_vars PROVE ByOther
  <2>1. CASE PollEnter \/ PollReturn \/ UNCHANGED polling
    BY <2>1 DEF PollEnter, PollReturn, polling
  <2>2. ASSUME NEW c \in Clients, RegisterWatchFd(c) PROVE ByOther
    BY <2>2 DEF RegisterWatchFd
  <2>3. ASSUME NEW c \in Clients, UnregisterWatchFd(c) PROVE ByOther
    <3>1. c = Callback => pc = "executing"
      BY <1>1, <2>3 DEF HolderInv, UnregisterWatchFd
    <3>2. ~shifted /\ shifted' => pc = "polling"
      BY <2>3 DEF UnregisterWatchFd, At
    <3> QED BY <2>3, <3>1, <3>2
  <2> QED BY <1>1, <2>1, <2>2, <2>3, OthersLeavePolling
<1>2. HolderInv /\ [Next]_vars => [ByOther]_vars
  BY <1>1
<1> QED BY <1>2, HoldersInOrder, PTL DEF Spec
=============================================================================
