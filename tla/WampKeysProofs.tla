---------------------------- MODULE WampKeysProofs ----------------------------
(***************************************************************************)
(* Proofs about WampKeys: for any literals and texts of bytes, whatever    *)
(* addresses they have, for any number of buckets and either kind of char. *)
(***************************************************************************)
EXTENDS WampKeys, SequenceTheorems, WellFoundedInduction, TLAPS

-----------------------------------------------------------------------------
(* The order of strings                                                    *)

(* A set of numbers has a least one. *)
LEMMA LeastIsThere ==
    ASSUME NEW T \in SUBSET Nat, T # {}
    PROVE  Min(T) \in T /\ \A n \in T : Min(T) =< n
<1> DEFINE R == OpToRel(<, Nat)
<1>1. PICK m \in T : \A n \in T : ~(<<n, m>> \in R)
  BY WFMin, NatLessThanWellFounded
<1>2. ASSUME NEW n \in Nat, n < m
      PROVE  <<n, m>> \in R
  BY <1>2, Zenon DEF OpToRel
<1>3. \A n \in T : ~(n < m)
  BY <1>1, <1>2, Zenon
<1>4. \A n \in T : m =< n
  BY ONLY <1>3, T \in SUBSET Nat, m \in T
<1> QED BY ONLY <1>4, m \in T DEF Min

(* The bytes of a text are numbers. *)
LEMMA BytesAreNumbers ==
    ASSUME NEW s \in Seq(Bytes)
    PROVE  \A j \in 1..Len(s) : s[j] \in Nat
<1>1. \A j \in 1..Len(s) : s[j] \in Bytes
  BY ElementOfSeq
<1>2. Bytes \subseteq Nat
  BY DEF Bytes
<1> QED BY <1>1, <1>2

(* No string is less than itself. *)
LEMMA LessIsIrreflexive ==
    ASSUME NEW s \in Seq(Bytes)
    PROVE  ~StringLess(s, s)
<1>1. \A i \in 1..Len(s) : ~(i > Len(s)) /\ ~(s[i] < s[i])
  BY BytesAreNumbers
<1> QED BY <1>1 DEF StringLess

(* The comparison of strings is transitive: the earlier of the two places
   where they differ decides.                                              *)
LEMMA LessIsTransitive ==
    ASSUME NEW s \in Seq(Bytes), NEW t \in Seq(Bytes), NEW u \in Seq(Bytes),
           StringLess(s, t), StringLess(t, u)
    PROVE  StringLess(s, u)
<1>1. PICK i \in 1..Len(t) : /\ i > Len(s) \/ s[i] < t[i]
                             /\ \A j \in 1..(i - 1) : j =< Len(s) /\ s[j] = t[j]
  BY DEF StringLess
<1>2. PICK k \in 1..Len(u) : /\ k > Len(t) \/ t[k] < u[k]
                             /\ \A j \in 1..(k - 1) : j =< Len(t) /\ t[j] = u[j]
  BY DEF StringLess
<1>3. Len(s) \in Nat /\ Len(t) \in Nat /\ Len(u) \in Nat
  OBVIOUS
<1>4. /\ \A j \in 1..Len(s) : s[j] \in Nat
      /\ \A j \in 1..Len(t) : t[j] \in Nat
      /\ \A j \in 1..Len(u) : u[j] \in Nat
  BY BytesAreNumbers
<1>5. CASE i =< k
  <2>1. i \in 1..Len(u)
    BY <1>3, <1>5
  <2>2. i > Len(s) \/ s[i] < u[i]
    <3>1. CASE i = k
      BY <3>1, <1>1, <1>2, <1>3, <1>4
    <3>2. CASE i < k
      <4>1. t[i] = u[i]
        BY <3>2, <1>2, <1>3
      <4> QED BY <4>1, <1>1
    <3> QED BY <3>1, <3>2, <1>5, <1>3
  <2>3. \A j \in 1..(i - 1) : j =< Len(s) /\ s[j] = u[j]
    <3> TAKE j \in 1..(i - 1)
    <3>1. j =< Len(s) /\ s[j] = t[j]
      BY <1>1
    <3>2. j \in 1..(k - 1)
      BY <1>3, <1>5
    <3> QED BY <3>1, <3>2, <1>2
  <2> QED BY <2>1, <2>2, <2>3 DEF StringLess
<1>6. CASE k < i
  <2>1. k \in 1..(i - 1)
    BY <1>3, <1>6
  <2>2. k =< Len(s) /\ s[k] = t[k] /\ ~(k > Len(t))
    BY <2>1, <1>1, <1>3
  <2>3. s[k] < u[k]
    BY <2>2, <1>2
  <2>4. \A j \in 1..(k - 1) : j =< Len(s) /\ s[j] = u[j]
    <3> TAKE j \in 1..(k - 1)
    <3>1. j \in 1..(i - 1)
      BY <1>3, <1>6
    <3> QED BY <3>1, <1>1, <1>2
  <2> QED BY <2>3, <2>4 DEF StringLess
<1> QED BY <1>5, <1>6, <1>3

(* Of two strings one is less, unless they are the same. *)
LEMMA LessIsTotal ==
    ASSUME NEW s \in Seq(Bytes), NEW t \in Seq(Bytes)
    PROVE  s = t \/ StringLess(s, t) \/ StringLess(t, s)
<1> DEFINE T == {i \in 1..(Len(s) + Len(t) + 1) :
                    \/ i > Len(s) /\ i =< Len(t)
                    \/ i > Len(t) /\ i =< Len(s)
                    \/ i =< Len(s) /\ i =< Len(t) /\ s[i] # t[i]}
<1>1. Len(s) \in Nat /\ Len(t) \in Nat
  OBVIOUS
<1>2. /\ \A j \in 1..Len(s) : s[j] \in Nat
      /\ \A j \in 1..Len(t) : t[j] \in Nat
  BY BytesAreNumbers
<1>3. CASE T = {}
  <2>1. Len(s) = Len(t)
    <3>1. ~(Len(s) < Len(t))
      <4> SUFFICES ASSUME Len(s) < Len(t) PROVE FALSE
        OBVIOUS
      <4>1. Len(s) + 1 \in T
        BY <1>1
      <4> QED BY <4>1, <1>3
    <3>2. ~(Len(t) < Len(s))
      <4> SUFFICES ASSUME Len(t) < Len(s) PROVE FALSE
        OBVIOUS
      <4>1. Len(t) + 1 \in T
        BY <1>1
      <4> QED BY <4>1, <1>3
    <3> QED BY <3>1, <3>2, <1>1
  <2>2. \A i \in 1..Len(s) : s[i] = t[i]
    <3> SUFFICES ASSUME NEW i \in 1..Len(s), s[i] # t[i] PROVE FALSE
      OBVIOUS
    <3>1. i \in T
      BY <1>1, <2>1
    <3> QED BY <3>1, <1>3
  <2> QED BY <2>1, <2>2
<1>4. CASE T # {}
  <2> DEFINE m == Min(T)
  <2>1. T \in SUBSET Nat
    OBVIOUS
  <2>2. m \in T /\ \A n \in T : m =< n
    BY <2>1, <1>4, LeastIsThere
  <2> HIDE DEF m
  <2>3. m \in Nat /\ m >= 1 /\ m =< Len(s) + Len(t) + 1
    BY <2>2
  <2>4. \A j \in 1..(m - 1) : j =< Len(s) /\ j =< Len(t) /\ s[j] = t[j]
    <3> TAKE j \in 1..(m - 1)
    <3>1. j \in 1..(Len(s) + Len(t) + 1) /\ j \notin T
      BY <2>2, <2>3, <1>1
    <3>2. j =< Len(s) \/ j =< Len(t)
      <4>1. ~(m - 1 > Len(s) /\ m - 1 > Len(t))
        BY <2>2, <2>3, <1>1
      <4> QED BY <4>1, <2>3, <1>1
    <3> QED BY <3>1, <3>2, <1>1
  <2>5. CASE m > Len(s) /\ m =< Len(t)
    BY <2>5, <2>3, <2>4 DEF StringLess
  <2>6. CASE m > Len(t) /\ m =< Len(s)
    BY <2>6, <2>3, <2>4 DEF StringLess
  <2>7. CASE m =< Len(s) /\ m =< Len(t) /\ s[m] # t[m]
    <3>1. s[m] < t[m] \/ t[m] < s[m]
      BY <2>7, <2>3, <1>1, <1>2
    <3> QED BY <3>1, <2>7, <2>3, <2>4 DEF StringLess
  <2> QED BY <2>2, <2>5, <2>6, <2>7
<1> QED BY <1>3, <1>4

-----------------------------------------------------------------------------
(* The ordered map                                                         *)

(* The keys are texts in ascending order, the ones that were inserted. *)
Ascending == \A i, j \in 1..Len(addresses) :
                i < j => StringLess(addresses[i], addresses[j])

MapInv == /\ addresses \in Seq(Texts)
          /\ Ascending
          /\ \A r : r \in entered <=> \E i \in 1..Len(addresses) : addresses[i] = r

(* The place of a key: everything before it is less, what is there is not. *)
LEMMA PlaceOfKey ==
    ASSUME addresses \in Seq(Texts), NEW r
    PROVE  /\ LowerBound(r) \in 1..(Len(addresses) + 1)
           /\ \A j \in 1..(LowerBound(r) - 1) : StringLess(addresses[j], r)
           /\ LowerBound(r) =< Len(addresses) =>
                 ~StringLess(addresses[LowerBound(r)], r)
<1> DEFINE T == {i \in DOMAIN addresses : ~Less(addresses[i], r)} \cup {Len(addresses) + 1}
           lb == Min(T)
<1>1. Len(addresses) \in Nat /\ DOMAIN addresses = 1..Len(addresses)
  OBVIOUS
<1>2. T \in SUBSET Nat /\ Len(addresses) + 1 \in T
  BY <1>1
<1>3. lb \in T /\ \A n \in T : lb =< n
  BY <1>2, LeastIsThere
<1>4. LowerBound(r) = lb
  BY DEF LowerBound
<1> HIDE DEF lb
<1>5. lb \in 1..(Len(addresses) + 1)
  BY <1>1, <1>3
<1>6. ASSUME NEW j \in 1..(lb - 1) PROVE StringLess(addresses[j], r)
  <2>1. j \notin T
    BY <1>3, <1>2, <1>5, <1>1
  <2>2. j \in DOMAIN addresses
    BY <1>1, <1>5
  <2> QED BY <2>1, <2>2 DEF Less
<1>7. lb =< Len(addresses) => ~StringLess(addresses[lb], r)
  BY <1>3, <1>1 DEF Less
<1> QED BY <1>4, <1>5, <1>6, <1>7

(* find() finds the keys that are there, and no other. *)
LEMMA FindsKeys ==
    ASSUME addresses \in Seq(Texts), Ascending, NEW r \in Texts
    PROVE  Finds(r) <=> \E i \in 1..Len(addresses) : addresses[i] = r
<1> DEFINE lb == LowerBound(r)
<1>1. Len(addresses) \in Nat /\ r \in Seq(Bytes)
      /\ \A i \in 1..Len(addresses) : addresses[i] \in Seq(Bytes)
  BY ElementOfSeq, TextsAreBytes
<1>2. /\ lb \in 1..(Len(addresses) + 1)
      /\ \A j \in 1..(lb - 1) : StringLess(addresses[j], r)
      /\ lb =< Len(addresses) => ~StringLess(addresses[lb], r)
  BY PlaceOfKey
<1> HIDE DEF lb
<1>3. Finds(r) <=> lb =< Len(addresses) /\ ~StringLess(r, addresses[lb])
  BY <1>1, <1>2 DEF Finds, AtEnd, Less, lb
<1>4. ASSUME Finds(r) PROVE lb \in 1..Len(addresses) /\ addresses[lb] = r
  <2>1. lb \in 1..Len(addresses)
    BY <1>4, <1>3, <1>2, <1>1
  <2> QED BY <2>1, <1>4, <1>3, <1>2, <1>1, LessIsTotal
<1>5. ASSUME NEW i \in 1..Len(addresses), addresses[i] = r PROVE Finds(r)
  <2>1. ~StringLess(r, r)
    BY <1>1, LessIsIrreflexive
  <2>2. lb =< i
    BY <2>1, <1>5, <1>2, <1>1
  <2>3. ~(lb < i)
    <3> SUFFICES ASSUME lb < i PROVE FALSE
      OBVIOUS
    <3>1. lb \in 1..Len(addresses)
      BY <1>1, <1>2
    <3>2. StringLess(addresses[lb], r)
      BY <3>1, <1>5 DEF Ascending
    <3> QED BY <3>1, <3>2, <1>2
  <2>4. lb = i
    BY <2>2, <2>3, <1>2, <1>1
  <2> QED BY <2>1, <2>4, <1>3, <1>5, <1>1
<1> QED BY <1>4, <1>5

(* A new key in its place: the keys before it stay, the others move up. *)
LEMMA KeyInPlace ==
    ASSUME addresses \in Seq(Texts), NEW r \in Texts, NEW k \in 1..Len(addresses)
    PROVE  /\ InsertAt(addresses, k, r) \in Seq(Texts)
           /\ Len(InsertAt(addresses, k, r)) = Len(addresses) + 1
           /\ \A i \in 1..(Len(addresses) + 1) :
                 InsertAt(addresses, k, r)[i] = IF i < k THEN addresses[i]
                                                ELSE IF i = k THEN r
                                                ELSE addresses[i - 1]
<1> DEFINE a == SubSeq(addresses, 1, k - 1)
           b == SubSeq(addresses, k, Len(addresses))
           c == a \o <<r>>
           n == Len(addresses)
<1>1. n \in Nat /\ \A i \in 1..n : addresses[i] \in Texts
  BY ElementOfSeq
<1>2. a \in Seq(Texts) /\ Len(a) = k - 1 /\ \A i \in 1..(k - 1) : a[i] = addresses[i]
  BY <1>1, SubSeqProperties
<1>3. b \in Seq(Texts) /\ Len(b) = n - k + 1
      /\ \A i \in 1..(n - k + 1) : b[i] = addresses[k + i - 1]
  BY <1>1, SubSeqProperties
<1>4. <<r>> \in Seq(Texts) /\ Len(<<r>>) = 1 /\ <<r>>[1] = r
  OBVIOUS
<1>5. InsertAt(addresses, k, r) = c \o b
  BY DEF InsertAt
<1> HIDE DEF a, b
<1>6. /\ c \in Seq(Texts) /\ Len(c) = Len(a) + Len(<<r>>)
      /\ \A i \in 1..(Len(a) + Len(<<r>>)) :
            c[i] = IF i =< Len(a) THEN a[i] ELSE <<r>>[i - Len(a)]
  BY ONLY <1>2, <1>4, ConcatProperties, Zenon
<1> HIDE DEF c
<1>7. /\ c \o b \in Seq(Texts) /\ Len(c \o b) = Len(c) + Len(b)
      /\ \A i \in 1..(Len(c) + Len(b)) :
            (c \o b)[i] = IF i =< Len(c) THEN c[i] ELSE b[i - Len(c)]
  <2>1. c \in Seq(Texts) /\ b \in Seq(Texts)
    BY <1>3, <1>6
  <2> QED BY ONLY <2>1, ConcatProperties, Zenon
<1>8. Len(c) = k /\ c[k] = r /\ \A i \in 1..(k - 1) : c[i] = addresses[i]
  BY <1>6, <1>4, <1>2
<1>9. Len(c) + Len(b) = n + 1
  BY <1>8, <1>3, <1>1
<1>10. ASSUME NEW i \in 1..(n + 1)
       PROVE  (c \o b)[i] = IF i < k THEN addresses[i] ELSE IF i = k THEN r
                            ELSE addresses[i - 1]
  <2>1. CASE i =< k
    BY <2>1, <1>7, <1>8, <1>9
  <2>2. CASE i > k
    <3>1. (c \o b)[i] = b[i - k] /\ i - k \in 1..(n - k + 1)
      BY <2>2, <1>7, <1>8, <1>9, <1>1
    <3>2. b[i - k] = addresses[k + (i - k) - 1]
      BY <3>1, <1>3
    <3> QED BY <3>1, <3>2, <2>2, <1>1
  <2>3. i =< k \/ i > k
    BY <1>1
  <2> QED BY <2>1, <2>2, <2>3
<1> QED BY <1>5, <1>7, <1>9, <1>10

(* No step puts the keys out of order or loses one. *)
LEMMA MapStep == MapInv /\ [Next]_vars => MapInv'
<1> SUFFICES ASSUME MapInv, [Next]_vars PROVE MapInv'
  OBVIOUS
<1>1. ASSUME UNCHANGED <<addresses, entered>> PROVE MapInv'
  <2>1. addresses' = addresses /\ entered' = entered
    BY <1>1
  <2> QED BY <2>1, Zenon DEF MapInv, Ascending
<1>2. ASSUME NEW r \in Texts, InsertAddress(r) PROVE MapInv'
  <2> DEFINE n == Len(addresses)
             lb == LowerBound(r)
  <2>1. n \in Nat /\ addresses \in Seq(Texts) /\ Ascending /\ r \in Seq(Bytes)
        /\ \A i \in 1..n : addresses[i] \in Texts /\ addresses[i] \in Seq(Bytes)
    BY ElementOfSeq, TextsAreBytes DEF MapInv
  <2>2. CASE Finds(r)
    <3>1. r \in entered
      <4>1. \E i \in 1..n : addresses[i] = r
        BY <2>1, <2>2, FindsKeys
      <4> QED BY <4>1, Zenon DEF MapInv
    <3>2. UNCHANGED <<addresses, entered>>
      BY <1>2, <2>2, <3>1 DEF InsertAddress
    <3> QED BY <3>2, <1>1
  <2>3. CASE ~Finds(r)
    <3>1. /\ lb \in 1..(n + 1)
          /\ \A j \in 1..(lb - 1) : StringLess(addresses[j], r)
          /\ lb =< n => ~StringLess(addresses[lb], r)
      BY <2>1, PlaceOfKey
    <3>2. entered' = entered \cup {r}
      BY <1>2 DEF InsertAddress
    <3>3. /\ addresses' \in Seq(Texts) /\ Len(addresses') = n + 1
          /\ \A i \in 1..(n + 1) : addresses'[i] = IF i < lb THEN addresses[i]
                                   ELSE IF i = lb THEN r ELSE addresses[i - 1]
      <4>1. CASE lb > n
        <5>1. addresses' = Append(addresses, r)
          BY <1>2, <2>3, <4>1 DEF InsertAddress, AtEnd
        <5>2. lb = n + 1
          BY <4>1, <3>1, <2>1
        <5> HIDE DEF lb
        <5> QED BY <5>1, <5>2, <2>1, AppendProperties
      <4>2. CASE ~(lb > n)
        <5>1. addresses' = InsertAt(addresses, lb, r)
          BY <1>2, <2>3, <4>2 DEF InsertAddress, AtEnd
        <5>2. lb \in 1..n
          BY <4>2, <3>1, <2>1
        <5> HIDE DEF lb
        <5> QED BY <5>1, <5>2, <2>1, KeyInPlace
      <4> QED BY <4>1, <4>2
    <3>4. \A j \in lb..n : StringLess(r, addresses[j])
      <4> SUFFICES ASSUME NEW j \in lb..n PROVE StringLess(r, addresses[j])
        OBVIOUS
      <4>1. lb \in 1..n /\ j \in 1..n
        BY <3>1, <2>1
      <4>2. StringLess(r, addresses[lb])
        BY <4>1, <2>1, <2>3 DEF Finds, AtEnd, Less
      <4>3. j = lb \/ StringLess(addresses[lb], addresses[j])
        BY <4>1, <2>1 DEF Ascending
      <4> QED BY <4>1, <4>2, <4>3, <2>1, LessIsTransitive
    <3> HIDE DEF lb
    <3>5. Ascending'
      <4> SUFFICES ASSUME NEW i \in 1..(n + 1), NEW j \in 1..(n + 1), i < j
                   PROVE  StringLess(addresses'[i], addresses'[j])
        BY <3>3 DEF Ascending
      <4>1. CASE j < lb
        BY <4>1, <3>1, <3>3, <2>1 DEF Ascending
      <4>2. CASE j = lb
        BY <4>2, <3>1, <3>3, <2>1
      <4>3. CASE i < lb /\ j > lb
        <5>1. i \in 1..n /\ j - 1 \in 1..n /\ i < j - 1
          BY <4>3, <3>1, <2>1
        <5>2. StringLess(addresses[i], addresses[j - 1])
          BY <5>1, <2>1 DEF Ascending
        <5> QED BY <5>1, <5>2, <4>3, <3>1, <3>3, <2>1
      <4>4. CASE i = lb
        <5>1. j - 1 \in lb..n /\ j > lb
          BY <4>4, <3>1, <2>1
        <5> QED BY <5>1, <4>4, <3>3, <3>4
      <4>5. CASE i > lb
        <5>1. i - 1 \in 1..n /\ j - 1 \in 1..n /\ i - 1 < j - 1 /\ j > lb
          BY <4>5, <3>1, <2>1
        <5>2. StringLess(addresses[i - 1], addresses[j - 1])
          BY <5>1, <2>1 DEF Ascending
        <5> QED BY <5>1, <5>2, <4>5, <3>3, <3>1
      <4> QED BY <4>1, <4>2, <4>3, <4>4, <4>5, <3>1, <2>1
    <3>6. ASSUME NEW x
          PROVE  x \in entered' <=> \E i \in 1..(n + 1) : addresses'[i] = x
      <4>1. x \in entered' <=> x = r \/ \E i \in 1..n : addresses[i] = x
        BY <3>2, Zenon DEF MapInv
      <4>2. ASSUME NEW i \in 1..n PROVE \E k \in 1..(n + 1) : addresses'[k] = addresses[i]
        <5>1. CASE i < lb
          <6>1. i \in 1..(n + 1) /\ addresses'[i] = addresses[i]
            BY <5>1, <3>3, <2>1
          <6> QED BY <6>1
        <5>2. CASE ~(i < lb)
          <6>1. i + 1 \in 1..(n + 1) /\ addresses'[i + 1] = addresses[(i + 1) - 1]
            BY <5>2, <3>3, <3>1, <2>1
          <6>2. (i + 1) - 1 = i
            BY <2>1
          <6> QED BY <6>1, <6>2
        <5> QED BY <5>1, <5>2
      <4>3. addresses'[lb] = r
        BY <3>1, <3>3
      <4>4. ASSUME NEW i \in 1..(n + 1)
            PROVE  addresses'[i] = r \/ \E k \in 1..n : addresses[k] = addresses'[i]
        <5>1. CASE i < lb
          <6>1. i \in 1..n /\ addresses'[i] = addresses[i]
            BY <5>1, <3>3, <3>1, <2>1
          <6> QED BY <6>1
        <5>2. CASE i = lb
          BY <5>2, <4>3
        <5>3. CASE i > lb
          <6>1. i - 1 \in 1..n /\ addresses'[i] = addresses[i - 1]
            BY <5>3, <3>3, <3>1, <2>1
          <6> QED BY <6>1
        <5> QED BY <5>1, <5>2, <5>3, <3>1
      <4> QED BY <4>1, <4>2, <4>3, <4>4, <3>1
    <3> QED BY <3>3, <3>5, <3>6 DEF MapInv
  <2> QED BY <2>2, <2>3
<1> QED BY <1>1, <1>2 DEF Next, vars, AddDispatcher, Receive, FindDispatcher, HashKey

(* Whatever realms are inserted and in whatever order: each is there once, in
   ascending order, and a search finds it and no realm that was not inserted. *)
THEOREM RealmsAreFound == Spec => []AddressesFound
<1>1. Init => MapInv
  <2> SUFFICES ASSUME Init PROVE MapInv
    OBVIOUS
  <2>1. addresses = <<>> /\ Len(addresses) = 0 /\ entered = {}
    BY DEF Init
  <2> QED BY <2>1 DEF MapInv, Ascending
<1>2. MapInv => AddressesFound
  <2> SUFFICES ASSUME MapInv PROVE AddressesFound
    OBVIOUS
  <2>1. DOMAIN addresses = 1..Len(addresses)
    BY DEF MapInv
  <2>2. \A i, j \in DOMAIN addresses : i < j => StringLess(addresses[i], addresses[j])
    BY <2>1 DEF MapInv, Ascending
  <2>3. \A r \in Texts : Finds(r) <=> r \in entered
    BY FindsKeys DEF MapInv
  <2> QED BY <2>2, <2>3 DEF AddressesFound
<1> QED BY <1>1, <1>2, MapStep, PTL DEF Spec

-----------------------------------------------------------------------------
(* The dispatcher table                                                    *)

(* The hash of two pointers is a hash of the texts they point to. *)
LEMMA HashOfContents ==
    ASSUME NEW k PROVE HashPointers(k) = HashFields(Contents(k))
<1>1. Fields("pointers", <<TextOf(k[1]), TextOf(k[2])>>) = Contents(k)
  BY DEF Fields, Contents
<1> QED BY <1>1 DEF HashPointers

(* equal_to holds of two pairs of pointers exactly if the texts are equal. *)
LEMMA EqualContents ==
    ASSUME NEW j, NEW k
    PROVE  EqualTo(j, k) <=> Contents(j) = Contents(k)
<1>1. Contents(j) = Contents(k) <=>
         /\ CString(TextOf(j[1])) = CString(TextOf(k[1]))
         /\ CString(TextOf(j[2])) = CString(TextOf(k[2]))
  BY DEF Contents
<1> QED BY <1>1 DEF EqualTo

(* Hash and equality agree: a search meets every entry with the same texts,
   for it is in the bucket that is searched.                               *)
LEMMA MatchesHaveContents ==
    ASSUME NEW k
    PROVE  Matches(k) = {e \in ToSet(table) : Contents(e.key) = Contents(k)}
<1>1. ASSUME NEW e, Contents(e.key) = Contents(k)
      PROVE  Bucket(HashPointers(e.key)) = Bucket(HashPointers(k))
  <2>1. HashPointers(e.key) = HashPointers(k)
    BY <1>1, HashOfContents
  <2> QED BY <2>1
<1>2. ASSUME NEW e \in ToSet(table)
      PROVE  e \in Matches(k) <=> Contents(e.key) = Contents(k)
  BY <1>1, EqualContents DEF Matches
<1>3. Matches(k) \subseteq ToSet(table)
  BY DEF Matches
<1> QED BY <1>2, <1>3

(* The table's keys are literals, with any dispatcher as value. *)
Entries == [key : Literals \X Literals, value : Dispatchers]
TableInv == table \in Seq(Entries)

(* Only a literal's address comes into the table. *)
LEMMA TableStep == TableInv /\ [Next]_vars => TableInv'
<1> SUFFICES ASSUME TableInv, [Next]_vars PROVE TableInv'
  OBVIOUS
<1>1. ASSUME table' = table PROVE TableInv'
  BY <1>1 DEF TableInv
<1>2. ASSUME NEW p \in Literals, NEW q \in Literals, NEW d \in Dispatchers,
             AddDispatcher(p, q, d)
      PROVE  TableInv'
  <2>1. [key |-> <<p, q>>, value |-> d] \in Entries
    BY DEF Entries
  <2> QED BY <1>2, <2>1, AppendProperties DEF AddDispatcher, TableInv
<1> QED BY <1>1, <1>2
        DEF Next, vars, Receive, FindDispatcher, HashKey, InsertAddress

(* The texts of a literal are not those of a message: they stay. *)
LEMMA LiteralsKeepTheirTexts ==
    ASSUME TableInv, NEW e \in ToSet(table)
    PROVE  Contents(e.key)' = Contents(e.key)
<1>1. e \in Entries
  BY ElementOfSeq DEF TableInv, ToSet
<1>2. e.key[1] \in Literals /\ e.key[2] \in Literals
  BY <1>1 DEF Entries
<1>3. TextOf(e.key[1])' = TextOf(e.key[1]) /\ TextOf(e.key[2])' = TextOf(e.key[2])
  BY <1>2 DEF TextOf
<1> QED BY <1>3 DEF Contents

(* The map over texts that the table stands for. *)
Mapped == {<<Contents(e.key), e.value>> : e \in ToSet(table)}

(* Every step of the table adds a new pair of texts to the map, or none. *)
LEMMA TableRefines ==
    ASSUME TableInv, [Next]_vars
    PROVE  [Abstract!Next]_Mapped
<1>1. ASSUME table' = table PROVE Mapped' = Mapped
  <2>1. \A e \in ToSet(table) : Contents(e.key)' = Contents(e.key)
    BY LiteralsKeepTheirTexts
  <2> QED BY <1>1, <2>1 DEF Mapped
<1>2. ASSUME NEW p \in Literals, NEW q \in Literals, NEW d \in Dispatchers,
             AddDispatcher(p, q, d), Matches(<<p, q>>) = {}
      PROVE  Abstract!Next
  <2> DEFINE k == <<p, q>>
             e0 == [key |-> k, value |-> d]
             new == <<Contents(k), d>>
  <2>1. table' = Append(table, e0) /\ message' = message
    BY <1>2 DEF AddDispatcher
  <2>2. e0 \in Entries /\ e0.key = k /\ e0.value = d
    BY DEF Entries
  <2>3. ToSet(table') = ToSet(table) \cup {e0}
    <3>1. /\ Append(table, e0) \in Seq(Entries)
          /\ Len(Append(table, e0)) = Len(table) + 1
          /\ \A i \in 1..Len(table) : Append(table, e0)[i] = table[i]
          /\ Append(table, e0)[Len(table) + 1] = e0
      BY <2>2, AppendProperties DEF TableInv
    <3>2. /\ DOMAIN table = 1..Len(table) /\ Len(table) \in Nat
          /\ DOMAIN table' = 1..(Len(table) + 1)
      BY <2>1, <3>1 DEF TableInv
    <3> HIDE DEF e0
    <3>3. ASSUME NEW x \in ToSet(table') PROVE x \in ToSet(table) \cup {e0}
      <4>1. PICK i \in 1..(Len(table) + 1) : x = table'[i]
        BY <3>2, <3>3 DEF ToSet
      <4>2. CASE i \in 1..Len(table)
        BY <4>1, <4>2, <3>1, <3>2, <2>1 DEF ToSet
      <4>3. CASE i = Len(table) + 1
        BY <4>1, <4>3, <3>1, <2>1
      <4> QED BY <4>2, <4>3, <3>2
    <3>4. ASSUME NEW x \in ToSet(table) \cup {e0} PROVE x \in ToSet(table')
      <4>1. CASE x = e0
        <5>1. Len(table) + 1 \in DOMAIN table' /\ table'[Len(table) + 1] = e0
          BY <3>1, <3>2, <2>1
        <5> QED BY <4>1, <5>1 DEF ToSet
      <4>2. CASE x \in ToSet(table)
        <5>1. PICK i \in 1..Len(table) : x = table[i]
          BY <4>2, <3>2 DEF ToSet
        <5>2. i \in DOMAIN table' /\ table'[i] = x
          BY <5>1, <3>1, <3>2, <2>1
        <5> QED BY <5>2 DEF ToSet
      <4> QED BY <3>4, <4>1, <4>2
    <3> QED BY <3>3, <3>4
  <2> HIDE DEF e0, k
  <2>4. \A e \in ToSet(table) : Contents(e.key)' = Contents(e.key)
    BY LiteralsKeepTheirTexts
  <2>5. Contents(k)' = Contents(k)
    BY <2>1 DEF Contents, TextOf, k
  <2>6. Mapped' = Mapped \cup {new}
    <3>1. Mapped' = {<<Contents(e.key)', e.value>> : e \in ToSet(table')}
      BY Zenon DEF Mapped
    <3>2. \A e \in ToSet(table') : e \in ToSet(table) \/ e = e0
      BY <2>3
    <3>3. e0 \in ToSet(table') /\ ToSet(table) \subseteq ToSet(table')
      BY <2>3
    <3>4. Contents(e0.key)' = Contents(k) /\ e0.value = d
      BY <2>2, <2>5
    <3>5. ASSUME NEW x \in Mapped' PROVE x \in Mapped \cup {new}
      BY <3>5, <3>1, <3>2, <3>4, <2>4 DEF Mapped
    <3>6. ASSUME NEW x \in Mapped PROVE x \in Mapped'
      BY <3>6, <3>1, <3>3, <2>4 DEF Mapped
    <3>7. new \in Mapped'
      BY <3>1, <3>3, <3>4
    <3> QED BY <3>5, <3>6, <3>7
  <2>7. \A x \in Mapped : x[1] # Contents(k)
    <3> SUFFICES ASSUME NEW x \in Mapped, x[1] = Contents(k) PROVE FALSE
      OBVIOUS
    <3>1. PICK e \in ToSet(table) : x = <<Contents(e.key), e.value>>
      BY DEF Mapped
    <3>2. Contents(e.key) = Contents(k)
      BY <3>1
    <3>3. e \in Matches(k)
      BY <3>2, MatchesHaveContents
    <3> QED BY <3>3, <1>2 DEF k
  <2>8. new \notin Mapped /\ new[1] = Contents(k)
    BY <2>7
  <2> HIDE DEF new
  <2>9. new \in Mapped' \ Mapped /\ \A x \in Mapped : x[1] # new[1]
    BY <2>6, <2>7, <2>8
  <2> QED BY <2>6, <2>9 DEF Abstract!Next, Abstract!Absent, Mapped
<1>3. ASSUME NEW p \in Literals, NEW q \in Literals, NEW d \in Dispatchers,
             AddDispatcher(p, q, d), Matches(<<p, q>>) # {}
      PROVE  table' = table
  BY <1>3 DEF AddDispatcher
<1> QED BY <1>1, <1>2, <1>3
        DEF Next, vars, Receive, FindDispatcher, HashKey, InsertAddress

(* The dispatcher table, keyed by pointers and searched by bucket, implements
   the map over texts, whatever addresses the compiler gives the literals and
   whatever is in the message's buffers in the meantime.                   *)
THEOREM TableIsMapOfTexts == Spec => TableIsMap
<1>1. Init => TableInv /\ Abstract!Init
  <2> SUFFICES ASSUME Init PROVE TableInv /\ Abstract!Init
    OBVIOUS
  <2>1. table = <<>>
    BY DEF Init
  <2>2. ToSet(table) = {}
    BY <2>1 DEF ToSet
  <2> QED BY <2>1, <2>2 DEF TableInv, Abstract!Init
<1>2. TableInv /\ [Next]_vars => [Abstract!Next]_Mapped
  BY TableRefines
<1> QED BY <1>1, <1>2, TableStep, PTL DEF Spec, TableIsMap, Abstract!Spec, Mapped

(* A message goes to the dispatcher entered for its texts, and to none only
   if there is none.                                                       *)
THEOREM MessagesFindDispatchers == Spec => FoundByContents
<1> DEFINE E == {e \in ToSet(table) : Contents(e.key) = Contents(Buffers)}
           A == FindDispatcher =>
                   IF E = {} THEN found' = None ELSE \E e \in E : found' = e.value
<1>1. ASSUME FindDispatcher
      PROVE  IF E = {} THEN found' = None ELSE \E e \in E : found' = e.value
  <2>1. Matches(Buffers) = E
    BY MatchesHaveContents
  <2> QED BY <1>1, <2>1 DEF FindDispatcher
<1>2. [Next]_vars => [A]_vars
  BY <1>1
<1> QED BY <1>2, PTL DEF Spec, FoundByContents
=============================================================================
