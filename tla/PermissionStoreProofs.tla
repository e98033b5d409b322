----------------------- MODULE PermissionStoreProofs -----------------------
(***************************************************************************)
(* Theorems about PermissionStore, for any sessions, calls, front matter   *)
(* and edits, and any number of answers: an answer decides the call it was *)
(* given for and takes back no verdict of a rule, and the file decides     *)
(* every call as the session that wrote it did.                            *)
(***************************************************************************)
EXTENDS PermissionStore, SequenceTheorems, FiniteSetTheorems,
        WellFoundedInduction, TLAPS

-----------------------------------------------------------------------------
(***************************************************************************)
(* Lemmas about lists.                                                     *)
(***************************************************************************)
LEMMA MinProperties ==
  ASSUME NEW S \in SUBSET Nat, S # {}
  PROVE  Min(S) \in S /\ \A x \in S : Min(S) <= x
<1> DEFINE R == OpToRel(<, Nat)
<1>1. IsWellFoundedOn(R, Nat)
  BY NatLessThanWellFounded
<1>2. \A x, y \in Nat : <<y, x>> \in R <=> y < x
  BY Zenon DEF OpToRel
<1> HIDE DEF R
<1>3. PICK x \in S : \A y \in S : ~ (<<y, x>> \in R)
  BY <1>1, WFMin
<1>4. ASSUME NEW y \in S PROVE x <= y
  <2>1. x \in Nat /\ y \in Nat
    OBVIOUS
  <2>2. ~(y < x)
    BY <1>2, <1>3, <2>1, Zenon
  <2> QED
    BY <2>1, <2>2
<1> QED
  BY <1>4 DEF Min

(* e enumerates I in increasing order.                                     *)
Enumerates(e, I) ==
  /\ e \in [1..Cardinality(I) -> I]
  /\ \A x \in I : \E k \in 1..Cardinality(I) : e[k] = x
  /\ \A j, k \in 1..Cardinality(I) : j < k => e[j] < e[k]

(***************************************************************************)
(* Every finite set of numbers has an enumeration: a smallest set without  *)
(* one would have one that starts with its minimum.                        *)
(***************************************************************************)
LEMMA EnumerationExists ==
  ASSUME NEW I \in SUBSET Nat, IsFiniteSet(I)
  PROVE  \E e : Enumerates(e, I)
<1> DEFINE Bad == {n \in Nat : \E J \in SUBSET Nat :
                      /\ IsFiniteSet(J) /\ Cardinality(J) = n
                      /\ ~\E e : Enumerates(e, J)}
<1>1. ASSUME Bad # {} PROVE FALSE
  <2> DEFINE n == Min(Bad)
  <2>1. n \in Bad /\ \A k \in Bad : n <= k
    BY <1>1, MinProperties
  <2> HIDE DEF n
  <2>2. PICK J \in SUBSET Nat : /\ IsFiniteSet(J) /\ Cardinality(J) = n
                                /\ ~\E e : Enumerates(e, J)
    BY <2>1
  <2>3. CASE J = {}
    <3>1. Cardinality(J) = 0
      BY <2>3, FS_EmptySet
    <3>2. Enumerates([k \in 1..0 |-> 0], J)
      BY <2>3, <3>1 DEF Enumerates
    <3> QED
      BY <2>2, <3>2
  <2>4. CASE J # {}
    <3> DEFINE m == Min(J)
               K == J \ {m}
    <3>1. m \in J /\ \A x \in J : m <= x
      BY <2>4, MinProperties
    <3> HIDE DEF m
    <3>2. IsFiniteSet(K) /\ Cardinality(K) = n - 1
      BY <2>2, <3>1, FS_RemoveElement
    <3>3. n \in Nat /\ n # 0
      BY <2>1, <2>2, <2>4, FS_EmptySet
    <3>4. n - 1 \in Nat /\ ~(n <= n - 1)
      BY <3>3
    <3>5. n - 1 \notin Bad
      BY <2>1, <3>4
    <3>6. PICK f : Enumerates(f, K)
      BY <3>2, <3>4, <3>5
    <3> DEFINE e == [k \in 1..n |-> IF k = 1 THEN m ELSE f[k - 1]]
    <3>7. /\ f \in [1..(n - 1) -> K]
          /\ \A x \in K : \E k \in 1..(n - 1) : f[k] = x
          /\ \A j, k \in 1..(n - 1) : j < k => f[j] < f[k]
      BY <3>2, <3>6 DEF Enumerates
    <3>8. e \in [1..n -> J]
      BY <3>1, <3>3, <3>7
    <3>9. ASSUME NEW x \in J PROVE \E k \in 1..n : e[k] = x
      <4>1. CASE x = m
        BY <3>3, <4>1
      <4>2. CASE x # m
        <5>1. PICK k \in 1..(n - 1) : f[k] = x
          BY <3>7, <4>2
        <5>2. k + 1 \in 1..n /\ k + 1 # 1 /\ (k + 1) - 1 = k
          BY <3>3
        <5> QED
          BY <5>1, <5>2
      <4> QED
        BY <4>1, <4>2
    <3>10. ASSUME NEW j \in 1..n, NEW k \in 1..n, j < k PROVE e[j] < e[k]
      <4>1. k # 1 /\ k - 1 \in 1..(n - 1) /\ e[k] = f[k - 1]
        BY <3>3, <3>10
      <4>2. CASE j = 1
        <5>1. f[k - 1] \in K
          BY <3>7, <4>1
        <5>2. /\ m \in Nat /\ f[k - 1] \in Nat
              /\ m <= f[k - 1] /\ f[k - 1] # m
          BY <3>1, <5>1
        <5>3. m < f[k - 1]
          BY <5>2
        <5> QED
          BY <4>1, <4>2, <5>3
      <4>3. CASE j # 1
        <5>1. j - 1 \in 1..(n - 1) /\ j - 1 < k - 1 /\ e[j] = f[j - 1]
          BY <3>3, <3>10, <4>3
        <5> QED
          BY <3>7, <4>1, <5>1
      <4> QED
        BY <4>2, <4>3
    <3>11. Enumerates(e, J)
      <4> HIDE DEF e
      <4> QED
        BY <2>2, <3>8, <3>9, <3>10 DEF Enumerates
    <3> QED
      BY <2>2, <3>11
  <2> QED
    BY <2>3, <2>4
<1>2. Cardinality(I) \in Nat
  BY FS_CardinalityType
<1> QED
  BY <1>1, <1>2

LEMMA OrderEnumerates ==
  ASSUME NEW I \in SUBSET Nat, IsFiniteSet(I)
  PROVE  Enumerates(Order(I), I)
<1> DEFINE P(e) == /\ Range(e) = I
                   /\ \A j, k \in DOMAIN e : j < k => e[j] < e[k]
           Q(e) == e \in [1..Cardinality(I) -> I] /\ P(e)
<1>1. PICK e : Enumerates(e, I)
  BY EnumerationExists
<1>2. Q(e)
  BY <1>1 DEF Enumerates, Range
<1>3. \E f \in [1..Cardinality(I) -> I] : P(f)
  BY <1>2
<1>4. Q(Order(I))
  BY <1>3, Zenon DEF Order
<1> HIDE DEF Q, P
<1>5. ASSUME NEW f, Q(f) PROVE Enumerates(f, I)
  BY <1>5 DEF Enumerates, Q, P, Range
<1> QED
  BY <1>4, <1>5

(***************************************************************************)
(* At keeps the elements at the positions in I, in their order.            *)
(***************************************************************************)
LEMMA AtProperties ==
  ASSUME NEW T, NEW list \in Seq(T), NEW I \in SUBSET (1..Len(list))
  PROVE  /\ At(list, I) \in Seq(T)
         /\ Enumerates(Order(I), I)
         /\ Len(At(list, I)) = Cardinality(I)
         /\ Cardinality(I) \in Nat
         /\ \A k \in 1..Cardinality(I) :
              Order(I)[k] \in I /\ At(list, I)[k] = list[Order(I)[k]]
<1>1. Len(list) \in Nat
  OBVIOUS
<1>2. IsFiniteSet(1..Len(list))
  BY <1>1, FS_Interval
<1>3. IsFiniteSet(I)
  BY <1>2, FS_Subset
<1>4. I \in SUBSET Nat
  BY <1>1
<1>5. Enumerates(Order(I), I)
  BY <1>3, <1>4, OrderEnumerates
<1>6. Cardinality(I) \in Nat
  BY <1>3, FS_CardinalityType
<1> DEFINE e == Order(I)
<1>7. e \in [1..Cardinality(I) -> I]
  BY <1>5 DEF Enumerates
<1>8. 1..Cardinality(I) = DOMAIN e
  BY <1>7
<1>9. At(list, I) = [k \in 1..Cardinality(I) |-> list[e[k]]]
  BY <1>8, Zenon DEF At
<1> HIDE DEF e
<1>10. \A k \in 1..Cardinality(I) : e[k] \in I /\ list[e[k]] \in T
  <2>1. \A i \in 1..Len(list) : list[i] \in T
    BY ElementOfSeq
  <2>2. \A k \in 1..Cardinality(I) : e[k] \in I /\ e[k] \in 1..Len(list)
    BY <1>7
  <2> QED
    BY <2>1, <2>2
<1> QED
  BY <1>5, <1>6, <1>9, <1>10 DEF e
(* Distinct positions stay distinct, and every position in I is kept.      *)
LEMMA AtKeeps ==
  ASSUME NEW T, NEW list \in Seq(T), NEW I \in SUBSET (1..Len(list))
  PROVE  /\ \A k \in 1..Len(At(list, I)) : \E i \in I : At(list, I)[k] = list[i]
         /\ \A i \in I : \E k \in 1..Len(At(list, I)) : At(list, I)[k] = list[i]
<1> DEFINE e == Order(I)
           t == At(list, I)
<1>1. /\ Enumerates(e, I) /\ Len(t) = Cardinality(I)
      /\ \A k \in 1..Cardinality(I) : e[k] \in I /\ t[k] = list[e[k]]
  BY AtProperties
<1> HIDE DEF e, t
<1>2. \A i \in I : \E k \in 1..Cardinality(I) : e[k] = i
  BY <1>1 DEF Enumerates
<1>3. ASSUME NEW i \in I PROVE \E k \in 1..Len(t) : t[k] = list[i]
  <2>1. PICK k \in 1..Cardinality(I) : e[k] = i
    BY <1>2
  <2> QED
    BY <1>1, <2>1
<1>4. \A k \in 1..Len(t) : \E i \in I : t[k] = list[i]
  BY <1>1
<1> QED
  BY <1>3, <1>4 DEF t

(* A part of a list without repeated patterns has none either.             *)
LEMMA AtOnePerPattern ==
  ASSUME NEW T, NEW list \in Seq(T), NEW I \in SUBSET (1..Len(list)),
         OnePerPattern(list)
  PROVE  OnePerPattern(At(list, I))
<1> DEFINE e == Order(I)
           t == At(list, I)
           n == Cardinality(I)
<1>1. /\ Enumerates(e, I) /\ n \in Nat /\ t \in Seq(T) /\ Len(t) = n
      /\ \A k \in 1..n : e[k] \in I /\ t[k] = list[e[k]]
  BY AtProperties
<1> HIDE DEF e, t, n
<1>2. SUFFICES OnePerPattern(t)
  BY DEF t
<1>3. SUFFICES ASSUME NEW j \in 1..n, NEW k \in 1..n,
                      t[j].pattern = t[k].pattern
               PROVE  j = k
  BY <1>1 DEF OnePerPattern
<1>4. e[j] \in 1..Len(list) /\ e[k] \in 1..Len(list)
  BY <1>1
<1>5. list[e[j]].pattern = list[e[k]].pattern
  BY <1>1, <1>3
<1>6. e[j] = e[k]
  BY <1>4, <1>5 DEF OnePerPattern
<1>7. /\ j < k => e[j] < e[k]
      /\ k < j => e[k] < e[j]
  BY <1>1 DEF Enumerates, n
<1>8. e[j] \in Nat /\ ~(e[j] < e[j])
  BY <1>4
<1>9. j \in Nat /\ k \in Nat /\ ~(j < k) /\ ~(k < j)
  BY <1>6, <1>7, <1>8
<1> QED
  BY <1>9

-----------------------------------------------------------------------------
(***************************************************************************)
(* Lemmas about matches.                                                   *)
(***************************************************************************)
Hits(list, c) == {i \in 1..Len(list) : Matches(list[i].pattern, c)}

LEMMA FirstMatchIsMin ==
  ASSUME NEW list, NEW c
  PROVE  FirstMatch(list, c) = IF Hits(list, c) # {} THEN Min(Hits(list, c)) ELSE 0
BY Zenon DEF FirstMatch, SelectInSeq, Hits

LEMMA FirstMatchProperties ==
  ASSUME NEW T, NEW list \in Seq(T), NEW c
  PROVE  LET m == FirstMatch(list, c)
         IN  \/ m = 0 /\ \A i \in 1..Len(list) : ~Matches(list[i].pattern, c)
             \/ /\ m \in 1..Len(list) /\ Matches(list[m].pattern, c)
                /\ \A i \in 1..Len(list) : Matches(list[i].pattern, c) => m <= i
<1> DEFINE H == Hits(list, c)
           m == FirstMatch(list, c)
<1>1. H \in SUBSET Nat /\ \A i \in 1..Len(list) :
                              i \in H <=> Matches(list[i].pattern, c)
  BY DEF Hits
<1>2. \A i \in H : i \in 1..Len(list) /\ Matches(list[i].pattern, c)
  BY DEF Hits
<1>3. m = IF H # {} THEN Min(H) ELSE 0
  BY FirstMatchIsMin
<1> HIDE DEF H, m
<1>4. CASE H = {}
  BY <1>1, <1>3, <1>4 DEF m
<1>5. CASE H # {}
  <2>1. m \in H /\ \A i \in H : m <= i
    BY <1>1, <1>3, <1>5, MinProperties
  <2> QED
    BY <1>1, <1>2, <2>1 DEF m
<1> QED
  BY <1>4, <1>5

LEMMA FirstMatchIs ==
  ASSUME NEW T, NEW list \in Seq(T), NEW c, NEW k \in 1..Len(list),
         Matches(list[k].pattern, c),
         \A i \in 1..Len(list) : i < k => ~Matches(list[i].pattern, c)
  PROVE  FirstMatch(list, c) = k
<1> DEFINE m == FirstMatch(list, c)
<1>1. \/ m = 0 /\ \A i \in 1..Len(list) : ~Matches(list[i].pattern, c)
      \/ /\ m \in 1..Len(list) /\ Matches(list[m].pattern, c)
         /\ \A i \in 1..Len(list) : Matches(list[i].pattern, c) => m <= i
  BY FirstMatchProperties
<1> HIDE DEF m
<1>2. m \in 1..Len(list) /\ m <= k /\ ~(m < k)
  BY <1>1
<1>3. m = k
  BY <1>2
<1> QED
  BY <1>3 DEF m

(***************************************************************************)
(* The rule that decides a call in a list decides it in every part of the  *)
(* list that keeps it.                                                     *)
(***************************************************************************)
LEMMA FirstMatchAt ==
  ASSUME NEW T, NEW list \in Seq(T), NEW I \in SUBSET (1..Len(list)), NEW c,
         FirstMatch(list, c) \in I
  PROVE  LET f == FirstMatch(At(list, I), c)
         IN  f \in 1..Len(At(list, I)) /\ At(list, I)[f] = list[FirstMatch(list, c)]
<1> DEFINE e == Order(I)
           t == At(list, I)
           n == Cardinality(I)
           m == FirstMatch(list, c)
<1>1. /\ Enumerates(e, I) /\ n \in Nat /\ t \in Seq(T) /\ Len(t) = n
      /\ \A k \in 1..n : e[k] \in I /\ t[k] = list[e[k]]
  BY AtProperties
<1>2. \/ m = 0 /\ \A i \in 1..Len(list) : ~Matches(list[i].pattern, c)
      \/ /\ m \in 1..Len(list) /\ Matches(list[m].pattern, c)
         /\ \A i \in 1..Len(list) : Matches(list[i].pattern, c) => m <= i
  BY FirstMatchProperties
<1>3. m \in I
  OBVIOUS
<1> HIDE DEF e, t, n, m
<1>4. PICK k \in 1..n : e[k] = m
  BY <1>1, <1>3 DEF Enumerates, n
<1>5. m \in 1..Len(list) /\ Matches(list[m].pattern, c)
  BY <1>2, <1>3
<1>6. t[k] = list[m] /\ Matches(t[k].pattern, c)
  BY <1>1, <1>4, <1>5
<1>7. ASSUME NEW j \in 1..n, j < k PROVE ~Matches(t[j].pattern, c)
  <2>1. e[j] < m
    BY <1>1, <1>4, <1>7 DEF Enumerates, n
  <2>2. e[j] \in I /\ t[j] = list[e[j]]
    BY <1>1
  <2>3. e[j] \in 1..Len(list) /\ e[j] \in Nat /\ m \in Nat
    <3>1. \A i \in I : i \in 1..Len(list) /\ i \in Nat
      OBVIOUS
    <3> QED
      BY <1>3, <2>2, <3>1, Zenon
  <2>4. ~(m <= e[j])
    BY <2>1, <2>3
  <2> QED
    BY <1>2, <1>5, <2>2, <2>3, <2>4
<1>8. k \in 1..Len(t)
  BY <1>1
<1>9. FirstMatch(t, c) = k
  BY <1>1, <1>6, <1>7, <1>8, FirstMatchIs
<1> QED
  BY <1>6, <1>8, <1>9 DEF t, m

LEMMA FirstMatchConcat ==
  ASSUME NEW T, NEW s \in Seq(T), NEW t \in Seq(T), NEW c
  PROVE  LET f == FirstMatch(s \o t, c)
         IN  /\ FirstMatch(s, c) # 0 =>
                  f = FirstMatch(s, c) /\ (s \o t)[f] = s[f] /\ f \in 1..Len(s)
             /\ FirstMatch(s, c) = 0 /\ FirstMatch(t, c) # 0 =>
                  /\ f # 0 /\ (s \o t)[f] = t[FirstMatch(t, c)]
                  /\ FirstMatch(t, c) \in 1..Len(t)
             /\ FirstMatch(s, c) = 0 /\ FirstMatch(t, c) = 0 => f = 0
<1> DEFINE u == s \o t
           a == FirstMatch(s, c)
           b == FirstMatch(t, c)
           f == FirstMatch(u, c)
<1>1. /\ u \in Seq(T) /\ Len(u) = Len(s) + Len(t)
      /\ \A i \in 1..Len(s) : u[i] = s[i]
      /\ \A i \in 1..Len(t) : u[Len(s) + i] = t[i]
  BY ConcatProperties
<1>2. \/ a = 0 /\ \A i \in 1..Len(s) : ~Matches(s[i].pattern, c)
      \/ /\ a \in 1..Len(s) /\ Matches(s[a].pattern, c)
         /\ \A i \in 1..Len(s) : Matches(s[i].pattern, c) => a <= i
  BY FirstMatchProperties
<1>3. \/ b = 0 /\ \A i \in 1..Len(t) : ~Matches(t[i].pattern, c)
      \/ /\ b \in 1..Len(t) /\ Matches(t[b].pattern, c)
         /\ \A i \in 1..Len(t) : Matches(t[i].pattern, c) => b <= i
  BY FirstMatchProperties
<1>4. \/ f = 0 /\ \A i \in 1..Len(u) : ~Matches(u[i].pattern, c)
      \/ /\ f \in 1..Len(u) /\ Matches(u[f].pattern, c)
         /\ \A i \in 1..Len(u) : Matches(u[i].pattern, c) => f <= i
  BY <1>1, FirstMatchProperties
<1>5. Len(s) \in Nat /\ Len(t) \in Nat
  OBVIOUS
<1> HIDE DEF u, a, b, f
<1>6. ASSUME a # 0 PROVE f = a /\ u[f] = s[f] /\ f \in 1..Len(s)
  <2>1. a \in 1..Len(u) /\ u[a] = s[a] /\ Matches(u[a].pattern, c)
    BY <1>1, <1>2, <1>5, <1>6
  <2>2. ASSUME NEW i \in 1..Len(u), i < a PROVE ~Matches(u[i].pattern, c)
    <3>1. i \in 1..Len(s) /\ ~(a <= i)
      BY <1>2, <1>5, <1>6, <2>2
    <3> QED
      BY <1>1, <1>2, <1>6, <3>1
  <2>3. f = a
    BY <1>1, <2>1, <2>2, FirstMatchIs DEF f
  <2> QED
    BY <1>2, <1>6, <2>1, <2>3
<1>7. ASSUME a = 0 PROVE \A i \in 1..Len(u) :
                            Matches(u[i].pattern, c) =>
                              /\ i - Len(s) \in 1..Len(t)
                              /\ u[i] = t[i - Len(s)]
  <2> SUFFICES ASSUME NEW i \in 1..Len(u), Matches(u[i].pattern, c)
               PROVE  i - Len(s) \in 1..Len(t) /\ u[i] = t[i - Len(s)]
    OBVIOUS
  <2>1. i \notin 1..Len(s)
    BY <1>1, <1>2, <1>7
  <2>2. i - Len(s) \in 1..Len(t) /\ Len(s) + (i - Len(s)) = i
    BY <1>1, <1>5, <2>1
  <2> QED
    BY <1>1, <2>2
<1>8. ASSUME a = 0, b # 0 PROVE f # 0 /\ u[f] = t[b] /\ b \in 1..Len(t)
  <2>1. b \in 1..Len(t) /\ Matches(t[b].pattern, c)
    BY <1>3, <1>8
  <2>2. /\ Len(s) + b \in 1..Len(u) /\ u[Len(s) + b] = t[b]
        /\ Matches(u[Len(s) + b].pattern, c)
    BY <1>1, <1>5, <2>1
  <2>3. ASSUME NEW i \in 1..Len(u), i < Len(s) + b
        PROVE  ~Matches(u[i].pattern, c)
    <3>1. SUFFICES ASSUME Matches(u[i].pattern, c) PROVE FALSE
      OBVIOUS
    <3>2. i - Len(s) \in 1..Len(t) /\ Matches(t[i - Len(s)].pattern, c)
      BY <1>7, <1>8, <3>1
    <3>3. b <= i - Len(s)
      BY <1>3, <1>8, <3>2
    <3> QED
      BY <1>5, <2>1, <2>3, <3>3
  <2>4. f = Len(s) + b
    BY <1>1, <2>2, <2>3, FirstMatchIs DEF f
  <2>5. f # 0
    BY <1>5, <2>1, <2>4
  <2> QED
    BY <2>1, <2>2, <2>4, <2>5
<1>9. ASSUME a = 0, b = 0 PROVE f = 0
  <2>1. \A i \in 1..Len(u) : ~Matches(u[i].pattern, c)
    BY <1>3, <1>7, <1>9
  <2> QED
    BY <1>4, <2>1
<1> QED
  BY <1>6, <1>8, <1>9 DEF u, a, b, f
(* A part of a list without a match has none.                              *)
LEMMA NoMatchAt ==
  ASSUME NEW T, NEW list \in Seq(T), NEW I \in SUBSET (1..Len(list)), NEW c,
         \A i \in I : ~Matches(list[i].pattern, c)
  PROVE  FirstMatch(At(list, I), c) = 0
<1> DEFINE t == At(list, I)
<1>1. t \in Seq(T)
  BY AtProperties
<1>2. \A k \in 1..Len(t) : \E i \in I : t[k] = list[i]
  BY AtKeeps
<1> HIDE DEF t
<1>3. \A k \in 1..Len(t) : ~Matches(t[k].pattern, c)
  BY <1>2
<1>4. FirstMatch(t, c) = 0
  BY <1>1, <1>3, FirstMatchProperties
<1> QED
  BY <1>4 DEF t

(***************************************************************************)
(* A call that the sensitive paths or the front matter decide is decided   *)
(* whatever the rules are; another one by the first rule that matches it.  *)
(***************************************************************************)
Settled(c) ==
  (c.kind = "path" /\ Sensitive(c.arg)) \/ FirstMatch(FrontMatter, c) # 0

LEMMA SettledCalls ==
  ASSUME NEW c, Settled(c)
  PROVE  \E d \in Decision : \A list : Evaluate(list, c) = d
<1> DEFINE floor == c.kind = "path" /\ Sensitive(c.arg)
           front == FirstMatch(FrontMatter, c)
<1>1. CASE floor
  <2>1. \A list : Evaluate(list, c) = "deny"
    BY <1>1 DEF Evaluate
  <2> QED
    BY <2>1 DEF Decision
<1>2. CASE ~floor /\ front # 0
  <2>1. FrontMatter \in Seq(RuleShape)
    BY StoreAssumption
  <2>2. front \in 1..Len(FrontMatter)
    BY <1>2, <2>1, FirstMatchProperties
  <2>3. FrontMatter[front] \in RuleShape
    BY <2>1, <2>2, ElementOfSeq
  <2>4. \A list : Evaluate(list, c) = FrontMatter[front].decision
    BY <1>2 DEF Evaluate
  <2> QED
    BY <2>3, <2>4 DEF RuleShape
<1> QED
  BY <1>1, <1>2 DEF Settled

LEMMA OpenCalls ==
  ASSUME NEW c, ~Settled(c), NEW list
  PROVE  Evaluate(list, c) = IF FirstMatch(list, c) # 0
                             THEN list[FirstMatch(list, c)].decision
                             ELSE Default(c)
BY DEF Evaluate, Settled

LEMMA MatchDecides ==
  ASSUME NEW list \in Seq(Rule), NEW c, FirstMatch(list, c) # 0
  PROVE  list[FirstMatch(list, c)].decision \in Decision
<1>1. FirstMatch(list, c) \in 1..Len(list)
  BY FirstMatchProperties
<1>2. list[FirstMatch(list, c)] \in Rule
  BY <1>1, ElementOfSeq
<1> QED
  BY <1>2 DEF Rule

(* A call matches the pattern that an answer to it records.                *)
LEMMA OwnPattern ==
  ASSUME NEW c \in Calls
  PROVE  Matches(Pattern(c), c)
<1>1. c \in [tool : STRING, kind : Kind, arg : Seq(STRING)]
  BY StoreAssumption DEF Shape
<1>2. CASE c.kind = "path" /\ c.tool \in FsTools
  <2>1. Pattern(c) = c
    BY <1>2 DEF Pattern
  <2>2. IsPrefix(c.arg, c.arg)
    BY <1>1 DEF IsPrefix
  <2> QED
    BY <1>2, <2>1, <2>2 DEF Matches
<1>3. CASE c.kind = "command" /\ c.tool = "run" /\ c.arg # <<>>
  <2>1. Pattern(c) = [c EXCEPT !.arg = <<Head(c.arg)>>]
    BY <1>3 DEF Pattern
  <2>2. /\ Pattern(c).tool = c.tool /\ Pattern(c).kind = "command"
        /\ Pattern(c).arg = <<Head(c.arg)>>
    BY <1>1, <1>3, <2>1
  <2> QED
    BY <1>3, <2>2 DEF Matches
<1>4. CASE /\ ~(c.kind = "path" /\ c.tool \in FsTools)
           /\ ~(c.kind = "command" /\ c.tool = "run" /\ c.arg # <<>>)
  <2>1. Pattern(c) = [c EXCEPT !.kind = "none", !.arg = <<>>]
    BY <1>4 DEF Pattern
  <2>2. Pattern(c).tool = c.tool /\ Pattern(c).kind = "none"
    BY <1>1, <2>1
  <2> QED
    BY <2>2 DEF Matches
<1> QED
  BY <1>2, <1>3, <1>4

-----------------------------------------------------------------------------
(***************************************************************************)
(* Lemmas about add_rule and the order of the file.                        *)
(***************************************************************************)
LEMMA RecordedProperties ==
  ASSUME NEW list \in Seq(Rule), NEW r \in Rule
  PROVE  /\ Recorded(list, r) \in Seq(Rule)
         /\ OnePerPattern(list) => OnePerPattern(Recorded(list, r))
         /\ r.pattern \in Patterns(list) =>
              Patterns(Recorded(list, r)) = Patterns(list)
<1> DEFINE I == Others(list, r)
           t == At(list, I)
           u == Recorded(list, r)
<1>1. I \in SUBSET (1..Len(list)) /\ DOMAIN list = 1..Len(list)
  BY DEF Others
<1>2. t \in Seq(Rule) /\ (OnePerPattern(list) => OnePerPattern(t))
  BY <1>1, AtProperties, AtOnePerPattern
<1>3. /\ \A k \in 1..Len(t) : \E i \in I : t[k] = list[i]
      /\ \A i \in I : \E k \in 1..Len(t) : t[k] = list[i]
  BY <1>1, AtKeeps
<1>4. u = Append(t, r)
  BY DEF Recorded
<1>5. \A i \in 1..Len(list) : i \in I <=> list[i].pattern # r.pattern
  BY <1>1 DEF Others
<1> HIDE DEF I, t, u
<1>6. /\ u \in Seq(Rule) /\ Len(u) = Len(t) + 1 /\ Len(t) \in Nat
      /\ \A i \in 1..Len(t) : u[i] = t[i]
      /\ u[Len(t) + 1] = r
  BY <1>2, <1>4, AppendProperties
<1>7. \A k \in 1..Len(t) : t[k].pattern # r.pattern
  BY <1>1, <1>3, <1>5
<1>8. ASSUME OnePerPattern(list) PROVE OnePerPattern(u)
  <2>1. SUFFICES ASSUME NEW i \in 1..Len(u), NEW j \in 1..Len(u),
                        u[i].pattern = u[j].pattern
                 PROVE  i = j
    BY <1>6 DEF OnePerPattern
  <2>2. /\ i \in 1..Len(t) \/ i = Len(t) + 1
        /\ j \in 1..Len(t) \/ j = Len(t) + 1
    BY <1>6
  <2>3. CASE i \in 1..Len(t) /\ j \in 1..Len(t)
    <3>1. t[i].pattern = t[j].pattern
      BY <1>6, <2>1, <2>3
    <3> QED
      BY <1>2, <1>8, <2>3, <3>1 DEF OnePerPattern
  <2> QED
    BY <1>6, <1>7, <2>1, <2>2, <2>3
<1>9. ASSUME r.pattern \in Patterns(list) PROVE Patterns(u) = Patterns(list)
  <2>1. \A p : p \in Patterns(list) <=>
                 \E i \in 1..Len(list) : p = list[i].pattern
    BY <1>1 DEF Patterns, Range
  <2>2. \A p : p \in Patterns(u) <=> \E i \in 1..Len(u) : p = u[i].pattern
    BY <1>6 DEF Patterns, Range
  <2>3. ASSUME NEW p \in Patterns(u) PROVE p \in Patterns(list)
    <3>1. PICK i \in 1..Len(u) : p = u[i].pattern
      BY <2>2, <2>3
    <3>2. CASE i \in 1..Len(t)
      BY <1>1, <1>3, <1>6, <2>1, <3>1, <3>2
    <3>3. CASE i = Len(t) + 1
      BY <1>6, <1>9, <3>1, <3>3
    <3> QED
      BY <1>6, <3>2, <3>3
  <2>4. ASSUME NEW p \in Patterns(list) PROVE p \in Patterns(u)
    <3>1. PICK i \in 1..Len(list) : p = list[i].pattern
      BY <2>1, <2>4
    <3>2. CASE p = r.pattern
      <4>1. Len(t) + 1 \in 1..Len(u)
        BY <1>6
      <4> QED
        BY <1>6, <2>2, <3>2, <4>1
    <3>3. CASE p # r.pattern
      <4>1. PICK k \in 1..Len(t) : t[k] = list[i]
        BY <1>3, <1>5, <3>1, <3>3
      <4>2. k \in 1..Len(u) /\ p = u[k].pattern
        BY <1>6, <3>1, <4>1
      <4> QED
        BY <2>2, <4>2
    <3> QED
      BY <3>2, <3>3
  <2> QED
    BY <2>3, <2>4
<1> QED
  BY <1>6, <1>8, <1>9 DEF u

(***************************************************************************)
(* The new rule decides what no rule decided before; and an answer with a  *)
(* new pattern leaves every call to the rule that decided it.              *)
(***************************************************************************)
LEMMA RecordedDecides ==
  ASSUME NEW list \in Seq(Rule), NEW r \in Rule, NEW c
  PROVE  LET u == Recorded(list, r)
             f == FirstMatch(u, c)
         IN  /\ FirstMatch(list, c) = 0 /\ Matches(r.pattern, c) =>
                  f # 0 /\ u[f] = r
             /\ FirstMatch(list, c) # 0 /\ r.pattern \notin Patterns(list) =>
                  f # 0 /\ u[f] = list[FirstMatch(list, c)]
<1> DEFINE I == Others(list, r)
           t == At(list, I)
           w == <<r>>
           u == Recorded(list, r)
           f == FirstMatch(u, c)
           m == FirstMatch(list, c)
<1>1. I \in SUBSET (1..Len(list)) /\ DOMAIN list = 1..Len(list)
  BY DEF Others
<1>2. t \in Seq(Rule) /\ w \in Seq(Rule)
  BY <1>1, AtProperties
<1>3. u = t \o w
  BY <1>2, AppendIsConcat DEF Recorded
<1>4. /\ FirstMatch(t, c) # 0 =>
           f = FirstMatch(t, c) /\ u[f] = t[f] /\ f \in 1..Len(t)
      /\ FirstMatch(t, c) = 0 /\ FirstMatch(w, c) # 0 =>
           /\ f # 0 /\ u[f] = w[FirstMatch(w, c)]
           /\ FirstMatch(w, c) \in 1..Len(w)
  <2> HIDE DEF t, u, w, f
  <2>1. f = FirstMatch(t \o w, c) /\ u = t \o w
    BY <1>3 DEF f
  <2>2. LET g == FirstMatch(t \o w, c)
        IN  /\ FirstMatch(t, c) # 0 =>
                 g = FirstMatch(t, c) /\ (t \o w)[g] = t[g] /\ g \in 1..Len(t)
            /\ FirstMatch(t, c) = 0 /\ FirstMatch(w, c) # 0 =>
                 /\ g # 0 /\ (t \o w)[g] = w[FirstMatch(w, c)]
                 /\ FirstMatch(w, c) \in 1..Len(w)
    BY <1>2, FirstMatchConcat, Zenon
  <2> QED
    BY <2>1, <2>2, Zenon
<1>5. ASSUME m = 0, Matches(r.pattern, c) PROVE f # 0 /\ u[f] = r
  <2>1. \A i \in 1..Len(list) : ~Matches(list[i].pattern, c)
    BY <1>5, FirstMatchProperties
  <2>2. FirstMatch(t, c) = 0
    BY <1>1, <2>1, NoMatchAt
  <2>3. 1 \in 1..Len(w) /\ w[1] = r /\ \A i \in 1..Len(w) : ~(i < 1)
    OBVIOUS
  <2> HIDE DEF t, u, w
  <2>4. FirstMatch(w, c) = 1
    BY <1>2, <1>5, <2>3, FirstMatchIs
  <2> QED
    BY <1>4, <2>2, <2>3, <2>4
<1>6. ASSUME m # 0, r.pattern \notin Patterns(list)
      PROVE  f # 0 /\ u[f] = list[m]
  <2>1. m \in 1..Len(list)
    BY <1>6, FirstMatchProperties
  <2>2. list[m].pattern \in Patterns(list)
    BY <1>1, <2>1 DEF Patterns, Range
  <2>3. m \in I
    BY <1>1, <1>6, <2>1, <2>2 DEF Others
  <2>4. FirstMatch(t, c) \in 1..Len(t) /\ t[FirstMatch(t, c)] = list[m]
    BY <1>1, <2>3, FirstMatchAt
  <2> HIDE DEF t, f, u, w, m
  <2>5. FirstMatch(t, c) # 0
    BY <2>4
  <2> QED
    BY <1>4, <2>4, <2>5
<1> QED
  BY <1>5, <1>6

(* The file holds the rules of the memory, each once.                      *)
LEMMA SortedProperties ==
  ASSUME NEW list \in Seq(Rule)
  PROVE  /\ Sorted(list) \in Seq(Rule)
         /\ OnePerPattern(list) => OnePerPattern(Sorted(list))
<1> DEFINE I(d) == {i \in DOMAIN list : list[i].decision = d}
           a == Deciding(list, "allow")
           b == Deciding(list, "deny")
           u == Sorted(list)
<1>1. DOMAIN list = 1..Len(list)
  OBVIOUS
<1>2. \A d : I(d) \in SUBSET (1..Len(list))
  BY <1>1
<1>3. a = At(list, I("allow")) /\ b = At(list, I("deny")) /\ u = a \o b
  BY DEF Deciding, Sorted
<1>4. /\ \A k \in 1..Len(a) : \E i \in I("allow") : a[k] = list[i]
      /\ \A k \in 1..Len(b) : \E i \in I("deny") : b[k] = list[i]
  <2> HIDE DEF I, a, b
  <2>1. ASSUME NEW d
        PROVE  \A k \in 1..Len(At(list, I(d))) :
                 \E i \in I(d) : At(list, I(d))[k] = list[i]
    <3>1. I(d) \in SUBSET (1..Len(list))
      BY <1>2
    <3> QED
      BY <3>1, AtKeeps, Zenon
  <2> QED
    BY <1>3, <2>1
<1>5. /\ a \in Seq(Rule) /\ b \in Seq(Rule)
      /\ OnePerPattern(list) => OnePerPattern(a) /\ OnePerPattern(b)
  BY <1>2, <1>3, AtProperties, AtOnePerPattern
<1>6. /\ u \in Seq(Rule) /\ Len(u) = Len(a) + Len(b)
      /\ \A i \in 1..Len(a) : u[i] = a[i]
      /\ \A i \in 1..Len(b) : u[Len(a) + i] = b[i]
      /\ Len(a) \in Nat /\ Len(b) \in Nat
  BY <1>3, <1>5, ConcatProperties
<1>7. /\ \A k \in 1..Len(a) : \E i \in 1..Len(list) :
              a[k] = list[i] /\ list[i].decision = "allow"
      /\ \A k \in 1..Len(b) : \E i \in 1..Len(list) :
              b[k] = list[i] /\ list[i].decision = "deny"
  BY <1>1, <1>4
<1> HIDE DEF I, a, b, u
<1>8. ASSUME OnePerPattern(list) PROVE OnePerPattern(u)
  <2>1. ASSUME NEW j \in 1..Len(a), NEW k \in 1..Len(b)
        PROVE  a[j].pattern # b[k].pattern
    <3>1. PICK i \in 1..Len(list) : a[j] = list[i] /\ list[i].decision = "allow"
      BY <1>7
    <3>2. PICK n \in 1..Len(list) : b[k] = list[n] /\ list[n].decision = "deny"
      BY <1>7
    <3> QED
      BY <1>1, <1>8, <3>1, <3>2 DEF OnePerPattern
  <2>2. SUFFICES ASSUME NEW j \in 1..Len(u), NEW k \in 1..Len(u),
                        u[j].pattern = u[k].pattern
                 PROVE  j = k
    BY <1>6 DEF OnePerPattern
  <2>3. /\ \/ j \in 1..Len(a) /\ u[j] = a[j]
           \/ j - Len(a) \in 1..Len(b) /\ u[j] = b[j - Len(a)]
        /\ \/ k \in 1..Len(a) /\ u[k] = a[k]
           \/ k - Len(a) \in 1..Len(b) /\ u[k] = b[k - Len(a)]
    <3>1. ASSUME NEW n \in 1..Len(u), n \notin 1..Len(a)
          PROVE  n - Len(a) \in 1..Len(b) /\ u[n] = b[n - Len(a)]
      <4>1. n - Len(a) \in 1..Len(b) /\ Len(a) + (n - Len(a)) = n
        BY <1>6, <3>1
      <4> QED
        BY <1>6, <4>1
    <3> QED
      BY <1>6, <3>1
  <2>4. /\ DOMAIN a = 1..Len(a) /\ DOMAIN b = 1..Len(b)
        /\ OnePerPattern(a) /\ OnePerPattern(b)
    BY <1>5, <1>8
  <2>5. /\ \A x, y \in 1..Len(a) : a[x].pattern = a[y].pattern => x = y
        /\ \A x, y \in 1..Len(b) : b[x].pattern = b[y].pattern => x = y
    BY <2>4 DEF OnePerPattern
  <2>6. CASE j \in 1..Len(a) /\ u[j] = a[j] /\ k \in 1..Len(a) /\ u[k] = a[k]
    BY <2>2, <2>5, <2>6
  <2>7. CASE /\ j - Len(a) \in 1..Len(b) /\ u[j] = b[j - Len(a)]
             /\ k - Len(a) \in 1..Len(b) /\ u[k] = b[k - Len(a)]
    <3>1. j - Len(a) = k - Len(a)
      BY <2>2, <2>5, <2>7
    <3> QED
      BY <1>6, <3>1
  <2> QED
    BY <2>1, <2>2, <2>3, <2>6, <2>7
<1> QED
  BY <1>6, <1>8 DEF u

(***************************************************************************)
(* The file decides as the memory, but for a denied call that an allow     *)
(* rule behind the deny rule matches too: it may be allowed.               *)
(***************************************************************************)
LEMMA SortedDecides ==
  ASSUME NEW list \in Seq(Rule), NEW c
  PROVE  LET f == FirstMatch(Sorted(list), c)
             m == FirstMatch(list, c)
         IN  /\ m = 0 <=> f = 0
             /\ m # 0 /\ list[m].decision = "allow" =>
                  Sorted(list)[f].decision = "allow"
<1> DEFINE I(d) == {i \in DOMAIN list : list[i].decision = d}
           a == Deciding(list, "allow")
           b == Deciding(list, "deny")
           u == Sorted(list)
           f == FirstMatch(u, c)
           m == FirstMatch(list, c)
<1>1. DOMAIN list = 1..Len(list)
  OBVIOUS
<1>2. \A d : I(d) \in SUBSET (1..Len(list))
  BY <1>1
<1>3. a = At(list, I("allow")) /\ b = At(list, I("deny")) /\ u = a \o b
  BY DEF Deciding, Sorted
<1>4. a \in Seq(Rule) /\ b \in Seq(Rule)
  BY <1>2, <1>3, AtProperties
<1>5. /\ FirstMatch(a, c) # 0 =>
           f = FirstMatch(a, c) /\ u[f] = a[f] /\ f \in 1..Len(a)
      /\ FirstMatch(a, c) = 0 /\ FirstMatch(b, c) # 0 => f # 0
      /\ FirstMatch(a, c) = 0 /\ FirstMatch(b, c) = 0 => f = 0
  BY <1>3, <1>4, FirstMatchConcat
<1>6. ASSUME m = 0 PROVE f = 0
  <2>1. \A i \in 1..Len(list) : ~Matches(list[i].pattern, c)
    BY <1>6, FirstMatchProperties
  <2>2. FirstMatch(a, c) = 0 /\ FirstMatch(b, c) = 0
    BY <1>2, <1>3, <2>1, NoMatchAt
  <2> QED
    BY <1>5, <2>2
<1>7. ASSUME m # 0, list[m].decision = "allow"
      PROVE  f # 0 /\ u[f].decision = "allow"
  <2>1. m \in I("allow")
    BY <1>1, <1>7, FirstMatchProperties
  <2>2. FirstMatch(a, c) \in 1..Len(a) /\ a[FirstMatch(a, c)] = list[m]
    BY <1>2, <1>3, <2>1, FirstMatchAt
  <2> HIDE DEF a, f, u, m
  <2>3. FirstMatch(a, c) # 0
    BY <2>2
  <2> QED
    BY <1>5, <1>7, <2>2, <2>3
<1>8. ASSUME m # 0, list[m].decision = "deny" PROVE f # 0
  <2>1. m \in I("deny")
    BY <1>1, <1>8, FirstMatchProperties
  <2>2. FirstMatch(b, c) \in 1..Len(b)
    BY <1>2, <1>3, <2>1, FirstMatchAt
  <2> HIDE DEF a, b, f, u, m
  <2>3. FirstMatch(b, c) # 0
    BY <2>2
  <2>4. CASE FirstMatch(a, c) = 0
    BY <1>5, <2>3, <2>4
  <2>5. CASE FirstMatch(a, c) # 0
    <3>1. f \in 1..Len(a)
      BY <1>5, <2>5
    <3> QED
      BY <3>1
  <2> QED
    BY <2>4, <2>5
<1>9. m # 0 => list[m].decision \in {"allow", "deny"}
  BY MatchDecides DEF Decision
<1> HIDE DEF f, u, m
<1>10. (m = 0 <=> f = 0) /\ (m # 0 /\ list[m].decision = "allow" =>
                                u[f].decision = "allow")
  BY <1>6, <1>7, <1>8, <1>9
<1> QED
  BY <1>10 DEF f, u, m
-----------------------------------------------------------------------------
(***************************************************************************)
(* The inductive invariants: types; one rule for each pattern, also in the *)
(* file; and what a synchronized file holds.                               *)
(***************************************************************************)
Types ==
  /\ file = Broken \/ file \in Seq(Rule)
  /\ up \in [Session -> BOOLEAN] /\ rules \in [Session -> Seq(Rule)]
  /\ asked \in [Session -> SUBSET Calls]
  /\ saving \in [Session -> {"no", "recorded", "truncated"}]
  /\ synced \in [Session -> BOOLEAN]
  /\ \A s \in Session :
       ~up[s] => rules[s] = <<>> /\ asked[s] = {} /\ saving[s] = "no"

EditsOnce == \A e \in Edits : OnePerPattern(e)

OnceInv ==
  EditsOnce => /\ file # Broken => OnePerPattern(file)
               /\ \A s \in Session : OnePerPattern(rules[s])

SyncInv ==
  \A s \in Session :
    synced[s] => file # Broken /\ file \in {rules[s], Sorted(rules[s])}

LEMMA EmptyList == <<>> \in Seq(Rule) /\ OnePerPattern(<<>>)
BY DEF OnePerPattern

LEMMA EditsTyped ==
  ASSUME NEW e \in Edits
  PROVE  e \in Seq(Rule) /\ e # Broken
<1>1. e \in Seq(RuleShape) /\ e # Broken
  BY StoreAssumption
<1>2. ASSUME NEW i \in 1..Len(e) PROVE e[i] \in Rule
  <2>1. e[i] \in RuleShape
    BY <1>1, ElementOfSeq
  <2>2. e[i].pattern \in Patterns(e)
    BY <1>1 DEF Patterns, Range
  <2> QED
    BY <2>1, <2>2 DEF RuleShape, Rule
<1> QED
  BY <1>1, <1>2

LEMMA AnswerTyped ==
  ASSUME NEW c \in Calls, NEW d \in Decision
  PROVE  [pattern |-> Pattern(c), decision |-> d] \in Rule
BY DEF Rule

LEMMA InitTypes == Init => Types /\ OnceInv /\ SyncInv
<1> SUFFICES ASSUME Init PROVE Types /\ OnceInv /\ SyncInv
  OBVIOUS
<1> USE DEF Init
<1>1. Types
  BY EditsTyped, EmptyList DEF Types
<1>2. OnceInv
  BY EmptyList DEF OnceInv, EditsOnce
<1>3. SyncInv
  BY DEF SyncInv
<1> QED
  BY <1>1, <1>2, <1>3

(* Every step is one of these.                                             *)
LEMMA Steps ==
  ASSUME [Next]_vars
  PROVE  \/ UNCHANGED vars
         \/ \E s \in Session : Start(s) \/ Truncate(s) \/ Write(s)
                              \/ SaveFails(s) \/ Stop(s)
         \/ \E s \in Session, c \in Calls : Ask(s, c) \/ AnswerOnce(s, c)
         \/ \E s \in Session, c \in Calls, d \in Decision : Record(s, c, d)
         \/ \E content \in Edits \cup {Broken} : EditFile(content)
BY Zenon DEF Next

LEMMA StepTypes == Types /\ [Next]_vars => Types'
<1> SUFFICES ASSUME Types, [Next]_vars PROVE Types'
  OBVIOUS
<1> USE DEF Types
<1>1. CASE UNCHANGED vars
  BY <1>1 DEF vars
<1>2. ASSUME NEW s \in Session, Start(s) PROVE Types'
  <2>1. Load(file) \in Seq(Rule)
    BY EmptyList DEF Load
  <2>2. rules' \in [Session -> Seq(Rule)]
    BY <1>2, <2>1 DEF Start
  <2> QED
    BY <1>2, <2>2 DEF Start
<1>3. ASSUME NEW s \in Session, Truncate(s) PROVE Types'
  BY <1>3, EmptyList DEF Truncate
<1>4. ASSUME NEW s \in Session, Write(s) PROVE Types'
  <2>1. Sorted(rules[s]) \in Seq(Rule)
    BY SortedProperties
  <2>2. file' = Broken \/ file' \in Seq(Rule)
    BY <1>4, <2>1 DEF Write
  <2> QED
    BY <1>4, <2>2 DEF Write
<1>5. ASSUME NEW s \in Session, SaveFails(s) PROVE Types'
  BY <1>5 DEF SaveFails
<1>6. ASSUME NEW s \in Session, Stop(s) PROVE Types'
  <2>1. file' = Broken \/ file' \in Seq(Rule)
    BY <1>6 DEF Stop
  <2>2. rules' \in [Session -> Seq(Rule)]
    BY <1>6, EmptyList DEF Stop
  <2> QED
    BY <1>6, <2>1, <2>2 DEF Stop
<1>7. ASSUME NEW s \in Session, NEW c \in Calls, Ask(s, c) \/ AnswerOnce(s, c)
      PROVE  Types'
  <2>1. asked' \in [Session -> SUBSET Calls] /\ up[s]
    <3> DEFINE a == asked'[s]
    <3>1. up[s] /\ asked' = [asked EXCEPT ![s] = a]
      BY <1>7 DEF Ask, AnswerOnce
    <3>2. a \in SUBSET Calls
      BY <1>7 DEF Ask, AnswerOnce
    <3> HIDE DEF a
    <3> QED
      BY <3>1, <3>2
  <2>2. \A t \in Session : t # s => asked'[t] = asked[t]
    BY <1>7 DEF Ask, AnswerOnce
  <2> QED
    BY <1>7, <2>1, <2>2 DEF Ask, AnswerOnce
<1>8. ASSUME NEW s \in Session, NEW c \in Calls, NEW d \in Decision,
             Record(s, c, d)
      PROVE  Types'
  <2> DEFINE r == [pattern |-> Pattern(c), decision |-> d]
  <2>1. Recorded(rules[s], r) \in Seq(Rule)
    BY AnswerTyped, RecordedProperties
  <2>2. rules' = [rules EXCEPT ![s] = Recorded(rules[s], r)]
    BY <1>8 DEF Record
  <2> HIDE DEF r
  <2>3. rules' \in [Session -> Seq(Rule)]
    BY <2>1, <2>2
  <2>4. \A t \in Session : t # s => rules'[t] = rules[t]
    BY <2>2
  <2> QED
    BY <1>8, <2>3, <2>4 DEF Record
<1>9. ASSUME NEW content \in Edits \cup {Broken}, EditFile(content) PROVE Types'
  BY <1>9, EditsTyped DEF EditFile
<1> QED
  BY <1>1, <1>2, <1>3, <1>4, <1>5, <1>6, <1>7, <1>8, <1>9, Steps

LEMMA StepOnce == Types /\ OnceInv /\ [Next]_vars => OnceInv'
<1> SUFFICES ASSUME Types, OnceInv, [Next]_vars, EditsOnce
             PROVE  /\ (file # Broken => OnePerPattern(file))'
                    /\ \A t \in Session : OnePerPattern(rules'[t])
  BY DEF OnceInv, EditsOnce
<1>1. /\ file # Broken => OnePerPattern(file)
      /\ \A t \in Session : OnePerPattern(rules[t]) /\ rules[t] \in Seq(Rule)
      /\ rules \in [Session -> Seq(Rule)]
  BY DEF OnceInv, Types
<1>2. CASE UNCHANGED vars
  BY <1>1, <1>2 DEF vars
<1>3. ASSUME NEW s \in Session, Start(s)
      PROVE  file' = file /\ \A t \in Session : OnePerPattern(rules'[t])
  <2>1. OnePerPattern(Load(file))
    BY <1>1, EmptyList DEF Load
  <2>2. \A t \in Session : rules'[t] = IF t = s THEN Load(file) ELSE rules[t]
    BY <1>1, <1>3 DEF Start
  <2> QED
    BY <1>1, <1>3, <2>1, <2>2 DEF Start
<1>4. ASSUME NEW s \in Session, Truncate(s)
      PROVE  OnePerPattern(file') /\ rules' = rules
  BY <1>4, EmptyList DEF Truncate
<1>5. ASSUME NEW s \in Session, Write(s)
      PROVE  (file' = Broken \/ OnePerPattern(file')) /\ rules' = rules
  <2>1. OnePerPattern(Sorted(rules[s]))
    BY <1>1, SortedProperties
  <2> QED
    BY <1>5, <2>1 DEF Write
<1>6. ASSUME NEW s \in Session, SaveFails(s)
      PROVE  file' = file /\ rules' = rules
  BY <1>6 DEF SaveFails
<1>7. ASSUME NEW s \in Session, Stop(s)
      PROVE  /\ file' = file \/ file' = Broken
             /\ \A t \in Session : OnePerPattern(rules'[t])
  <2>1. \A t \in Session : rules'[t] = IF t = s THEN <<>> ELSE rules[t]
    BY <1>1, <1>7 DEF Stop
  <2> QED
    BY <1>1, <1>7, <2>1, EmptyList DEF Stop
<1>8. ASSUME NEW s \in Session, NEW c \in Calls, Ask(s, c) \/ AnswerOnce(s, c)
      PROVE  file' = file /\ rules' = rules
  BY <1>8 DEF Ask, AnswerOnce
<1>9. ASSUME NEW s \in Session, NEW c \in Calls, NEW d \in Decision,
             Record(s, c, d)
      PROVE  file' = file /\ \A t \in Session : OnePerPattern(rules'[t])
  <2> DEFINE r == [pattern |-> Pattern(c), decision |-> d]
  <2>1. OnePerPattern(Recorded(rules[s], r))
    BY <1>1, AnswerTyped, RecordedProperties
  <2>2. rules' = [rules EXCEPT ![s] = Recorded(rules[s], r)] /\ file' = file
    BY <1>9 DEF Record
  <2> HIDE DEF r
  <2>3. \A t \in Session :
          rules'[t] = IF t = s THEN Recorded(rules[s], r) ELSE rules[t]
    BY <1>1, <2>2
  <2> QED
    BY <1>1, <2>1, <2>2, <2>3
<1>10. ASSUME NEW content \in Edits \cup {Broken}, EditFile(content)
       PROVE  (file' = Broken \/ OnePerPattern(file')) /\ rules' = rules
  BY <1>10 DEF EditFile, EditsOnce
<1> QED
  BY <1>1, <1>2, <1>3, <1>4, <1>5, <1>6, <1>7, <1>8, <1>9, <1>10, Steps

LEMMA StepSync == Types /\ SyncInv /\ [Next]_vars => SyncInv'
<1> SUFFICES ASSUME Types, SyncInv, [Next]_vars, NEW t \in Session, synced'[t]
             PROVE  file' # Broken /\ file' \in {rules'[t], Sorted(rules'[t])}
  BY DEF SyncInv
<1>1. /\ synced[t] => file # Broken /\ file \in {rules[t], Sorted(rules[t])}
      /\ synced \in [Session -> BOOLEAN] /\ rules \in [Session -> Seq(Rule)]
  BY DEF SyncInv, Types
<1>2. CASE UNCHANGED vars
  BY <1>1, <1>2 DEF vars
<1>3. ASSUME NEW s \in Session, Start(s)
      PROVE  file' # Broken /\ file' \in {rules'[t], Sorted(rules'[t])}
  <2>1. CASE t = s
    BY <1>1, <1>3, <2>1 DEF Start, Load
  <2>2. CASE t # s
    BY <1>1, <1>3, <2>2 DEF Start
  <2> QED
    BY <2>1, <2>2
<1>4. ASSUME NEW s \in Session, Truncate(s) PROVE FALSE
  BY <1>4 DEF Truncate
<1>5. ASSUME NEW s \in Session, Write(s)
      PROVE  file' # Broken /\ file' \in {rules'[t], Sorted(rules'[t])}
  BY <1>5 DEF Write
<1>6. ASSUME NEW s \in Session, SaveFails(s)
      PROVE  file' # Broken /\ file' \in {rules'[t], Sorted(rules'[t])}
  BY <1>1, <1>6 DEF SaveFails
<1>7. ASSUME NEW s \in Session, Stop(s)
      PROVE  file' # Broken /\ file' \in {rules'[t], Sorted(rules'[t])}
  <2>1. t # s /\ synced[t] /\ file' = file
    BY <1>7 DEF Stop
  <2> QED
    BY <1>1, <1>7, <2>1 DEF Stop
<1>8. ASSUME NEW s \in Session, NEW c \in Calls, Ask(s, c) \/ AnswerOnce(s, c)
      PROVE  file' # Broken /\ file' \in {rules'[t], Sorted(rules'[t])}
  BY <1>1, <1>8 DEF Ask, AnswerOnce
<1>9. ASSUME NEW s \in Session, NEW c \in Calls, NEW d \in Decision,
             Record(s, c, d)
      PROVE  file' # Broken /\ file' \in {rules'[t], Sorted(rules'[t])}
  <2>1. t # s /\ synced[t] /\ file' = file
    BY <1>1, <1>9 DEF Record
  <2>2. rules'[t] = rules[t]
    BY <1>1, <1>9, <2>1 DEF Record
  <2> QED
    BY <1>1, <2>1, <2>2
<1>10. ASSUME NEW content \in Edits \cup {Broken}, EditFile(content) PROVE FALSE
  BY <1>10 DEF EditFile
<1> QED
  BY <1>2, <1>3, <1>4, <1>5, <1>6, <1>7, <1>8, <1>9, <1>10, Steps

LEMMA Invariance == Spec => [](Types /\ OnceInv /\ SyncInv)
<1>1. Types /\ OnceInv /\ SyncInv /\ [Next]_vars
        => (Types /\ OnceInv /\ SyncInv)'
  BY StepTypes, StepOnce, StepSync
<1> QED
  BY <1>1, InitTypes, PTL DEF Spec

-----------------------------------------------------------------------------
(***************************************************************************)
(* The rules in memory and in the file are rules of calls or of edits, and *)
(* add_rule never leaves two with the same pattern.                        *)
(***************************************************************************)
THEOREM StoreIsTyped == Spec => []TypeOK
<1>1. Types /\ OnceInv => TypeOK
  <2> SUFFICES ASSUME Types, OnceInv PROVE TypeOK
    OBVIOUS
  <2>1. \A list \in Seq(Rule) : Range(list) \subseteq Rule
    BY ElementOfSeq DEF Range
  <2> QED
    BY <2>1, Zenon DEF Types, OnceInv, EditsOnce, TypeOK
<1> QED
  BY <1>1, Invariance, PTL

(***************************************************************************)
(* A session that starts from the file another one wrote allows what that  *)
(* one allowed, and asks about the same calls.                             *)
(***************************************************************************)
THEOREM FileAgreesAlways == Spec => []FileAgrees
<1>1. Types /\ SyncInv => FileAgrees
  <2> SUFFICES ASSUME Types, SyncInv,
                      NEW s \in Session, synced[s], NEW c \in Calls
               PROVE  /\ Verdict(s, c) = "allow" =>
                           Evaluate(Load(file), c) = "allow"
                      /\ Verdict(s, c) = "ask" <=>
                           Evaluate(Load(file), c) = "ask"
    BY DEF FileAgrees
  <2> DEFINE l == rules[s]
             m == FirstMatch(l, c)
             f == FirstMatch(file, c)
  <2>1. l \in Seq(Rule) /\ Load(file) = file /\ file \in {l, Sorted(l)}
    BY DEF Types, SyncInv, Load
  <2>2. file \in Seq(Rule)
    BY <2>1, SortedProperties
  <2>3. /\ m = 0 <=> f = 0
        /\ m # 0 /\ l[m].decision = "allow" => file[f].decision = "allow"
    <3>1. CASE file = l
      BY <3>1
    <3>2. CASE file = Sorted(l)
      BY <2>1, <3>2, SortedDecides
    <3> QED
      BY <2>1, <3>1, <3>2
  <2>4. CASE Settled(c)
    BY <2>4, SettledCalls, Zenon DEF Verdict
  <2>5. CASE ~Settled(c)
    <3>1. /\ Verdict(s, c) = IF m # 0 THEN l[m].decision ELSE Default(c)
          /\ Evaluate(Load(file), c) =
               IF f # 0 THEN file[f].decision ELSE Default(c)
      BY <2>1, <2>5, OpenCalls DEF Verdict
    <3>2. /\ m # 0 => l[m].decision # "ask"
          /\ f # 0 => file[f].decision # "ask"
      BY <2>1, <2>2, MatchDecides DEF Decision
    <3> HIDE DEF l, m, f
    <3> QED
      BY <2>3, <3>1, <3>2
  <2> QED
    BY <2>4, <2>5
<1> QED
  BY <1>1, Invariance, PTL

(***************************************************************************)
(* An answer decides the call it was given for, and only an answer with    *)
(* the pattern of an older rule changes a verdict that a rule gave.        *)
(***************************************************************************)
THEOREM AnswersDecideAlways == Spec => AnswersDecide
<1> DEFINE A == \A s \in Session, c \in Calls :
                  /\ \A d \in Decision :
                       Record(s, c, d) /\ Verdict(s, c) = "ask" =>
                         Verdict(s, c)' = d
                  /\ (/\ up[s] /\ up'[s] /\ FirstMatch(rules[s], c) # 0
                      /\ Patterns(rules'[s]) # Patterns(rules[s]))
                       => Verdict(s, c)' = Verdict(s, c)
<1>1. ASSUME Types, [Next]_vars,
             NEW s \in Session, NEW c \in Calls, NEW d \in Decision,
             Record(s, c, d), Verdict(s, c) = "ask"
      PROVE  Evaluate(rules'[s], c) = d
  <2> DEFINE l == rules[s]
             r == [pattern |-> Pattern(c), decision |-> d]
             u == Recorded(l, r)
  <2>1. l \in Seq(Rule) /\ r \in Rule
    BY <1>1, AnswerTyped DEF Types
  <2>2. rules'[s] = u
    BY <1>1 DEF Record, Types
  <2>3. ~Settled(c)
    BY <1>1, SettledCalls, Zenon DEF Verdict, Decision
  <2>4. FirstMatch(l, c) = 0
    <3>1. FirstMatch(l, c) # 0 => l[FirstMatch(l, c)].decision \in Decision
      BY <2>1, MatchDecides
    <3>2. "ask" = IF FirstMatch(l, c) # 0 THEN l[FirstMatch(l, c)].decision
                  ELSE Default(c)
      BY <1>1, <2>3, OpenCalls DEF Verdict
    <3> QED
      BY <3>1, <3>2 DEF Decision
  <2>5. Matches(r.pattern, c)
    BY OwnPattern
  <2>6. FirstMatch(u, c) # 0 /\ u[FirstMatch(u, c)] = r
    BY <2>1, <2>4, <2>5, RecordedDecides
  <2>7. Evaluate(u, c) = u[FirstMatch(u, c)].decision
    BY <2>3, <2>6, OpenCalls
  <2> QED
    BY <2>2, <2>6, <2>7
<1>2. ASSUME Types, [Next]_vars, NEW s \in Session, NEW c \in Calls,
             up[s], up'[s], FirstMatch(rules[s], c) # 0,
             Patterns(rules'[s]) # Patterns(rules[s])
      PROVE  Evaluate(rules'[s], c) = Evaluate(rules[s], c)
  <2> DEFINE l == rules[s]
  <2>1. PICK q \in Calls, d \in Decision : Record(s, q, d)
    <3>1. rules \in [Session -> Seq(Rule)] /\ up \in [Session -> BOOLEAN]
      BY <1>2 DEF Types
    <3>2. rules' # rules /\ rules'[s] # rules[s]
      BY <1>2
    <3>3. ~UNCHANGED vars
      BY <3>2 DEF vars
    <3>4. ASSUME NEW t \in Session,
                 \/ Start(t) \/ Truncate(t) \/ Write(t)
                 \/ SaveFails(t) \/ Stop(t)
          PROVE  FALSE
      <4>1. CASE Start(t)
        BY <1>2, <3>1, <3>2, <4>1 DEF Start
      <4>2. CASE Stop(t)
        BY <1>2, <3>1, <3>2, <4>2 DEF Stop
      <4>3. CASE Truncate(t) \/ Write(t) \/ SaveFails(t)
        BY <3>2, <4>3 DEF Truncate, Write, SaveFails
      <4> QED
        BY <3>4, <4>1, <4>2, <4>3
    <3>5. ASSUME NEW t \in Session, NEW q \in Calls, Ask(t, q) \/ AnswerOnce(t, q)
          PROVE  FALSE
      BY <3>2, <3>5 DEF Ask, AnswerOnce
    <3>6. ASSUME NEW t \in Session, NEW q \in Calls, NEW d \in Decision,
                 Record(t, q, d)
          PROVE  t = s
      BY <3>1, <3>2, <3>6 DEF Record
    <3>7. ASSUME NEW content \in Edits \cup {Broken}, EditFile(content) PROVE FALSE
      BY <3>2, <3>7 DEF EditFile
    <3> QED
      BY <1>2, <3>3, <3>4, <3>5, <3>6, <3>7, Steps
  <2> DEFINE r == [pattern |-> Pattern(q), decision |-> d]
             u == Recorded(l, r)
  <2>2. l \in Seq(Rule) /\ r \in Rule
    BY <1>2, AnswerTyped DEF Types
  <2>3. rules'[s] = u
    BY <1>2, <2>1 DEF Record, Types
  <2>4. r.pattern \notin Patterns(l)
    <3> HIDE DEF r
    <3> QED
      BY <1>2, <2>2, <2>3, RecordedProperties
  <2>5. FirstMatch(u, c) # 0 /\ u[FirstMatch(u, c)] = l[FirstMatch(l, c)]
    <3> HIDE DEF r
    <3> QED
      BY <1>2, <2>2, <2>4, RecordedDecides
  <2>6. CASE Settled(c)
    BY <2>6, SettledCalls
  <2>7. CASE ~Settled(c)
    <3>1. /\ Evaluate(l, c) = l[FirstMatch(l, c)].decision
          /\ Evaluate(u, c) = u[FirstMatch(u, c)].decision
      BY <1>2, <2>5, <2>7, OpenCalls
    <3> QED
      BY <2>3, <2>5, <3>1
  <2> QED
    BY <2>3, <2>6, <2>7
<1>3. Types /\ [Next]_vars => A
  BY <1>1, <1>2 DEF Verdict
<1>4. Types /\ [Next]_vars => [A]_vars
  BY <1>3
<1> QED
  BY <1>4, Invariance, PTL DEF Spec, AnswersDecide
=============================================================================
