---------------------------- MODULE ListTheorems ----------------------------
(***************************************************************************)
(* What the operators of Lists, and those of queues, do to the members of   *)
(* a list and to their order.                                              *)
(***************************************************************************)
EXTENDS Lists, FiniteSetTheorems, FunctionTheorems, SequenceTheorems, TLAPS

\* Places that are kept are numbered from 1 on, in their order.
LEMMA PlacesRanked ==
    ASSUME NEW L \in Nat, NEW P \in SUBSET (1 .. L)
    PROVE  LET rank(i) == Cardinality({j \in P : j <= i}) IN
           /\ IsFiniteSet(P) /\ Cardinality(P) \in Nat
           /\ \A i \in P : rank(i) \in 1 .. Cardinality(P)
           /\ \A i, k \in P : i < k => rank(i) < rank(k)
           /\ \A n \in 1 .. Cardinality(P) : \E i \in P : rank(i) = n
<1> DEFINE upto(i) == {j \in P : j <= i}
           rank(i) == Cardinality(upto(i))
<1>1. IsFiniteSet(P) /\ Cardinality(P) \in Nat
  <2>1. IsFiniteSet(1 .. L)
    BY FS_Interval
  <2> QED
    BY <2>1, FS_Subset, FS_CardinalityType
<1>2. \A i : IsFiniteSet(upto(i)) /\ rank(i) \in Nat /\ rank(i) <= Cardinality(P)
  BY <1>1, FS_Subset, FS_CardinalityType
<1>3. \A i \in P : rank(i) # 0
  <2> TAKE i \in P
  <2>1. i \in upto(i)
    OBVIOUS
  <2> QED
    BY <1>2, <2>1, FS_EmptySet
<1>4. \A i \in P : rank(i) \in 1 .. Cardinality(P)
  BY <1>1, <1>2, <1>3
<1>5. ASSUME NEW i \in P, NEW k \in P, i < k PROVE rank(i) < rank(k)
  <2>1. upto(i) \subseteq upto(k) /\ k \in upto(k) /\ k \notin upto(i)
    <3>1. i \in Int /\ k \in Int /\ \A j \in P : j \in Int
      OBVIOUS
    <3>2. k <= k /\ ~ (k <= i) /\ \A j \in P : j <= i => j <= k
      BY <1>5, <3>1
    <3> QED
      BY <3>2
  <2>2. rank(i) <= rank(k) /\ rank(i) # rank(k)
    BY <1>2, <2>1, FS_Subset
  <2> QED
    BY <1>2, <2>2
<1>6. \A n \in 1 .. Cardinality(P) : \E i \in P : rank(i) = n
  <2> DEFINE D == 1 .. Cardinality(P)
             r == [i \in P |-> rank(i)]
  <2>1. IsFiniteSet(D) /\ Cardinality(D) = Cardinality(P)
    BY <1>1, FS_Interval
  <2>2. r \in [P -> D]
    BY <1>4
  <2>3. \A i, k \in P : r[i] = r[k] => i = k
    <3> TAKE i, k \in P
    <3>1. i < k \/ k < i \/ i = k
      <4>1. i \in 1 .. L /\ k \in 1 .. L
        OBVIOUS
      <4> QED
        BY <4>1
    <3>2. r[i] = rank(i) /\ r[k] = rank(k) /\ rank(i) \in Nat /\ rank(k) \in Nat
      BY <1>2
    <3> HIDE DEF rank, r
    <3>3. i < k => rank(i) < rank(k)
      BY <1>5
    <3>4. k < i => rank(k) < rank(i)
      BY <1>5
    <3> QED
      BY <3>1, <3>2, <3>3, <3>4
  <2>4. r \in Injection(P, D)
    BY <2>2, <2>3, Fun_IsInj
  <2>5. r \in Surjection(P, D)
    BY <2>1, <2>4, FS_Injection
  <2> QED
    BY <2>5 DEF Surjection
<1> QED
  BY <1>1, <1>4, <1>5, <1>6

(***************************************************************************)
(* Only: the members, their places, their order.                           *)
(***************************************************************************)
LEMMA OnlyPlaces ==
    ASSUME NEW T, NEW list \in Seq(T), NEW S
    PROVE  LET only == Only(list, S) IN
           /\ only \in Seq(T)
           /\ Range(only) = Range(list) \cap S
           /\ \E at \in [DOMAIN only -> DOMAIN list] :
                 /\ \A n \in DOMAIN only : only[n] = list[at[n]]
                 /\ \A m, n \in DOMAIN only : m < n => at[m] < at[n]
                 /\ \A i \in Places(list, S) : \E n \in DOMAIN only : at[n] = i
           /\ Len(only) = Cardinality(Places(list, S))
<1> DEFINE P == Places(list, S)
           rank(i) == Cardinality({j \in P : j <= i})
           at == [n \in 1 .. Cardinality(P) |-> CHOOSE i \in P : rank(i) = n]
           only == Only(list, S)
<1>1. DOMAIN list = 1 .. Len(list) /\ Len(list) \in Nat /\ P \subseteq DOMAIN list
  BY DEF Places
<1>2. /\ IsFiniteSet(P) /\ Cardinality(P) \in Nat
      /\ \A i \in P : rank(i) \in 1 .. Cardinality(P)
      /\ \A i, k \in P : i < k => rank(i) < rank(k)
      /\ \A n \in 1 .. Cardinality(P) : \E i \in P : rank(i) = n
  <2>1. P \in SUBSET (1 .. Len(list)) /\ Len(list) \in Nat
    BY <1>1
  <2> HIDE DEF P
  <2> QED
    BY <2>1, PlacesRanked
<1>3. only = [n \in 1 .. Cardinality(P) |-> list[CHOOSE i \in P : rank(i) = n]]
  BY DEF Only
<1> HIDE DEF rank, only
<1>4. \A n \in 1 .. Cardinality(P) : at[n] \in P /\ rank(at[n]) = n
  BY <1>2
<1>5. DOMAIN only = 1 .. Cardinality(P) /\ \A n \in DOMAIN only : only[n] = list[at[n]]
  BY <1>3
<1> HIDE DEF at
<1>6. \A i \in P : i \in DOMAIN list /\ list[i] \in S
  BY DEF Places
<1>7. \A i \in DOMAIN list : list[i] \in S => i \in P
  BY DEF Places
<1> HIDE DEF P
<1>8. only \in Seq(T) /\ Len(only) = Cardinality(P)
  <2>1. \A n \in DOMAIN only : only[n] \in T
    BY <1>4, <1>5, <1>6
  <2>2. only = [n \in 1 .. Cardinality(P) |-> only[n]]
    BY <1>3
  <2> QED
    BY <1>2, <1>5, <2>1, <2>2
<1>9. \A i \in P : rank(i) \in DOMAIN only /\ at[rank(i)] = i
  <2> TAKE i \in P
  <2>1. rank(i) \in 1 .. Cardinality(P)
    BY <1>2
  <2>2. at[rank(i)] \in P /\ rank(at[rank(i)]) = rank(i)
    BY <1>4, <2>1
  <2>3. ~ (i < at[rank(i)]) /\ ~ (at[rank(i)] < i)
    BY <1>2, <2>1, <2>2
  <2>4. i \in Int /\ at[rank(i)] \in Int
    BY <1>1, <1>6, <2>2
  <2> QED
    BY <1>5, <2>1, <2>3, <2>4
<1>10. Range(only) = Range(list) \cap S
  <2>1. Range(only) \subseteq Range(list) \cap S
    BY <1>4, <1>5, <1>6 DEF Range
  <2>2. Range(list) \cap S \subseteq Range(only)
    BY <1>5, <1>7, <1>9 DEF Range
  <2> QED
    BY <2>1, <2>2
<1>11. at \in [DOMAIN only -> DOMAIN list]
  BY <1>4, <1>5, <1>6 DEF at
<1>12. \A m, n \in DOMAIN only : m < n => at[m] < at[n]
  <2> SUFFICES ASSUME NEW m \in DOMAIN only, NEW n \in DOMAIN only, m < n
               PROVE  at[m] < at[n]
    OBVIOUS
  <2>1. at[m] \in P /\ at[n] \in P /\ rank(at[m]) = m /\ rank(at[n]) = n
    BY <1>4, <1>5
  <2>2. at[m] \in Int /\ at[n] \in Int /\ m \in Int /\ n \in Int
    BY <1>1, <1>2, <1>5, <1>6, <2>1
  <2>3. ~ (at[n] < at[m])
    BY <1>2, <2>1, <2>2
  <2>4. at[m] # at[n]
    BY <2>1, <2>2
  <2> QED
    BY <2>2, <2>3, <2>4
<1> QED
  BY <1>5, <1>8, <1>9, <1>10, <1>11, <1>12 DEF P, only

LEMMA OnlyFacts ==
    ASSUME NEW T, NEW list \in Seq(T), NEW S
    PROVE  /\ Only(list, S) \in Seq(T)
           /\ Range(Only(list, S)) = Range(list) \cap S
           /\ Len(Only(list, S)) = Cardinality(Places(list, S))
BY OnlyPlaces

LEMMA OnlyOnce ==
    ASSUME NEW T, NEW list \in Seq(T), NEW S, Once(list)
    PROVE  Once(Only(list, S))
<1>1. PICK at \in [DOMAIN Only(list, S) -> DOMAIN list] :
         /\ \A n \in DOMAIN Only(list, S) : Only(list, S)[n] = list[at[n]]
         /\ \A m, n \in DOMAIN Only(list, S) : m < n => at[m] < at[n]
  BY OnlyPlaces
<1>2. Only(list, S) \in Seq(T)
  BY OnlyPlaces
<1> DEFINE only == Only(list, S)
<1>3. DOMAIN only = 1 .. Len(only) /\ Len(only) \in Nat /\ DOMAIN list \subseteq Int
  BY <1>2
<1> HIDE DEF only
<1> SUFFICES ASSUME NEW m \in DOMAIN only, NEW n \in DOMAIN only, only[m] = only[n]
             PROVE  m = n
  BY DEF Once, only
<1>4. at[m] = at[n] /\ at[m] \in Int /\ at[n] \in Int
  BY <1>1, <1>3 DEF only, Once
<1>5. ~ (m < n) /\ ~ (n < m)
  BY <1>1, <1>4 DEF only
<1> QED
  BY <1>3, <1>5

\* Nothing is taken away.
LEMMA OnlyAll ==
    ASSUME NEW T, NEW list \in Seq(T), NEW S, Range(list) \subseteq S
    PROVE  Only(list, S) = list
<1> DEFINE L == Len(list)
           P == Places(list, S)
<1>1. DOMAIN list = 1 .. L /\ L \in Nat
  OBVIOUS
<1>2. P = 1 .. L
  BY <1>1 DEF Range, Places
<1> HIDE DEF L
<1>3. \A i \in 1 .. L : Cardinality({j \in 1 .. L : j <= i}) = i
  <2> TAKE i \in 1 .. L
  <2>1. {j \in 1 .. L : j <= i} = 1 .. i
    BY <1>1
  <2>2. Cardinality(1 .. i) = i
    <3>1. i \in Int /\ 1 \in Int /\ i >= 1
      BY <1>1
    <3>2. Cardinality(1 .. i) = IF 1 > i THEN 0 ELSE i - 1 + 1
      BY <3>1, FS_Interval
    <3> QED
      BY <3>1, <3>2
  <2> QED
    BY <2>1, <2>2
<1>4. Cardinality(1 .. L) = L
  BY <1>1, FS_Interval
<1>5. Only(list, S) = [n \in 1 .. L |->
                         list[CHOOSE i \in 1 .. L : Cardinality({j \in 1 .. L : j <= i}) = n]]
  <2>1. Only(list, S) = [n \in 1 .. Cardinality(P) |->
                           list[CHOOSE i \in P : Cardinality({j \in P : j <= i}) = n]]
    BY DEF Only
  <2> HIDE DEF P
  <2> QED
    BY <1>2, <1>4, <2>1
<1>6. \A n \in 1 .. L : (CHOOSE i \in 1 .. L : Cardinality({j \in 1 .. L : j <= i}) = n) = n
  BY <1>3
<1>7. Only(list, S) = [n \in 1 .. L |-> list[n]]
  BY <1>5, <1>6
<1> QED
  BY <1>1, <1>7 DEF L

\* Only the members matter.
LEMMA OnlySame ==
    ASSUME NEW list, NEW S, NEW R, Range(list) \cap S = Range(list) \cap R
    PROVE  Only(list, S) = Only(list, R)
<1>1. \A i \in DOMAIN list : list[i] \in S <=> list[i] \in R
  BY DEF Range
<1>2. Places(list, S) = Places(list, R)
  BY <1>1 DEF Places
<1> QED
  BY <1>2 DEF Only

LEMMA OnlyEmpty ==
    ASSUME NEW S
    PROVE  Only(<<>>, S) = <<>>
<1>1. Places(<<>>, S) = {}
  BY DEF Places
<1>2. Cardinality(Places(<<>>, S)) = 0
  BY <1>1, FS_EmptySet
<1>3. Only(<<>>, S) = [n \in 1 .. 0 |->
         <<>>[CHOOSE i \in {} : Cardinality({j \in {} : j <= i}) = n]]
  BY <1>1, <1>2 DEF Only
<1> QED
  BY <1>3

\* The last element is kept, or it is not.
LEMMA OnlyAppend ==
    ASSUME NEW T, NEW list \in Seq(T), NEW x \in T, NEW S
    PROVE  Only(Append(list, x), S) =
               IF x \in S THEN Append(Only(list, S), x) ELSE Only(list, S)
<1> DEFINE L == Len(list)
           longer == Append(list, x)
           P == Places(list, S)
           Q == Places(longer, S)
           rank(i) == Cardinality({j \in P : j <= i})
           rankQ(i) == Cardinality({j \in Q : j <= i})
<1>1. /\ L \in Nat /\ DOMAIN list = 1 .. L /\ DOMAIN longer = 1 .. L + 1
      /\ \A i \in 1 .. L : longer[i] = list[i]
      /\ longer[L + 1] = x
  OBVIOUS
<1>2. P \subseteq 1 .. L /\ Q = IF x \in S THEN P \cup {L + 1} ELSE P
  <2>1. 1 .. L + 1 = (1 .. L) \cup {L + 1} /\ L + 1 \notin 1 .. L
    BY <1>1
  <2> QED
    BY <1>1, <2>1 DEF Places
<1>3. /\ Only(list, S) = [n \in 1 .. Cardinality(P) |-> list[CHOOSE i \in P : rank(i) = n]]
      /\ Only(longer, S) = [n \in 1 .. Cardinality(Q) |-> longer[CHOOSE i \in Q : rankQ(i) = n]]
  BY DEF Only
<1>4. /\ IsFiniteSet(P) /\ Cardinality(P) \in Nat
      /\ \A i \in P : rank(i) \in 1 .. Cardinality(P)
      /\ \A i, k \in P : i < k => rank(i) < rank(k)
      /\ \A n \in 1 .. Cardinality(P) : \E i \in P : rank(i) = n
  <2>1. P \in SUBSET (1 .. L) /\ L \in Nat
    BY <1>1, <1>2
  <2> HIDE DEF P, L
  <2> QED
    BY <2>1, PlacesRanked
<1>5. \A i \in P : rankQ(i) = rank(i) /\ longer[i] = list[i]
  <2> TAKE i \in P
  <2>1. i <= L /\ i \in 1 .. L /\ ~ (L + 1 <= i)
    BY <1>1, <1>2
  <2>2. {j \in Q : j <= i} = {j \in P : j <= i}
    BY <1>2, <2>1
  <2> QED
    BY <1>1, <2>1, <2>2
<1>6. Only(list, S) \in Seq(T) /\ Len(Only(list, S)) = Cardinality(P)
  BY OnlyFacts
<1> DEFINE pick(n) == CHOOSE i \in P : rank(i) = n
           pickQ(n) == CHOOSE i \in Q : rankQ(i) = n
<1> HIDE DEF L, longer, P, Q, rank, rankQ
<1>7. \A n \in 1 .. Cardinality(P) : pick(n) \in P /\ rank(pick(n)) = n
  BY <1>4
<1>8. CASE x \notin S
  <2>1. Q = P
    BY <1>2, <1>8
  <2>2. \A n \in 1 .. Cardinality(P) : pickQ(n) = pick(n)
    BY <1>5, <2>1
  <2>3. \A n \in 1 .. Cardinality(P) : longer[pickQ(n)] = list[pick(n)]
    BY <1>5, <1>7, <2>2
  <2> HIDE DEF pick, pickQ
  <2>4. Only(longer, S) = [n \in 1 .. Cardinality(P) |-> longer[pickQ(n)]]
    BY <1>3, <2>1 DEF pickQ
  <2>5. Only(list, S) = [n \in 1 .. Cardinality(P) |-> list[pick(n)]]
    BY <1>3 DEF pick
  <2>6. Only(longer, S) = Only(list, S)
    BY <2>3, <2>4, <2>5
  <2> QED
    BY <1>8, <2>6 DEF longer
<1>9. CASE x \in S
  <2>1. Q = P \cup {L + 1} /\ L + 1 \notin P /\ \A i \in P : i <= L + 1
    BY <1>1, <1>2, <1>9
  <2>2. Cardinality(Q) = Cardinality(P) + 1
    BY <1>4, <2>1, FS_AddElement
  <2>3. {j \in Q : j <= L + 1} = Q
    BY <1>1, <2>1
  <2>4. rankQ(L + 1) = Cardinality(P) + 1
    BY <2>2, <2>3 DEF rankQ
  <2>5. \A n \in 1 .. Cardinality(P) : pickQ(n) = pick(n)
    <3> SUFFICES ASSUME NEW n \in 1 .. Cardinality(P) PROVE pickQ(n) = pick(n)
      OBVIOUS
    <3>1. n # Cardinality(P) + 1
      BY <1>4
    <3>2. \A i : i \in Q /\ rankQ(i) = n <=> i \in P /\ rank(i) = n
      BY <1>5, <2>1, <2>4, <3>1
    <3> QED
      BY <3>2
  <2>6. pickQ(Cardinality(P) + 1) = L + 1
    <3>1. \A i : i \in Q /\ rankQ(i) = Cardinality(P) + 1 <=> i = L + 1
      <4>1. \A i \in P : rankQ(i) # Cardinality(P) + 1
        BY <1>4, <1>5
      <4> QED
        BY <2>1, <2>4, <4>1
    <3> QED
      BY <3>1
  <2>7. \A n \in 1 .. Cardinality(P) : longer[pickQ(n)] = list[pick(n)]
    BY <1>5, <1>7, <2>5
  <2> HIDE DEF pick, pickQ
  <2>8. Only(longer, S) = [n \in 1 .. Cardinality(P) + 1 |-> longer[pickQ(n)]]
    BY <1>3, <2>2 DEF pickQ
  <2>9. \A n \in 1 .. Cardinality(P) : Only(list, S)[n] = list[pick(n)]
    BY <1>3 DEF pick
  <2>10. Append(Only(list, S), x) =
            [n \in 1 .. Cardinality(P) + 1 |->
                IF n <= Cardinality(P) THEN Only(list, S)[n] ELSE x]
    <3> DEFINE only == Only(list, S)
    <3>1. only \in Seq(T) /\ Len(only) = Cardinality(P)
      BY <1>6
    <3> HIDE DEF only
    <3>2. /\ Append(only, x) \in Seq(T) /\ Len(Append(only, x)) = Len(only) + 1
          /\ \A n \in 1 .. Len(only) : Append(only, x)[n] = only[n]
          /\ Append(only, x)[Len(only) + 1] = x
      BY <3>1, AppendProperties
    <3>3. \A long \in Seq(T) : long = [n \in 1 .. Len(long) |-> long[n]]
      OBVIOUS
    <3>4. \A n \in 1 .. Len(only) + 1 :
             Append(only, x)[n] = IF n <= Len(only) THEN only[n] ELSE x
      BY <3>1, <3>2
    <3> QED
      BY <3>1, <3>2, <3>3, <3>4 DEF only
  <2>11. \A n \in 1 .. Cardinality(P) + 1 :
            longer[pickQ(n)] = IF n <= Cardinality(P) THEN Only(list, S)[n] ELSE x
    <3> SUFFICES ASSUME NEW n \in 1 .. Cardinality(P) + 1
                 PROVE  longer[pickQ(n)] = IF n <= Cardinality(P) THEN Only(list, S)[n] ELSE x
      OBVIOUS
    <3>1. CASE n <= Cardinality(P)
      <4>1. n \in 1 .. Cardinality(P)
        BY <1>4, <3>1
      <4> QED
        BY <2>7, <2>9, <3>1, <4>1
    <3>2. CASE ~ (n <= Cardinality(P))
      <4>1. n = Cardinality(P) + 1
        BY <1>4, <3>2
      <4> QED
        BY <1>1, <2>6, <3>2, <4>1
    <3> QED
      BY <3>1, <3>2
  <2> QED
    BY <1>9, <2>8, <2>10, <2>11 DEF longer
<1> QED
  BY <1>8, <1>9

\* s takes the members of S from the list in their order, and all of them.
Picks(at, list, S, s) ==
    /\ at \in [DOMAIN s -> DOMAIN list]
    /\ \A n \in DOMAIN s : s[n] = list[at[n]] /\ list[at[n]] \in S
    /\ \A m, n \in DOMAIN s : m < n => at[m] < at[n]
    /\ \A i \in DOMAIN list : list[i] \in S => \E n \in DOMAIN s : at[n] = i

LEMMA OnlyPicks ==
    ASSUME NEW T, NEW list \in Seq(T), NEW S
    PROVE  \E at : Picks(at, list, S, Only(list, S))
<1>1. PICK at \in [DOMAIN Only(list, S) -> DOMAIN list] :
         /\ \A n \in DOMAIN Only(list, S) : Only(list, S)[n] = list[at[n]]
         /\ \A m, n \in DOMAIN Only(list, S) : m < n => at[m] < at[n]
         /\ \A i \in Places(list, S) : \E n \in DOMAIN Only(list, S) : at[n] = i
  BY OnlyPlaces, SMTT(30)
<1>2. \A n \in DOMAIN Only(list, S) : Only(list, S)[n] \in S
  BY OnlyFacts DEF Range
<1>3. \A i \in DOMAIN list : list[i] \in S => i \in Places(list, S)
  BY DEF Places
<1>4. Picks(at, list, S, Only(list, S))
  BY <1>1, <1>2, <1>3 DEF Picks
<1> QED
  BY <1>4

LEMMA OnlyIs ==
    ASSUME NEW T, NEW list \in Seq(T), NEW S, NEW s \in Seq(T),
           NEW at, Picks(at, list, S, s)
    PROVE  Only(list, S) = s
<1> DEFINE P == Places(list, S)
           L == Len(list)
           N == Len(s)
           rank(i) == Cardinality({j \in P : j <= i})
           pick(n) == CHOOSE i \in P : rank(i) = n
<1>1. L \in Nat /\ DOMAIN list = 1 .. L /\ N \in Nat /\ DOMAIN s = 1 .. N
  OBVIOUS
<1>2. P \in SUBSET (1 .. L)
  BY <1>1 DEF Places
<1>2a. /\ \A n \in 1 .. N : at[n] \in P /\ at[n] \in Int /\ s[n] = list[at[n]]
       /\ \A m, n \in 1 .. N : m < n => at[m] < at[n]
       /\ \A i \in P : \E n \in 1 .. N : at[n] = i
  <2>1. /\ at \in [1 .. N -> 1 .. L]
        /\ \A n \in 1 .. N : s[n] = list[at[n]] /\ list[at[n]] \in S
        /\ \A m, n \in 1 .. N : m < n => at[m] < at[n]
        /\ \A i \in 1 .. L : list[i] \in S => \E n \in 1 .. N : at[n] = i
    BY <1>1 DEF Picks
  <2>2. \A i \in 1 .. L : i \in P <=> list[i] \in S
    BY <1>1 DEF Places
  <2> HIDE DEF P, L, N
  <2>3. \A i \in P : \E n \in 1 .. N : at[n] = i
    BY <1>2, <2>1, <2>2
  <2>4. \A n \in 1 .. N : at[n] \in 1 .. L /\ at[n] \in P /\ at[n] \in Int
    BY <1>1, <2>1, <2>2
  <2> QED
    BY <2>1, <2>3, <2>4
<1>3. Only(list, S) = [n \in 1 .. Cardinality(P) |-> list[pick(n)]]
  BY DEF Only
<1> HIDE DEF P, L
<1>4. /\ IsFiniteSet(P) /\ Cardinality(P) \in Nat
      /\ \A i \in P : rank(i) \in 1 .. Cardinality(P)
      /\ \A i, k \in P : i < k => rank(i) < rank(k)
      /\ \A n \in 1 .. Cardinality(P) : \E i \in P : rank(i) = n
  <2>1. P \in SUBSET (1 .. L) /\ L \in Nat
    BY <1>1, <1>2
  <2> HIDE DEF P, L
  <2> QED
    BY <2>1, PlacesRanked
\* Up to the n-th place of s there are n of them.
<1>5. ASSUME NEW n \in 0 .. N
      PROVE  LET upto == {at[m] : m \in 1 .. n} IN
             /\ IsFiniteSet(upto) /\ Cardinality(upto) = n
             /\ n # 0 => upto = {j \in P : j <= at[n]}
             /\ n = N => upto = P
  <2> DEFINE upto == {at[m] : m \in 1 .. n}
             f == [m \in 1 .. n |-> at[m]]
  <2>1. n \in Nat /\ n <= N /\ \A m \in 1 .. n : m \in 1 .. N
    BY <1>1
  <2>2. IsFiniteSet(1 .. n) /\ Cardinality(1 .. n) = n
    BY <2>1, FS_Interval
  <2>3. \A k, m \in 1 .. n : at[k] = at[m] => k = m
    <3> TAKE k, m \in 1 .. n
    <3>1. k < m \/ m < k \/ k = m
      BY <2>1
    <3>2. at[k] \in Int /\ at[m] \in Int /\ (k < m => at[k] < at[m]) /\ (m < k => at[m] < at[k])
      BY <1>2a, <2>1
    <3> QED
      BY <3>1, <3>2
  <2>4. f \in Bijection(1 .. n, upto)
    <3>1. f \in Surjection(1 .. n, upto)
      BY DEF Surjection
    <3>2. f \in Injection(1 .. n, upto)
      <4>1. f \in [1 .. n -> upto] /\ \A k, m \in 1 .. n : f[k] = f[m] => k = m
        BY <2>3
      <4> HIDE DEF f, upto
      <4> QED
        BY <4>1, Fun_IsInj
    <3> QED
      BY <3>1, <3>2 DEF Bijection
  <2>5. IsFiniteSet(upto) /\ Cardinality(upto) = n
    <3> HIDE DEF f, upto
    <3>1. ExistsBijection(1 .. n, upto)
      BY <2>4 DEF ExistsBijection
    <3> QED
      BY <2>2, <3>1, FS_Bijection
  <2>6. ASSUME n # 0 PROVE upto = {j \in P : j <= at[n]}
    <3>1. n \in 1 .. N
      BY <2>1, <2>6
    <3>2. \A m \in 1 .. N : m <= n <=> at[m] <= at[n]
      <4> TAKE m \in 1 .. N
      <4>1. /\ m \in Int /\ n \in Int /\ at[m] \in Int /\ at[n] \in Int
            /\ (m < n => at[m] < at[n]) /\ (n < m => at[n] < at[m])
        BY <1>1, <1>2a, <3>1
      <4>2. m = n => at[m] = at[n]
        OBVIOUS
      <4> QED
        BY <4>1, <4>2
    <3>3. \A m \in 1 .. N : m <= n <=> m \in 1 .. n
      BY <2>1
    <3>4. ASSUME NEW m \in 1 .. n PROVE at[m] \in P /\ at[m] <= at[n]
      BY <1>2a, <2>1, <3>2
    <3>5. ASSUME NEW j \in P, j <= at[n] PROVE j \in upto
      <4>1. PICK m \in 1 .. N : at[m] = j
        BY <1>2a
      <4> QED
        BY <3>2, <3>3, <3>5, <4>1
    <3> QED
      BY <3>4, <3>5
  <2>7. n = N => upto = P
    BY <1>2a
  <2> QED
    BY <2>5, <2>6, <2>7
<1>6. Cardinality(P) = N
  <2>1. N \in 0 .. N
    BY <1>1
  <2> QED
    BY <1>5, <2>1
<1>7. \A n \in 1 .. N : rank(at[n]) = n
  <2> TAKE n \in 1 .. N
  <2>1. n \in 0 .. N /\ n # 0
    BY <1>1
  <2> QED
    BY <1>5, <2>1
<1> HIDE DEF rank
<1>8. \A n \in 1 .. N : pick(n) = at[n]
  <2> TAKE n \in 1 .. N
  <2>1. at[n] \in P /\ rank(at[n]) = n
    BY <1>2a, <1>7
  <2>2. ASSUME NEW i \in P, rank(i) = n PROVE i = at[n]
    <3>1. i \in Int /\ at[n] \in Int
      BY <1>2a
    <3>2. ~ (i < at[n]) /\ ~ (at[n] < i)
      BY <1>4, <2>1, <2>2
    <3> QED
      BY <3>1, <3>2
  <2> QED
    BY <2>1, <2>2
<1> HIDE DEF pick
<1>9. Only(list, S) = [n \in 1 .. N |-> s[n]]
  BY <1>1, <1>2a, <1>3, <1>6, <1>8
<1> QED
  BY <1>1, <1>9

\* The members of both.
LEMMA OnlyOnly ==
    ASSUME NEW T, NEW list \in Seq(T), NEW A, NEW B
    PROVE  Only(Only(list, A), B) = Only(list, A \cap B)
<1> DEFINE a == Only(list, A)
           b == Only(a, B)
           C == A \cap B
<1>1. PICK at : Picks(at, list, A, a)
  BY OnlyPicks
<1>2. a \in Seq(T)
  BY OnlyFacts
<1> HIDE DEF a
<1>3. PICK to : Picks(to, a, B, b)
  BY <1>2, OnlyPicks
<1>4. b \in Seq(T)
  BY <1>2, OnlyFacts
<1> HIDE DEF b
<1> DEFINE f == [n \in DOMAIN b |-> at[to[n]]]
<1>5. /\ at \in [DOMAIN a -> DOMAIN list] /\ to \in [DOMAIN b -> DOMAIN a]
      /\ \A n \in DOMAIN a : a[n] = list[at[n]] /\ list[at[n]] \in A
      /\ \A n \in DOMAIN b : b[n] = a[to[n]] /\ a[to[n]] \in B
  BY <1>1, <1>3 DEF Picks
<1>6. f \in [DOMAIN b -> DOMAIN list]
  BY <1>5
<1>7. \A n \in DOMAIN b : b[n] = list[f[n]] /\ list[f[n]] \in C
  BY <1>5
<1>8. \A m, n \in DOMAIN b : m < n => f[m] < f[n]
  BY <1>1, <1>3 DEF Picks
<1>9. ASSUME NEW i \in DOMAIN list, list[i] \in C
      PROVE  \E n \in DOMAIN b : f[n] = i
  <2>1. PICK k \in DOMAIN a : at[k] = i
    BY <1>1, <1>9 DEF Picks
  <2>2. a[k] \in B
    BY <1>5, <1>9, <2>1
  <2>3. PICK n \in DOMAIN b : to[n] = k
    BY <1>3, <2>2 DEF Picks
  <2> QED
    BY <2>1, <2>3
<1> HIDE DEF f, C
<1>10. Picks(f, list, C, b)
  BY <1>6, <1>7, <1>8, <1>9 DEF Picks
<1>11. Only(list, C) = b
  BY <1>4, <1>10, OnlyIs
<1> QED
  BY <1>11 DEF a, b, C

\* list_add_head.
LEMMA OnlyPrepend ==
    ASSUME NEW T, NEW list \in Seq(T), NEW x \in T, NEW S
    PROVE  Only(<<x>> \o list, S) =
               IF x \in S THEN <<x>> \o Only(list, S) ELSE Only(list, S)
<1> DEFINE L == Len(list)
           longer == <<x>> \o list
           only == Only(list, S)
<1>1. PICK at : Picks(at, list, S, only)
  BY OnlyPicks
<1>2. only \in Seq(T)
  BY OnlyFacts
<1>3. /\ L \in Nat /\ DOMAIN list = 1 .. L
      /\ longer \in Seq(T) /\ DOMAIN longer = 1 .. L + 1 /\ longer[1] = x
      /\ \A i \in 1 .. L : longer[i + 1] = list[i]
  OBVIOUS
<1> HIDE DEF only, longer, L
<1> DEFINE N == Len(only)
<1>4. N \in Nat /\ DOMAIN only = 1 .. N
  BY <1>2
<1>4a. /\ \A n \in 1 .. N : /\ at[n] \in 1 .. L /\ at[n] \in Int
                            /\ only[n] = list[at[n]] /\ list[at[n]] \in S
       /\ \A m, n \in 1 .. N : m < n => at[m] < at[n]
       /\ \A i \in 1 .. L : list[i] \in S => \E n \in 1 .. N : at[n] = i
  <2>1. /\ at \in [1 .. N -> 1 .. L]
        /\ \A n \in 1 .. N : only[n] = list[at[n]] /\ list[at[n]] \in S
        /\ \A m, n \in 1 .. N : m < n => at[m] < at[n]
        /\ \A i \in 1 .. L : list[i] \in S => \E n \in 1 .. N : at[n] = i
    BY <1>1, <1>3, <1>4 DEF Picks
  <2> HIDE DEF N
  <2>2. \A n \in 1 .. N : at[n] \in 1 .. L /\ at[n] \in Int
    BY <1>3, <2>1
  <2> QED
    BY <2>1, <2>2
<1>5. \A i \in 2 .. L + 1 : longer[i] = list[i - 1] /\ i - 1 \in 1 .. L
  <2> TAKE i \in 2 .. L + 1
  <2>1. i - 1 \in 1 .. L /\ (i - 1) + 1 = i
    BY <1>3
  <2> QED
    BY <1>3, <2>1
<1>6. \A i \in 2 .. L + 1 : longer[i] \in S => \E n \in 1 .. N : at[n] = i - 1
  BY <1>4a, <1>5
<1> HIDE DEF N
<1>7. CASE x \notin S
  <2> DEFINE f == [n \in 1 .. N |-> at[n] + 1]
  <2>1. f \in [1 .. N -> 1 .. L + 1]
    BY <1>3, <1>4, <1>4a
  <2>2. \A n \in 1 .. N : only[n] = longer[f[n]] /\ longer[f[n]] \in S
    BY <1>3, <1>4a
  <2>3. \A m, n \in 1 .. N : m < n => f[m] < f[n]
    BY <1>4a
  <2>4. ASSUME NEW i \in 1 .. L + 1, longer[i] \in S PROVE \E n \in 1 .. N : f[n] = i
    <3>1. i \in 2 .. L + 1
      BY <1>3, <1>7, <2>4
    <3>2. PICK n \in 1 .. N : at[n] = i - 1
      BY <1>6, <2>4, <3>1
    <3> QED
      BY <3>1, <3>2
  <2> HIDE DEF f
  <2>5. Only(longer, S) = only
    <3>1. Picks(f, longer, S, only)
      BY <1>3, <1>4, <2>1, <2>2, <2>3, <2>4 DEF Picks
    <3> QED
      BY <1>2, <1>3, <3>1, OnlyIs
  <2> QED
    BY <1>7, <2>5 DEF longer, only
<1>8. CASE x \in S
  <2> DEFINE s == <<x>> \o only
             f == [n \in 1 .. N + 1 |-> IF n = 1 THEN 1 ELSE at[n - 1] + 1]
  <2>1. /\ s \in Seq(T) /\ DOMAIN s = 1 .. N + 1 /\ s[1] = x
        /\ \A n \in 2 .. N + 1 : s[n] = only[n - 1]
    BY <1>2, <1>4 DEF N
  <2>2. \A n \in 2 .. N + 1 : /\ n - 1 \in 1 .. N /\ n # 1 /\ f[n] = at[n - 1] + 1
                              /\ f[n] \in 2 .. L + 1 /\ f[n] - 1 = at[n - 1]
    <3> TAKE n \in 2 .. N + 1
    <3>1. n - 1 \in 1 .. N /\ n # 1 /\ n \in 1 .. N + 1
      BY <1>4
    <3>2. f[n] = at[n - 1] + 1
      BY <3>1
    <3> QED
      BY <1>3, <1>4, <1>4a, <3>1, <3>2
  <2>3. f[1] = 1 /\ 1 \in 1 .. N + 1 /\ \A n \in 1 .. N + 1 : n = 1 \/ n \in 2 .. N + 1
    BY <1>4
  <2>4. f \in [1 .. N + 1 -> 1 .. L + 1]
    <3>1. ASSUME NEW n \in 1 .. N + 1 PROVE f[n] \in 1 .. L + 1
      <4> HIDE DEF f
      <4>1. CASE n = 1
        BY <1>3, <2>3, <4>1
      <4>2. CASE n \in 2 .. N + 1
        <5>1. f[n] \in 2 .. L + 1
          BY <2>2, <4>2
        <5> QED
          BY <1>3, <5>1
      <4> QED
        BY <2>3, <4>1, <4>2
    <3> QED
      BY <3>1
  <2> HIDE DEF s, f
  <2>5. \A n \in 1 .. N + 1 : s[n] = longer[f[n]] /\ longer[f[n]] \in S
    <3>1. ASSUME NEW n \in 2 .. N + 1
          PROVE  s[n] = longer[f[n]] /\ longer[f[n]] \in S
      <4>1. s[n] = only[n - 1] /\ n - 1 \in 1 .. N /\ f[n] \in 2 .. L + 1 /\ f[n] - 1 = at[n - 1]
        BY <2>1, <2>2
      <4>2. longer[f[n]] = list[at[n - 1]]
        BY <1>5, <4>1
      <4> QED
        BY <1>4a, <4>1, <4>2
    <3> QED
      BY <1>3, <1>8, <2>1, <2>3, <3>1
  <2>6. ASSUME NEW m \in 1 .. N + 1, NEW n \in 1 .. N + 1, m < n PROVE f[m] < f[n]
    <3>1. n \in 2 .. N + 1 /\ f[n] = at[n - 1] + 1 /\ f[n] \in 2 .. L + 1
      BY <1>4, <2>2, <2>3, <2>6
    <3>2. CASE m = 1
      BY <1>3, <2>3, <3>1, <3>2
    <3>3. CASE m \in 2 .. N + 1
      <4>1. f[m] = at[m - 1] + 1 /\ m - 1 \in 1 .. N /\ n - 1 \in 1 .. N /\ m - 1 < n - 1
        BY <2>2, <2>6, <3>1, <3>3
      <4>2. at[m - 1] < at[n - 1] /\ at[m - 1] \in Int /\ at[n - 1] \in Int
        BY <1>4a, <4>1
      <4> QED
        BY <3>1, <4>1, <4>2
    <3> QED
      BY <2>3, <3>2, <3>3
  <2>7. ASSUME NEW i \in 1 .. L + 1, longer[i] \in S PROVE \E n \in 1 .. N + 1 : f[n] = i
    <3>1. CASE i = 1
      BY <2>3, <3>1
    <3>2. CASE i # 1
      <4>1. i \in 2 .. L + 1
        BY <1>3, <3>2
      <4>2. PICK n \in 1 .. N : at[n] = i - 1
        BY <1>6, <2>7, <4>1
      <4>3. n + 1 \in 2 .. N + 1 /\ n + 1 \in 1 .. N + 1 /\ (n + 1) - 1 = n
        BY <1>4
      <4>4. f[n + 1] = (i - 1) + 1
        BY <2>2, <4>2, <4>3
      <4> QED
        BY <4>1, <4>3, <4>4
    <3> QED
      BY <3>1, <3>2
  <2>8. Only(longer, S) = s
    <3>1. Picks(f, longer, S, s)
      BY <1>3, <2>1, <2>4, <2>5, <2>6, <2>7 DEF Picks
    <3> QED
      BY <1>3, <2>1, <3>1, OnlyIs
  <2> QED
    BY <1>8, <2>8 DEF longer, only, s
<1> QED
  BY <1>7, <1>8

\* list_del of a member that is linked once.
LEMMA WithoutFacts ==
    ASSUME NEW T, NEW list \in Seq(T), NEW x
    PROVE  /\ Without(list, x) \in Seq(T)
           /\ Range(Without(list, x)) = Range(list) \ {x}
           /\ Once(list) => Once(Without(list, x))
           /\ x \notin Range(list) => Without(list, x) = list
           /\ Once(list) /\ x \in Range(list) =>
                 Len(Without(list, x)) = Len(list) - 1
<1> DEFINE S == Range(list) \ {x}
           P == Places(list, S)
<1>1. /\ Only(list, S) \in Seq(T)
      /\ Range(Only(list, S)) = Range(list) \cap S
      /\ Len(Only(list, S)) = Cardinality(P)
  <2> HIDE DEF S
  <2> QED
    BY OnlyFacts
<1>2. Once(list) => Once(Only(list, S))
  BY OnlyOnce
<1>3. x \notin Range(list) => Only(list, S) = list
  <2>1. x \notin Range(list) => Range(list) \subseteq S
    OBVIOUS
  <2> QED
    BY <2>1, OnlyAll
<1>4. ASSUME Once(list), x \in Range(list)
      PROVE  Cardinality(P) = Len(list) - 1
  <2>1. PICK i \in DOMAIN list : list[i] = x
    BY <1>4 DEF Range
  <2>2. P = (1 .. Len(list)) \ {i} /\ i \in 1 .. Len(list)
    <3>1. \A j \in DOMAIN list : list[j] \in Range(list)
      BY DEF Range
    <3> QED
      BY <1>4, <2>1, <3>1 DEF Once, Places
  <2>3. IsFiniteSet(1 .. Len(list)) /\ Cardinality(1 .. Len(list)) = Len(list)
    BY FS_Interval
  <2> HIDE DEF P
  <2> QED
    BY <2>2, <2>3, FS_RemoveElement, ZenonT(30)
<1> QED
  BY <1>1, <1>2, <1>3, <1>4 DEF Without

(***************************************************************************)
(* Queues.                                                                 *)
(***************************************************************************)
LEMMA EmptyFacts ==
    Range(<<>>) = {} /\ Once(<<>>)
BY DEF Range, Once

LEMMA ConcatFacts ==
    ASSUME NEW T, NEW a \in Seq(T), NEW b \in Seq(T)
    PROVE  /\ a \o b \in Seq(T)
           /\ Range(a \o b) = Range(a) \cup Range(b)
           /\ Once(a \o b) <=> Once(a) /\ Once(b) /\ Range(a) \cap Range(b) = {}
<1> DEFINE c == a \o b
<1>1. /\ c \in Seq(T) /\ Len(c) = Len(a) + Len(b)
      /\ Len(a) \in Nat /\ Len(b) \in Nat
      /\ \A i \in 1 .. Len(a) + Len(b) :
            c[i] = IF i <= Len(a) THEN a[i] ELSE b[i - Len(a)]
  OBVIOUS
<1>2. DOMAIN a = 1 .. Len(a) /\ DOMAIN b = 1 .. Len(b) /\ DOMAIN c = 1 .. Len(a) + Len(b)
  BY <1>1
<1> HIDE DEF c
<1>3. \A i \in DOMAIN a : i \in DOMAIN c /\ c[i] = a[i]
  BY <1>1, <1>2
<1>4. \A i \in DOMAIN b : Len(a) + i \in DOMAIN c /\ c[Len(a) + i] = b[i]
  BY <1>1, <1>2
<1>5. \A i \in DOMAIN c : \/ i \in DOMAIN a /\ c[i] = a[i]
                          \/ i - Len(a) \in DOMAIN b /\ c[i] = b[i - Len(a)]
  <2> TAKE i \in DOMAIN c
  <2>1. i \in 1 .. Len(a) + Len(b) /\ c[i] = IF i <= Len(a) THEN a[i] ELSE b[i - Len(a)]
    BY <1>1, <1>2
  <2>2. CASE i <= Len(a)
    <3>1. i \in 1 .. Len(a)
      BY <1>1, <2>1, <2>2
    <3> QED
      BY <1>2, <2>1, <2>2, <3>1
  <2>3. CASE ~ (i <= Len(a))
    <3>1. i - Len(a) \in 1 .. Len(b)
      BY <1>1, <2>1, <2>3
    <3> QED
      BY <1>2, <2>1, <2>3, <3>1
  <2> QED
    BY <2>2, <2>3
<1>6. Range(c) = Range(a) \cup Range(b)
  BY <1>3, <1>4, <1>5 DEF Range
<1>7. ASSUME Once(c) PROVE Once(a) /\ Once(b) /\ Range(a) \cap Range(b) = {}
  <2>1. Once(a)
    BY <1>3, <1>7 DEF Once
  <2>2. Once(b)
    <3> SUFFICES ASSUME NEW i \in DOMAIN b, NEW j \in DOMAIN b, b[i] = b[j] PROVE i = j
      BY DEF Once
    <3>1. Len(a) + i = Len(a) + j
      BY <1>4, <1>7 DEF Once
    <3> QED
      BY <1>1, <1>2, <3>1
  <2>3. \A i \in DOMAIN a, j \in DOMAIN b : a[i] # b[j]
    <3> SUFFICES ASSUME NEW i \in DOMAIN a, NEW j \in DOMAIN b, a[i] = b[j] PROVE FALSE
      OBVIOUS
    <3>1. i = Len(a) + j
      BY <1>3, <1>4, <1>7 DEF Once
    <3> QED
      BY <1>1, <1>2, <3>1
  <2> QED
    BY <2>1, <2>2, <2>3 DEF Range
<1>8. ASSUME Once(a), Once(b), Range(a) \cap Range(b) = {} PROVE Once(c)
  <2> SUFFICES ASSUME NEW i \in DOMAIN c, NEW j \in DOMAIN c, c[i] = c[j] PROVE i = j
    BY DEF Once
  <2>1. \A k \in DOMAIN a, l \in DOMAIN b : a[k] # b[l]
    BY <1>8 DEF Range
  <2>2. CASE i \in DOMAIN a /\ c[i] = a[i]
    <3>1. j \in DOMAIN a /\ c[j] = a[j]
      BY <1>5, <2>1, <2>2
    <3> QED
      BY <1>8, <2>2, <3>1 DEF Once
  <2>3. CASE i - Len(a) \in DOMAIN b /\ c[i] = b[i - Len(a)]
    <3>1. j - Len(a) \in DOMAIN b /\ c[j] = b[j - Len(a)]
      BY <1>5, <2>1, <2>3
    <3>2. i - Len(a) = j - Len(a)
      BY <1>8, <2>3, <3>1 DEF Once
    <3> QED
      BY <1>1, <1>2, <3>2
  <2> QED
    BY <1>5, <2>2, <2>3
<1> QED
  BY <1>1, <1>6, <1>7, <1>8 DEF c

LEMMA SingleFacts ==
    ASSUME NEW T, NEW x \in T
    PROVE  <<x>> \in Seq(T) /\ Range(<<x>>) = {x} /\ Once(<<x>>)
BY DEF Range, Once

\* list_add_tail.
LEMMA AppendFacts ==
    ASSUME NEW T, NEW list \in Seq(T), NEW x \in T
    PROVE  /\ Append(list, x) \in Seq(T)
           /\ Range(Append(list, x)) = Range(list) \cup {x}
           /\ Once(Append(list, x)) <=> Once(list) /\ x \notin Range(list)
           /\ Append(list, x) # <<>>
           /\ list # <<>> => Head(Append(list, x)) = Head(list)
<1>1. Append(list, x) = list \o <<x>>
  OBVIOUS
<1>2. <<x>> \in Seq(T) /\ Range(<<x>>) = {x} /\ Once(<<x>>)
  BY SingleFacts
<1>3. Append(list, x) # <<>> /\ (list # <<>> => Head(Append(list, x)) = Head(list))
  BY SMTT(30)
<1>4. /\ list \o <<x>> \in Seq(T)
      /\ Range(list \o <<x>>) = Range(list) \cup Range(<<x>>)
      /\ Once(list \o <<x>>) <=>
            Once(list) /\ Once(<<x>>) /\ Range(list) \cap Range(<<x>>) = {}
  BY <1>2, ConcatFacts, ZenonT(30)
<1> QED
  BY <1>1, <1>2, <1>3, <1>4

\* Appending commutes with what precedes the appended list.
LEMMA ConcatAppend ==
    ASSUME NEW S, NEW s \in Seq(S), NEW t \in Seq(S), NEW e \in S
    PROVE  s \o Append(t, e) = Append(s \o t, e)
  <1>1. Append(t, e) = t \o <<e>>
    BY AppendIsConcat
  <1>2. Append(s \o t, e) = (s \o t) \o <<e>>
    BY AppendIsConcat, ConcatProperties
  <1>3. (s \o t) \o <<e>> = s \o (t \o <<e>>)
    BY ConcatAssociative
  <1>4. QED  BY <1>1, <1>2, <1>3

\* Moving the head of a list to the end of what precedes it changes nothing.
LEMMA ConcatMoveHead ==
    ASSUME NEW S, NEW s \in Seq(S), NEW t \in Seq(S), t # <<>>
    PROVE  Append(s, Head(t)) \o Tail(t) = s \o t
  <1>1. Head(t) \in S /\ Tail(t) \in Seq(S)
    BY HeadTailProperties
  <1>2. Append(s, Head(t)) = s \o <<Head(t)>>
    BY <1>1, AppendIsConcat
  <1>3. <<Head(t)>> \o Tail(t) = t
    <2> DEFINE u == <<Head(t)>> \o Tail(t)
    <2>1. /\ u \in Seq(S) /\ Len(u) = Len(t)
          /\ \A i \in 1..Len(t) : u[i] = t[i]
      BY <1>1, HeadTailProperties, ConcatProperties
    <2>2. QED  BY <2>1, SeqEqual
  <1>4. (s \o <<Head(t)>>) \o Tail(t) = s \o (<<Head(t)>> \o Tail(t))
    BY <1>1, ConcatAssociative
  <1>5. QED  BY <1>2, <1>3, <1>4

\* The element after a proper prefix.
LEMMA ConcatNextElement ==
    ASSUME NEW S, NEW s \in Seq(S), NEW t \in Seq(S), NEW u \in Seq(S),
           t # <<>>
    PROVE  /\ Len(s) < Len((s \o t) \o u)
           /\ ((s \o t) \o u)[Len(s) + 1] = Head(t)
  <1>1. /\ s \o t \in Seq(S)
        /\ Len(s \o t) = Len(s) + Len(t)
        /\ Len(t) \in Nat \ {0} /\ Len(s) \in Nat
        /\ (s \o t)[Len(s) + 1] = t[1]
    BY ConcatProperties, EmptySeq, LenProperties
  <1>2. /\ Len((s \o t) \o u) = Len(s \o t) + Len(u) /\ Len(u) \in Nat
        /\ \A i \in 1..Len(s \o t) : ((s \o t) \o u)[i] = (s \o t)[i]
    BY <1>1, ConcatProperties, LenProperties
  <1>3. QED  BY <1>1, <1>2

\* The first element is taken.
LEMMA TailFacts ==
    ASSUME NEW T, NEW list \in Seq(T), list # <<>>
    PROVE  /\ Head(list) \in T /\ Head(list) \in Range(list)
           /\ Tail(list) \in Seq(T)
           /\ Range(list) = Range(Tail(list)) \cup {Head(list)}
           /\ Once(list) => Once(Tail(list)) /\ Head(list) \notin Range(Tail(list))
<1>1. list = <<Head(list)>> \o Tail(list) /\ Head(list) \in T /\ Tail(list) \in Seq(T)
  <2>1. Len(list) \in Nat \ {0} /\ Head(list) = list[1] /\ Head(list) \in T
    OBVIOUS
  <2>2. /\ Tail(list) \in Seq(T) /\ Len(Tail(list)) = Len(list) - 1
        /\ \A i \in 1 .. Len(list) - 1 : Tail(list)[i] = list[i + 1]
    BY <2>1
  <2> QED
    BY <2>1, <2>2, HeadTailProperties
<1>2. Range(<<Head(list)>>) = {Head(list)} /\ <<Head(list)>> \in Seq(T)
  BY <1>1, SingleFacts
<1>3. /\ Range(<<Head(list)>> \o Tail(list)) = Range(<<Head(list)>>) \cup Range(Tail(list))
      /\ Once(<<Head(list)>> \o Tail(list)) =>
            Once(Tail(list)) /\ Range(<<Head(list)>>) \cap Range(Tail(list)) = {}
  BY <1>1, <1>2, ConcatFacts
<1> QED
  BY <1>1, <1>2, <1>3

\* list_del of the first.
LEMMA WithoutHead ==
    ASSUME NEW T, NEW list \in Seq(T), list # <<>>, Once(list)
    PROVE  Without(list, Head(list)) = Tail(list)
<1> DEFINE h == Head(list)
           t == Tail(list)
           S == Range(list) \ {h}
<1>1. /\ h \in T /\ t \in Seq(T) /\ list = <<h>> \o t
      /\ Range(list) = Range(t) \cup {h} /\ h \notin Range(t)
  BY TailFacts
<1> HIDE DEF h, t
<1>2. Range(t) \subseteq S /\ h \notin S
  BY <1>1
<1> HIDE DEF S
<1>3. Only(t, S) = t
  BY <1>1, <1>2, OnlyAll
<1>4. Only(<<h>> \o t, S) = Only(t, S)
  BY <1>1, <1>2, OnlyPrepend
<1> QED
  BY <1>1, <1>3, <1>4 DEF Without, S, h, t

LEMMA HeadInRange ==
    ASSUME NEW T, NEW list \in Seq(T)
    PROVE  list # <<>> <=> Range(list) # {}
<1>1. CASE list = <<>>
  BY <1>1, EmptyFacts
<1>2. CASE list # <<>>
  BY <1>2, TailFacts
<1> QED
  BY <1>1, <1>2

LEMMA FiniteRange ==
    ASSUME NEW T, NEW list \in Seq(T)
    PROVE  IsFiniteSet(Range(list))
<1>1. IsFiniteSet(DOMAIN list)
  BY FS_Interval
<1>2. list \in [DOMAIN list -> T]
  OBVIOUS
<1>3. list \in Surjection(DOMAIN list, Range(list))
  BY <1>2, Fun_RangeProperties
<1> QED
  BY <1>1, <1>3, FS_Surjection

\* What the orders of a set's members are.
LEMMA OrdersFacts ==
    ASSUME NEW T, NEW S \in SUBSET T, IsFiniteSet(S), NEW f \in Orders(S)
    PROVE  f \in Seq(T) /\ Range(f) = S /\ Once(f)
<1>1. Cardinality(S) \in Nat
  BY FS_CardinalityType
<1>2. f \in [1 .. Cardinality(S) -> S] /\ Range(f) = S
  BY DEF Orders
<1>3. f \in Seq(T)
  BY <1>1, <1>2
<1>4. IsFiniteSet(1 .. Cardinality(S)) /\ Cardinality(1 .. Cardinality(S)) = Cardinality(S)
  BY <1>1, FS_Interval
<1>5. f \in Surjection(1 .. Cardinality(S), S)
  BY <1>2, Fun_RangeProperties
<1>6. f \in Injection(1 .. Cardinality(S), S)
  BY <1>4, <1>5, FS_Surjection
<1>7. DOMAIN f = 1 .. Cardinality(S) /\ \A i, j \in 1 .. Cardinality(S) : f[i] = f[j] => i = j
  BY <1>2, <1>6 DEF Injection, IsInjective
<1> QED
  BY <1>2, <1>3, <1>7 DEF Once
=============================================================================
