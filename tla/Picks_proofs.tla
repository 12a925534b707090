---------------------------- MODULE Picks_proofs ----------------------------
(***************************************************************************)
(* What the operators of Picks give, for every finite set of numbers and   *)
(* every sequence, and which elements a sequence has after the operations  *)
(* on it.  The proofs about a queue go by these facts: the elements as a   *)
(* set (ToSet) and, where the order matters, the places the elements come  *)
(* from.                                                                   *)
(***************************************************************************)
EXTENDS Picks, SequencesExt, FiniteSetTheorems, TLAPS

\* The rank of an element: how many are not larger.
Rank(S, i) == Cardinality({j \in S : j <= i})

\* The smallest has rank 1, the largest that of their number.
LEMMA RankType ==
    ASSUME NEW S \in SUBSET Nat, IsFiniteSet(S), NEW i \in S
    PROVE  Rank(S, i) \in 1 .. Cardinality(S)
<1> DEFINE T == {j \in S : j <= i}
<1>1. IsFiniteSet(T) /\ Cardinality(T) <= Cardinality(S)
  BY FS_Subset
<1>2. Cardinality(T) \in Nat /\ Cardinality(S) \in Nat
  BY <1>1, FS_CardinalityType
<1>3. T # {}
  OBVIOUS
<1>4. Cardinality(T) # 0
  BY <1>1, <1>3, FS_EmptySet
<1> QED
  BY <1>1, <1>2, <1>4 DEF Rank

\* The larger of two has the higher rank.
LEMMA RankRises ==
    ASSUME NEW S \in SUBSET Nat, IsFiniteSet(S), NEW i \in S, NEW j \in S, i < j
    PROVE  Rank(S, i) < Rank(S, j)
<1> DEFINE T == {k \in S : k <= i}
           U == {k \in S : k <= j}
<1>1. IsFiniteSet(U)
  BY FS_Subset
<1>0. i \in Nat /\ j \in Nat /\ (\A k \in S : k <= i => k <= j) /\ j <= j /\ ~(j <= i)
  OBVIOUS
<1>2. T \in SUBSET U /\ j \in U /\ j \notin T
  BY <1>0, Zenon
<1>3. Cardinality(T) <= Cardinality(U) /\ Cardinality(U) # Cardinality(T) /\ IsFiniteSet(T)
  BY <1>1, <1>2, FS_Subset
<1>4. Cardinality(T) \in Nat /\ Cardinality(U) \in Nat
  BY <1>1, <1>3, FS_CardinalityType
<1> QED
  BY <1>3, <1>4 DEF Rank

\* Every rank is that of one element.
LEMMA RankOf ==
    ASSUME NEW S \in SUBSET Nat, IsFiniteSet(S), NEW k \in 1 .. Cardinality(S)
    PROVE  \E i \in S : Rank(S, i) = k
<1> DEFINE N == 1 .. Cardinality(S)
           f == [i \in S |-> Rank(S, i)]
<1>1. Cardinality(S) \in Nat
  BY FS_CardinalityType
<1>2. f \in [S -> N]
  BY RankType
<1>3. \A i, j \in S : f[i] = f[j] => i = j
  <2>1. TAKE i, j \in S
  <2>2. i \in Nat /\ j \in Nat /\ Rank(S, i) \in Nat /\ Rank(S, j) \in Nat
    BY RankType, <1>1
  <2>3. i < j => Rank(S, i) < Rank(S, j)
    BY RankRises
  <2>4. j < i => Rank(S, j) < Rank(S, i)
    BY RankRises
  <2> QED
    BY <2>2, <2>3, <2>4
<1>4. f \in Injection(S, N)
  BY <1>2, <1>3 DEF Injection, IsInjective
<1>5. IsFiniteSet(N) /\ Cardinality(N) = Cardinality(S)
  BY <1>1, FS_Interval
<1>6. f \in Surjection(S, N)
  BY <1>4, <1>5, FS_Injection
<1> QED
  BY <1>6 DEF Surjection

\* The elements in ascending order: each is there once, the smaller first.
LEMMA AscendingOf ==
    ASSUME NEW S \in SUBSET Nat, IsFiniteSet(S)
    PROVE  /\ Cardinality(S) \in Nat
           /\ Ascending(S) \in [1 .. Cardinality(S) -> S]
           /\ \A i \in S : \E k \in 1 .. Cardinality(S) : Ascending(S)[k] = i
           /\ \A k, l \in 1 .. Cardinality(S) : k < l => Ascending(S)[k] < Ascending(S)[l]
<1> DEFINE N == 1 .. Cardinality(S)
           A(k) == CHOOSE i \in S : Rank(S, i) = k
<1>1. Cardinality(S) \in Nat
  BY FS_CardinalityType
<1>2. Ascending(S) = [k \in N |-> A(k)]
  BY DEF Ascending, Rank
<1>3. \A k \in N : A(k) \in S /\ Rank(S, A(k)) = k
  BY RankOf
<1> HIDE DEF A
<1>4. Ascending(S) \in [N -> S]
  BY <1>2, <1>3
<1>5. ASSUME NEW i \in S
      PROVE  \E k \in N : Ascending(S)[k] = i
  <2>1. Rank(S, i) \in N
    BY RankType
  <2>2. PICK a \in S : a = A(Rank(S, i)) /\ Rank(S, a) = Rank(S, i)
    BY <1>3, <2>1
  <2>3. i < a => Rank(S, i) < Rank(S, a)
    BY RankRises
  <2>4. a < i => Rank(S, a) < Rank(S, i)
    BY RankRises
  <2>5. a = i
    BY <2>1, <2>2, <2>3, <2>4, <1>1
  <2> QED
    BY <2>1, <2>2, <2>5, <1>2
<1>6. ASSUME NEW k \in N, NEW l \in N, k < l
      PROVE  Ascending(S)[k] < Ascending(S)[l]
  <2>1. PICK a \in S : a = Ascending(S)[k] /\ Rank(S, a) = k
    BY <1>2, <1>3
  <2>2. PICK b \in S : b = Ascending(S)[l] /\ Rank(S, b) = l
    BY <1>2, <1>3
  <2>3. b < a => Rank(S, b) < Rank(S, a)
    BY RankRises
  <2> QED
    BY <1>6, <2>1, <2>2, <2>3, <1>1
<1> QED
  BY <1>1, <1>4, <1>5, <1>6

\* ... and in descending order.
LEMMA DescendingOf ==
    ASSUME NEW S \in SUBSET Nat, IsFiniteSet(S)
    PROVE  /\ Cardinality(S) \in Nat
           /\ Descending(S) \in [1 .. Cardinality(S) -> S]
           /\ \A i \in S : \E k \in 1 .. Cardinality(S) : Descending(S)[k] = i
<1>1. PICK n \in Nat : n = Cardinality(S)
  BY AscendingOf
<1>2. /\ Ascending(S) \in [1 .. n -> S]
      /\ \A i \in S : \E k \in 1 .. n : Ascending(S)[k] = i
  BY <1>1, AscendingOf
<1>3. Descending(S) = [k \in 1 .. n |-> Ascending(S)[n + 1 - k]]
  BY <1>1 DEF Descending
<1>4. \A k \in 1 .. n : n + 1 - k \in 1 .. n /\ n + 1 - (n + 1 - k) = k
  BY <1>1
<1>5. Descending(S) \in [1 .. n -> S]
  BY <1>2, <1>3, <1>4
<1>6. ASSUME NEW i \in S
      PROVE  \E k \in 1 .. n : Descending(S)[k] = i
  <2>1. PICK k \in 1 .. n : Ascending(S)[k] = i
    BY <1>2
  <2> WITNESS n + 1 - k \in 1 .. n
  <2> QED
    BY <2>1, <1>3, <1>4
<1> QED
  BY <1>1, <1>5, <1>6

\* The places of the elements kept: ascending, and those of the elements in
\* the set.
KeptAt(f, t, s, S) ==
    /\ f \in [1 .. Len(t) -> 1 .. Len(s)]
    /\ \A k \in 1 .. Len(t) : t[k] = s[f[k]] /\ s[f[k]] \in S
    /\ \A k, l \in 1 .. Len(t) : k < l => f[k] < f[l]
    /\ \A i \in 1 .. Len(s) : s[i] \in S => \E k \in 1 .. Len(t) : f[k] = i

\* What is kept of a sequence comes from such places.
LEMMA KeptOf ==
    ASSUME NEW E, NEW s \in Seq(E), NEW S
    PROVE  Kept(s, S) \in Seq(E) /\ \E f : KeptAt(f, Kept(s, S), s, S)
<1> DEFINE P == {i \in DOMAIN s : s[i] \in S}
<1>1. P \in SUBSET Nat /\ P \subseteq 1 .. Len(s)
  OBVIOUS
<1>2. IsFiniteSet(P)
  <2>1. IsFiniteSet(1 .. Len(s))
    BY FS_Interval
  <2> QED
    BY <2>1, <1>1, FS_Subset
<1>3. PICK n \in Nat : n = Cardinality(P)
  BY <1>1, <1>2, AscendingOf
<1>4. PICK f : f = Ascending(P)
  OBVIOUS
<1>5. /\ f \in [1 .. n -> P]
      /\ \A i \in P : \E k \in 1 .. n : f[k] = i
      /\ \A k, l \in 1 .. n : k < l => f[k] < f[l]
  BY <1>1, <1>2, <1>3, <1>4, AscendingOf
<1>6. Kept(s, S) = [k \in 1 .. n |-> s[f[k]]]
  BY <1>4, <1>5 DEF Kept
<1>7. Kept(s, S) \in Seq(E) /\ Len(Kept(s, S)) = n
  BY <1>5, <1>6, <1>1
<1>8. f \in [1 .. n -> 1 .. Len(s)]
  BY <1>5, <1>1
<1>9. \A k \in 1 .. n : Kept(s, S)[k] = s[f[k]] /\ s[f[k]] \in S
  BY <1>5, <1>6
<1>10. \A i \in 1 .. Len(s) : s[i] \in S => \E k \in 1 .. n : f[k] = i
  BY <1>5
<1>11. KeptAt(f, Kept(s, S), s, S)
  BY <1>5, <1>7, <1>8, <1>9, <1>10 DEF KeptAt
<1> QED
  BY <1>7, <1>11

-----------------------------------------------------------------------------
(***************************************************************************)
(* The elements of sequences.                                              *)
(***************************************************************************)
\* The elements of a sequence are those at its places.
LEMMA InSet ==
    ASSUME NEW E, NEW s \in Seq(E)
    PROVE  /\ \A x : x \in ToSet(s) <=> \E k \in 1 .. Len(s) : s[k] = x
           /\ ToSet(s) \subseteq E
  BY DEF ToSet

\* Of a concatenation: those of either part.
LEMMA InConcat ==
    ASSUME NEW E, NEW s \in Seq(E), NEW t \in Seq(E)
    PROVE  s \o t \in Seq(E) /\ ToSet(s \o t) = ToSet(s) \cup ToSet(t)
<1>1. /\ s \o t \in Seq(E) /\ Len(s \o t) = Len(s) + Len(t)
      /\ \A k \in 1 .. Len(s) + Len(t) : (s \o t)[k] = IF k <= Len(s) THEN s[k] ELSE t[k - Len(s)]
  OBVIOUS
<1>2. ASSUME NEW x \in ToSet(s \o t)
      PROVE  x \in ToSet(s) \cup ToSet(t)
  <2>1. PICK k \in 1 .. Len(s) + Len(t) : (s \o t)[k] = x
    BY <1>1, InSet
  <2>2. CASE k <= Len(s)
    BY <1>1, <2>1, <2>2, InSet
  <2>3. CASE ~(k <= Len(s))
    <3>1. k - Len(s) \in 1 .. Len(t) /\ t[k - Len(s)] = x
      BY <1>1, <2>1, <2>3
    <3> QED
      BY <3>1, InSet
  <2> QED
    BY <2>2, <2>3
<1>3. ASSUME NEW x \in ToSet(s)
      PROVE  x \in ToSet(s \o t)
  <2>1. PICK k \in 1 .. Len(s) : s[k] = x
    BY InSet
  <2>2. k \in 1 .. Len(s) + Len(t) /\ (s \o t)[k] = x
    BY <1>1, <2>1
  <2> QED
    BY <2>2, <1>1, InSet
<1>4. ASSUME NEW x \in ToSet(t)
      PROVE  x \in ToSet(s \o t)
  <2>1. PICK k \in 1 .. Len(t) : t[k] = x
    BY InSet
  <2>2. k + Len(s) \in 1 .. Len(s) + Len(t) /\ (s \o t)[k + Len(s)] = x
    BY <1>1, <2>1
  <2> QED
    BY <2>2, <1>1, InSet
<1> QED
  BY <1>1, <1>2, <1>3, <1>4

\* Of the tail: with the head, those of the sequence.
LEMMA InTail ==
    ASSUME NEW E, NEW s \in Seq(E), s # <<>>
    PROVE  /\ Tail(s) \in Seq(E) /\ Head(s) \in E
           /\ ToSet(s) = {Head(s)} \cup ToSet(Tail(s))
<1>0. PICK t : t = Tail(s)
  OBVIOUS
<1>1. /\ t \in Seq(E) /\ Len(t) = Len(s) - 1 /\ Len(s) \in Nat \ {0}
      /\ Head(s) = s[1] /\ Head(s) \in E
      /\ \A k \in 1 .. Len(s) - 1 : t[k] = s[k + 1]
  BY <1>0
<1>2. ASSUME NEW x \in ToSet(s)
      PROVE  x \in {Head(s)} \cup ToSet(t)
  <2>1. PICK k \in 1 .. Len(s) : s[k] = x
    BY InSet
  <2>2. CASE k # 1
    <3>1. k - 1 \in 1 .. Len(t) /\ t[k - 1] = x
      BY <1>1, <2>1, <2>2
    <3> QED
      BY <3>1, <1>1, InSet
  <2> QED
    BY <1>1, <2>1, <2>2
<1>3. ASSUME NEW x \in ToSet(t)
      PROVE  x \in ToSet(s)
  <2>1. PICK k \in 1 .. Len(t) : t[k] = x
    BY <1>1, InSet
  <2>2. k + 1 \in 1 .. Len(s) /\ s[k + 1] = x
    BY <1>1, <2>1
  <2> QED
    BY <2>2, InSet
<1>4. Head(s) \in ToSet(s)
  BY <1>1, InSet
<1> QED
  BY <1>0, <1>1, <1>2, <1>3, <1>4

\* Of an extended sequence: one more.
LEMMA InAppend ==
    ASSUME NEW E, NEW s \in Seq(E), NEW e \in E
    PROVE  Append(s, e) \in Seq(E) /\ ToSet(Append(s, e)) = ToSet(s) \cup {e}
<1>0. PICK t : t = Append(s, e)
  OBVIOUS
<1>1. /\ t \in Seq(E) /\ Len(t) = Len(s) + 1 /\ Len(s) \in Nat
      /\ \A k \in 1 .. Len(s) : t[k] = s[k]
      /\ t[Len(s) + 1] = e
  BY <1>0
<1>2. ASSUME NEW x \in ToSet(t)
      PROVE  x \in ToSet(s) \cup {e}
  <2>1. PICK k \in 1 .. Len(s) + 1 : t[k] = x
    BY <1>1, InSet
  <2>2. CASE k \in 1 .. Len(s)
    BY <1>1, <2>1, <2>2, InSet
  <2>3. CASE k = Len(s) + 1
    BY <1>1, <2>1, <2>3
  <2> QED
    BY <1>1, <2>2, <2>3
<1>3. ASSUME NEW x \in ToSet(s)
      PROVE  x \in ToSet(t)
  <2>1. PICK k \in 1 .. Len(s) : s[k] = x
    BY InSet
  <2>2. k \in 1 .. Len(s) + 1 /\ t[k] = x
    BY <1>1, <2>1
  <2> QED
    BY <2>2, <1>1, InSet
<1>4. e \in ToSet(t)
  <2>1. Len(s) + 1 \in 1 .. Len(s) + 1
    BY <1>1
  <2> QED
    BY <2>1, <1>1, InSet
<1> QED
  BY <1>0, <1>1, <1>2, <1>3, <1>4

\* Of what is kept: those that are in the set.
LEMMA InKept ==
    ASSUME NEW E, NEW s \in Seq(E), NEW S
    PROVE  Kept(s, S) \in Seq(E) /\ ToSet(Kept(s, S)) = ToSet(s) \cap S
<1>a. PICK f : KeptAt(f, Kept(s, S), s, S)
  BY KeptOf
<1>1. PICK n : n = Len(Kept(s, S))
  OBVIOUS
<1>2. /\ f \in [1 .. n -> 1 .. Len(s)]
      /\ \A k \in 1 .. n : Kept(s, S)[k] = s[f[k]] /\ s[f[k]] \in S
      /\ \A i \in 1 .. Len(s) : s[i] \in S => \E k \in 1 .. n : f[k] = i
  BY <1>a, <1>1 DEF KeptAt
<1>3. Kept(s, S) \in Seq(E)
  BY KeptOf
<1>4. ASSUME NEW x \in ToSet(Kept(s, S))
      PROVE  x \in ToSet(s) \cap S
  <2>1. PICK k \in 1 .. n : Kept(s, S)[k] = x
    BY <1>1, <1>3, InSet
  <2> QED
    BY <1>2, <2>1, InSet
<1>5. ASSUME NEW x \in ToSet(s) \cap S
      PROVE  x \in ToSet(Kept(s, S))
  <2>1. PICK i \in 1 .. Len(s) : s[i] = x
    BY InSet
  <2>2. PICK k \in 1 .. n : f[k] = i
    BY <1>2, <2>1
  <2> QED
    BY <1>1, <1>2, <1>3, <2>1, <2>2, InSet
<1> QED
  BY <1>3, <1>4, <1>5
=============================================================================
