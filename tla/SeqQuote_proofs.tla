--------------------------- MODULE SeqQuote_proofs --------------------------
(***************************************************************************)
(* Proofs about the quote slot: for any words, values, readers, version    *)
(* width and number of writes, an accepted snapshot is the payload of one  *)
(* write, and the slot implements the atomic register QuoteRegister.       *)
(***************************************************************************)
EXTENDS SeqQuote, TLAPS

(***************************************************************************)
(* Arithmetic of the version's wrap-around.                                *)
(***************************************************************************)
\* Division with remainder, for a modulus that is not a numeral.
LEMMA DivMod ==
    ASSUME NEW a \in Nat, NEW m \in Nat, m > 0
    PROVE  /\ a = m * (a \div m) + (a % m)
           /\ a % m \in 0 .. (m - 1)
           /\ a \div m \in Nat
  BY Z3

\* A multiple of m in 0 .. m-1 is 0.
LEMMA SmallMultiple ==
    ASSUME NEW q \in Int, NEW m \in Nat, m > 0, m * q >= 0, m * q < m
    PROVE  q = 0
<1>1. q >= 1 => m * q >= m
  BY Z3
<1>2. q <= -1 => m * q <= -m
  BY Z3
<1> QED
  BY <1>1, <1>2

\* Two version stores less than the modulus apart that have the same value
\* are the same store: the check v1 == v2 is sound although versions wrap.
LEMMA SameVersion ==
    ASSUME NEW a \in Nat, NEW b \in Nat, NEW m \in Nat, m > 0,
           a >= b, a - b < m, a % m = b % m
    PROVE  a = b
<1> DEFINE p == a \div m
           q == b \div m
<1>1. /\ a = m * p + (a % m) /\ b = m * q + (b % m)
      /\ p \in Nat /\ q \in Nat /\ (a % m) \in Int
  BY DivMod
<1>2. a - b = m * p - m * q
  BY <1>1
<1>3. m * p - m * q = m * (p - q)
  BY <1>1, Z3
<1> HIDE DEF p, q
<1>4. p - q = 0
  BY <1>1, <1>2, <1>3, SmallMultiple
<1> QED
  BY <1>1, <1>2, <1>4

\* Wrapping at an even modulus keeps the parity: an even value is the mark of
\* a finished write.
LEMMA EvenVersion ==
    ASSUME NEW a \in Nat, NEW m \in Nat, m > 0, m % 2 = 0, (a % m) % 2 = 0
    PROVE  a = 2 * (a \div 2) /\ a \div 2 \in Nat
<1> DEFINE p == a \div m
           x == a % m
           h == m \div 2
<1>1. a = m * p + x /\ p \in Nat /\ x \in Nat
  BY DivMod
<1>2. x % 2 = 0
  OBVIOUS
<1>3. m = 2 * h /\ h \in Nat
  OBVIOUS
<1> HIDE DEF p, x, h
<1>4. a = 2 * (h * p) + x /\ h * p \in Nat
  BY <1>1, <1>3
<1>5. \A y \in Nat : a = 2 * y + x => a % 2 = 0
  BY <1>1, <1>2
<1>6. a % 2 = 0
  BY <1>4, <1>5
<1> QED
  BY <1>6

-----------------------------------------------------------------------------
(***************************************************************************)
(* The inductive invariant.                                                *)
(***************************************************************************)
\* A reader knows of no version store that does not exist, and what it was
\* given last is not newer than what it knows of.
KnownVersion(r) ==
    /\ seen[r] <= Version
    /\ last[r] >= 1 /\ 2 * (last[r] - 1) <= seen[r]
    /\ snap[r] = log[last[r]]

\* Between its two version loads a reader is not overtaken, and each word it
\* has loaded is a store of the write v1 named or of a later one.
Reading(r) ==
    pc[r] # "v1" =>
        /\ 2 * v1[r] <= seen[r]
        /\ last[r] <= v1[r] + 1
        /\ Version - 2 * v1[r] < VersionModulus
        /\ pc[r] = "v2" => left[r] = {}
        /\ \A i \in Words \ left[r] : v1[r] <= got[r][i] /\ got[r][i] <= Stored(i)

IInv ==
    /\ TypeOK
    /\ \A r \in Readers : KnownVersion(r) /\ Reading(r)

\* What the conjuncts for one reader depend on is unchanged by a step of
\* another reader.
LEMMA OtherReader ==
    ASSUME NEW r \in Readers, KnownVersion(r), Reading(r), UNCHANGED writerVars,
           pc'[r] = pc[r], v1'[r] = v1[r], seen'[r] = seen[r], left'[r] = left[r],
           got'[r] = got[r], last'[r] = last[r], snap'[r] = snap[r]
    PROVE  KnownVersion(r)' /\ Reading(r)'
  BY DEF KnownVersion, Reading, Version, Stored, writerVars

LEMMA InitInv == Init => IInv
<1> SUFFICES ASSUME Init PROVE IInv
  OBVIOUS
<1>1. log \in Seq(Quotes) /\ Len(log) = done + 1 /\ log[1] = DefaultQuote
  BY SeqQuoteAssumption DEF Init
<1>2. TypeOK
  <2>1. done \in Nat /\ writing \in BOOLEAN /\ todo \in SUBSET Words /\ cur \in Quotes
    BY SeqQuoteAssumption DEF Init
  <2>2. /\ pc \in [Readers -> {"v1", "words", "v2"}]
        /\ v1 \in [Readers -> Nat]
        /\ seen \in [Readers -> Nat]
        /\ left \in [Readers -> SUBSET Words]
    BY DEF Init
  <2>3. got \in [Readers -> [Words -> Nat]] /\ last \in [Readers -> Nat]
    BY DEF Init
  <2>4. snap \in [Readers -> [Words -> Values]]
    BY SeqQuoteAssumption DEF Init
  <2> QED
    BY <1>1, <2>1, <2>2, <2>3, <2>4 DEF TypeOK
<1>3. ASSUME NEW r \in Readers
      PROVE  KnownVersion(r) /\ Reading(r)
  BY <1>1 DEF Init, KnownVersion, Reading, Version
<1> QED
  BY <1>2, <1>3 DEF IInv

\* The writer: a word it stores is newer than any a reader may have loaded.
LEMMA BeginWriteInv ==
    ASSUME IInv, NEW q \in Quotes, BeginWrite(q)
    PROVE  IInv'
<1>1. TypeOK'
  BY DEF IInv, TypeOK, BeginWrite, readerVars
<1>2. ASSUME NEW r \in Readers
      PROVE  KnownVersion(r)' /\ Reading(r)'
  <2>1. Version' = Version + 1
    BY DEF BeginWrite, Version, IInv, TypeOK
  <2>2. \A i \in Words : Stored(i)' = Stored(i)
    BY DEF BeginWrite, Stored, IInv, TypeOK
  <2>3. KnownVersion(r)'
    BY <2>1 DEF IInv, TypeOK, KnownVersion, BeginWrite, readerVars, Version
  <2>4. Reading(r)'
    BY <2>1, <2>2, SeqQuoteAssumption
    DEF IInv, TypeOK, Reading, BeginWrite, NotOvertaken, readerVars, Version
  <2> QED
    BY <2>3, <2>4
<1> QED
  BY <1>1, <1>2 DEF IInv

LEMMA StoreWordInv ==
    ASSUME IInv, NEW j \in Words, StoreWord(j)
    PROVE  IInv'
<1>1. TypeOK'
  BY DEF IInv, TypeOK, StoreWord, readerVars
<1>2. ASSUME NEW r \in Readers
      PROVE  KnownVersion(r)' /\ Reading(r)'
  <2>1. Version' = Version
    BY DEF StoreWord, Version
  <2>2. \A i \in Words : Stored(i)' >= Stored(i) /\ Stored(i) \in Nat /\ Stored(i)' \in Nat
    BY DEF StoreWord, Stored, IInv, TypeOK
  <2>3. KnownVersion(r)'
    BY <2>1 DEF IInv, KnownVersion, StoreWord, readerVars
  <2>4. Reading(r)'
    BY <2>1, <2>2 DEF IInv, TypeOK, Reading, StoreWord, readerVars
  <2> QED
    BY <2>3, <2>4
<1> QED
  BY <1>1, <1>2 DEF IInv

LEMMA EndWriteInv ==
    ASSUME IInv, EndWrite
    PROVE  IInv'
<1>1. TypeOK'
  <2>1. log' \in Seq(Quotes) /\ Len(log') = Len(log) + 1
    BY DEF IInv, TypeOK, EndWrite
  <2>2. done \in Nat /\ Len(log) = done + 1 /\ done' = done + 1
    BY DEF IInv, TypeOK, EndWrite
  <2>3. done' \in Nat /\ Len(log') = done' + 1
    BY <2>1, <2>2
  <2> QED
    BY <2>1, <2>3 DEF IInv, TypeOK, EndWrite, readerVars
<1>2. ASSUME NEW r \in Readers
      PROVE  KnownVersion(r)' /\ Reading(r)'
  <2>1. Version' = Version + 1 /\ Version = 2 * done + 1
    BY DEF EndWrite, Version, IInv, TypeOK
  <2>2. \A i \in Words : Stored(i)' = Stored(i)
    BY DEF EndWrite, Stored, IInv, TypeOK
  <2>3. last[r] \in 1 .. Len(log) /\ log'[last[r]] = log[last[r]]
    BY <2>1 DEF IInv, TypeOK, KnownVersion, EndWrite
  <2>4. KnownVersion(r)'
    BY <2>1, <2>3 DEF IInv, TypeOK, KnownVersion, EndWrite, readerVars, Version
  <2>5. Reading(r)'
    BY <2>1, <2>2, SeqQuoteAssumption
    DEF IInv, TypeOK, Reading, EndWrite, NotOvertaken, readerVars, Version
  <2> QED
    BY <2>4, <2>5
<1> QED
  BY <1>1, <1>2 DEF IInv

\* The first version load: an even store names a finished write.
LEMMA LoadV1Inv ==
    ASSUME IInv, NEW s \in Readers, LoadV1(s)
    PROVE  IInv'
<1> PICK n \in seen[s] .. Version :
        /\ pc[s] = "v1"
        /\ Version - n < VersionModulus
        /\ seen' = [seen EXCEPT ![s] = n]
        /\ IF (n % VersionModulus) % 2 # 0
           THEN UNCHANGED <<pc, v1, left>>
           ELSE /\ pc' = [pc EXCEPT ![s] = "words"]
                /\ v1' = [v1 EXCEPT ![s] = n \div 2]
                /\ left' = [left EXCEPT ![s] = Words]
        /\ UNCHANGED <<got, last, snap, writerVars>>
  BY DEF LoadV1
<1>1. n \in Nat /\ Version \in Nat /\ n <= Version /\ seen[s] <= n /\ seen[s] \in Nat
  BY DEF IInv, TypeOK, Version
<1>2. TypeOK'
  <2>1. n \div 2 \in Nat
    BY <1>1
  <2> QED
    BY <1>1, <2>1 DEF IInv, TypeOK, writerVars
<1>3. ASSUME NEW r \in Readers, r # s
      PROVE  KnownVersion(r)' /\ Reading(r)'
  <2>1. /\ pc'[r] = pc[r] /\ v1'[r] = v1[r] /\ seen'[r] = seen[r] /\ left'[r] = left[r]
        /\ got'[r] = got[r] /\ last'[r] = last[r] /\ snap'[r] = snap[r]
    BY <1>3 DEF IInv, TypeOK
  <2> QED
    BY <2>1, OtherReader DEF IInv
<1>4. KnownVersion(s)'
  <2>1. Version' = Version /\ seen'[s] = n
    BY DEF Version, writerVars, IInv, TypeOK
  <2> QED
    BY <1>1, <2>1 DEF KnownVersion, IInv, TypeOK, writerVars
<1>5. Reading(s)'
  <2>1. Version' = Version
    BY DEF Version, writerVars
  <2>2. CASE (n % VersionModulus) % 2 # 0
    BY <2>2 DEF Reading, IInv, TypeOK
  <2>3. CASE (n % VersionModulus) % 2 = 0
    <3>1. n = 2 * (n \div 2) /\ n \div 2 \in Nat
      BY <1>1, <2>3, EvenVersion, SeqQuoteAssumption
    <3>2. pc'[s] = "words" /\ 2 * v1'[s] = n /\ seen'[s] = n /\ left'[s] = Words /\ last'[s] = last[s] /\ v1'[s] \in Nat
      BY <2>3, <3>1 DEF IInv, TypeOK
    <3>3. last'[s] <= v1'[s] + 1
      BY <1>1, <3>2 DEF IInv, TypeOK, KnownVersion
    <3> QED
      BY <1>1, <2>1, <3>2, <3>3 DEF Reading
  <2> QED
    BY <2>2, <2>3
<1> QED
  BY <1>2, <1>3, <1>4, <1>5 DEF IInv

LEMMA LoadWordInv ==
    ASSUME IInv, NEW s \in Readers, NEW j \in Words, LoadWord(s, j)
    PROVE  IInv'
<1> PICK k \in v1[s] .. Stored(j) :
        /\ pc[s] = "words"
        /\ j \in left[s]
        /\ got' = [got EXCEPT ![s][j] = k]
        /\ left' = [left EXCEPT ![s] = @ \ {j}]
        /\ pc' = [pc EXCEPT ![s] = IF left[s] = {j} THEN "v2" ELSE "words"]
        /\ UNCHANGED <<v1, seen, last, snap, writerVars>>
  BY DEF LoadWord
<1>1. k \in Nat /\ v1[s] <= k /\ k <= Stored(j)
  BY DEF IInv, TypeOK, Stored
<1>2. TypeOK'
  BY <1>1 DEF IInv, TypeOK, writerVars
<1>3. ASSUME NEW r \in Readers, r # s
      PROVE  KnownVersion(r)' /\ Reading(r)'
  <2>1. /\ pc'[r] = pc[r] /\ v1'[r] = v1[r] /\ seen'[r] = seen[r] /\ left'[r] = left[r]
        /\ got'[r] = got[r] /\ last'[r] = last[r] /\ snap'[r] = snap[r]
    BY <1>3 DEF IInv, TypeOK
  <2> QED
    BY <2>1, OtherReader DEF IInv
<1>4. KnownVersion(s)'
  BY DEF KnownVersion, IInv, Version, writerVars
<1>5. Reading(s)'
  <2>1. Version' = Version /\ \A i \in Words : Stored(i)' = Stored(i)
    BY DEF Version, Stored, writerVars
  <2>2. /\ left'[s] = left[s] \ {j} /\ got'[s] = [got[s] EXCEPT ![j] = k]
        /\ pc'[s] = IF left[s] = {j} THEN "v2" ELSE "words"
    BY DEF IInv, TypeOK
  <2>3. \A i \in Words \ left'[s] : v1'[s] <= got'[s][i] /\ got'[s][i] <= Stored(i)'
    <3> SUFFICES ASSUME NEW i \in Words, i \notin left'[s]
                 PROVE  v1'[s] <= got'[s][i] /\ got'[s][i] <= Stored(i)'
      OBVIOUS
    <3>1. CASE i = j
      BY <1>1, <2>1, <2>2, <3>1 DEF IInv, TypeOK
    <3>2. CASE i # j
      <4>1. i \notin left[s] /\ got'[s][i] = got[s][i]
        BY <2>2, <3>2 DEF IInv, TypeOK
      <4>2. v1[s] <= got[s][i] /\ got[s][i] <= Stored(i)
        BY <4>1 DEF IInv, Reading
      <4> QED
        BY <2>1, <4>1, <4>2
    <3> QED
      BY <3>1, <3>2
  <2> QED
    BY <2>1, <2>2, <2>3 DEF Reading, IInv, TypeOK
<1> QED
  BY <1>2, <1>3, <1>4, <1>5 DEF IInv

\* The second version load: when the two values agree, every word loaded is
\* the one of the write v1 names.
LEMMA Accepted ==
    ASSUME IInv, NEW r \in Readers, pc[r] = "v2",
           NEW n \in seen[r] .. Version, AcquireFence(r, n),
           n % VersionModulus = (2 * v1[r]) % VersionModulus
    PROVE  /\ v1[r] + 1 \in last[r] .. Len(log)
           /\ [i \in Words |-> WordOf(got[r][i], i)] = log[v1[r] + 1]
<1>1. /\ v1[r] \in Nat /\ seen[r] \in Nat /\ Version \in Nat /\ n \in Nat
      /\ 2 * v1[r] <= n /\ n <= Version /\ n - 2 * v1[r] < VersionModulus
  <2>1. v1[r] \in Nat /\ seen[r] \in Nat /\ Version \in Nat
    BY DEF IInv, TypeOK, Version
  <2>2. 2 * v1[r] <= seen[r] /\ Version - 2 * v1[r] < VersionModulus
    BY DEF IInv, Reading
  <2> QED
    BY <2>1, <2>2, SeqQuoteAssumption
<1>2. n = 2 * v1[r]
  <2>1. /\ 2 * v1[r] \in Nat /\ VersionModulus \in Nat /\ VersionModulus > 0
    BY <1>1, SeqQuoteAssumption
  <2> QED
    BY <1>1, <2>1, SameVersion
<1>3. ASSUME NEW i \in Words
      PROVE  got[r][i] = v1[r]
  <2>1. got[r][i] \in Nat /\ v1[r] <= got[r][i]
    BY DEF IInv, TypeOK, Reading
  <2>2. n >= 2 * got[r][i] - 1
    BY DEF AcquireFence
  <2> QED
    BY <1>1, <1>2, <2>1, <2>2
<1>4. v1[r] <= done
  BY <1>1, <1>2 DEF Version, IInv, TypeOK
<1>5. v1[r] + 1 \in last[r] .. Len(log)
  BY <1>1, <1>4 DEF IInv, TypeOK, Reading
<1>6. log[v1[r] + 1] \in [Words -> Values]
  BY <1>1, <1>4, SeqQuoteAssumption DEF IInv, TypeOK
<1>7. [i \in Words |-> WordOf(got[r][i], i)] = [i \in Words |-> log[v1[r] + 1][i]]
  BY <1>1, <1>3, <1>4 DEF WordOf, IInv, TypeOK
<1> QED
  BY <1>5, <1>6, <1>7

LEMMA LoadV2Inv ==
    ASSUME IInv, NEW s \in Readers, LoadV2(s)
    PROVE  IInv'
<1> DEFINE words == [i \in Words |-> WordOf(got[s][i], i)]
<1> PICK n \in seen[s] .. Version :
        /\ pc[s] = "v2"
        /\ AcquireFence(s, n)
        /\ seen' = [seen EXCEPT ![s] = n]
        /\ pc' = [pc EXCEPT ![s] = "v1"]
        /\ IF n % VersionModulus = (2 * v1[s]) % VersionModulus
           THEN /\ snap' = [snap EXCEPT ![s] = words]
                /\ last' = [last EXCEPT ![s] = v1[s] + 1]
           ELSE UNCHANGED <<snap, last>>
        /\ UNCHANGED <<v1, left, got, writerVars>>
  BY DEF LoadV2
<1>1. n \in Nat /\ Version \in Nat /\ n <= Version /\ seen[s] <= n /\ seen[s] \in Nat
  BY DEF IInv, TypeOK, Version
<1>2. CASE n % VersionModulus = (2 * v1[s]) % VersionModulus
  <2>1. v1[s] + 1 \in last[s] .. Len(log) /\ words = log[v1[s] + 1]
    BY <1>2, Accepted
  <2>2. words \in [Words -> Values]
    BY <2>1, SeqQuoteAssumption DEF IInv, TypeOK
  <2> HIDE DEF words
  <2>3. TypeOK'
    <3>1. v1[s] + 1 \in Nat
      BY DEF IInv, TypeOK
    <3>2. snap' \in [Readers -> [Words -> Values]] /\ last' \in [Readers -> Nat]
      BY <1>2, <2>2, <3>1 DEF IInv, TypeOK
    <3> QED
      BY <1>1, <3>2 DEF IInv, TypeOK, writerVars
  <2>4. KnownVersion(s)'
    <3>1. last'[s] = v1[s] + 1 /\ snap'[s] = words /\ seen'[s] = n /\ Version' = Version /\ log' = log
      BY <1>2 DEF IInv, TypeOK, Version, writerVars
    <3>2. 2 * v1[s] <= n /\ v1[s] \in Nat
      BY <1>1 DEF IInv, TypeOK, Reading
    <3> QED
      BY <1>1, <2>1, <3>1, <3>2 DEF KnownVersion
  <2>5. Reading(s)'
    BY DEF Reading, IInv, TypeOK
  <2>6. ASSUME NEW r \in Readers, r # s
        PROVE  KnownVersion(r)' /\ Reading(r)'
    <3>1. /\ pc'[r] = pc[r] /\ v1'[r] = v1[r] /\ seen'[r] = seen[r] /\ left'[r] = left[r]
          /\ got'[r] = got[r] /\ last'[r] = last[r] /\ snap'[r] = snap[r]
      BY <1>2, <2>6 DEF IInv, TypeOK
    <3> QED
      BY <3>1, OtherReader DEF IInv
  <2> QED
    BY <2>3, <2>4, <2>5, <2>6 DEF IInv
<1>3. CASE n % VersionModulus # (2 * v1[s]) % VersionModulus
  <2>1. TypeOK'
    BY <1>1, <1>3 DEF IInv, TypeOK, writerVars
  <2>2. KnownVersion(s)'
    <3>1. last' = last /\ snap' = snap /\ seen'[s] = n /\ Version' = Version /\ log' = log
      BY <1>3 DEF IInv, TypeOK, Version, writerVars
    <3> QED
      BY <1>1, <3>1 DEF KnownVersion, IInv, TypeOK
  <2>3. Reading(s)'
    BY DEF Reading, IInv, TypeOK
  <2>4. ASSUME NEW r \in Readers, r # s
        PROVE  KnownVersion(r)' /\ Reading(r)'
    <3>1. /\ pc'[r] = pc[r] /\ v1'[r] = v1[r] /\ seen'[r] = seen[r] /\ left'[r] = left[r]
          /\ got'[r] = got[r] /\ last'[r] = last[r] /\ snap'[r] = snap[r]
      BY <1>3, <2>4 DEF IInv, TypeOK
    <3> QED
      BY <3>1, OtherReader DEF IInv
  <2> QED
    BY <2>1, <2>2, <2>3, <2>4 DEF IInv
<1> QED
  BY <1>2, <1>3

LEMMA NextInv == IInv /\ [Next]_vars => IInv'
<1> SUFFICES ASSUME IInv, [Next]_vars PROVE IInv'
  OBVIOUS
<1>1. CASE UNCHANGED vars
  BY <1>1 DEF vars, writerVars, readerVars, IInv, TypeOK, KnownVersion, Reading, Version, Stored
<1>2. ASSUME NEW q \in Quotes, BeginWrite(q) PROVE IInv'
  BY <1>2, BeginWriteInv
<1>3. ASSUME NEW i \in Words, StoreWord(i) PROVE IInv'
  BY <1>3, StoreWordInv
<1>4. CASE EndWrite
  BY <1>4, EndWriteInv
<1>5. ASSUME NEW r \in Readers, LoadV1(r) PROVE IInv'
  BY <1>5, LoadV1Inv
<1>6. ASSUME NEW r \in Readers, LoadV2(r) PROVE IInv'
  BY <1>6, LoadV2Inv
<1>7. ASSUME NEW r \in Readers, NEW i \in Words, LoadWord(r, i) PROVE IInv'
  BY <1>7, LoadWordInv
<1> QED
  BY <1>1, <1>2, <1>3, <1>4, <1>5, <1>6, <1>7 DEF Next

\* IInv is an invariant.
LEMMA Invariance == Spec => []IInv
  BY InitInv, NextInv, PTL DEF Spec

-----------------------------------------------------------------------------
\* The state of the slot and of its readers keeps its types.
THEOREM TypeCorrect == Spec => []TypeOK
<1>1. IInv => TypeOK
  BY DEF IInv
<1> QED
  BY <1>1, Invariance, PTL

\* A snapshot that read() returns is the payload of one write of the slot, for
\* any number of readers and words and any even version modulus.
THEOREM SnapshotTheorem == Spec => []SnapshotIsOneWrite
<1>1. IInv => SnapshotIsOneWrite
  <2> SUFFICES ASSUME IInv, NEW r \in Readers
               PROVE  last[r] \in 1 .. Len(log) /\ snap[r] = log[last[r]]
    BY DEF SnapshotIsOneWrite
  <2>1. KnownVersion(r) /\ last[r] \in Nat /\ seen[r] \in Nat /\ done \in Nat /\ Len(log) = done + 1
    BY DEF IInv, TypeOK
  <2>2. Version <= 2 * done + 1 /\ Version \in Nat
    BY <2>1 DEF Version
  <2> QED
    BY <2>1, <2>2 DEF KnownVersion
<1> QED
  BY <1>1, Invariance, PTL

\* Every step of the slot is a Write or a Read of the atomic register, or
\* changes nothing a user of the register sees.
LEMMA StepSimulation == IInv /\ [Next]_vars => [Register!Next]_(Register!vars)
<1> SUFFICES ASSUME IInv, [Next]_vars
             PROVE  Register!Next \/ UNCHANGED <<log, last, snap>>
  BY DEF Register!vars
<1>1. CASE UNCHANGED vars
  BY <1>1 DEF vars, writerVars, readerVars
<1>2. ASSUME NEW q \in Quotes, BeginWrite(q) PROVE UNCHANGED <<log, last, snap>>
  BY <1>2 DEF BeginWrite, readerVars
<1>3. ASSUME NEW i \in Words, StoreWord(i) PROVE UNCHANGED <<log, last, snap>>
  BY <1>3 DEF StoreWord, readerVars
<1>4. CASE EndWrite
  <2>1. cur \in Quotes /\ Register!Write(cur)
    BY <1>4 DEF EndWrite, readerVars, Register!Write, IInv, TypeOK
  <2> QED
    BY <2>1 DEF Register!Next
<1>5. ASSUME NEW r \in Readers, LoadV1(r) PROVE UNCHANGED <<log, last, snap>>
  BY <1>5 DEF LoadV1, writerVars
<1>6. ASSUME NEW r \in Readers, NEW i \in Words, LoadWord(r, i)
      PROVE  UNCHANGED <<log, last, snap>>
  BY <1>6 DEF LoadWord, writerVars
<1>7. ASSUME NEW r \in Readers, LoadV2(r)
      PROVE  Register!Read(r) \/ UNCHANGED <<log, last, snap>>
  <2> DEFINE words == [i \in Words |-> WordOf(got[r][i], i)]
  <2> PICK n \in seen[r] .. Version :
          /\ pc[r] = "v2"
          /\ AcquireFence(r, n)
          /\ IF n % VersionModulus = (2 * v1[r]) % VersionModulus
             THEN /\ snap' = [snap EXCEPT ![r] = words]
                  /\ last' = [last EXCEPT ![r] = v1[r] + 1]
             ELSE UNCHANGED <<snap, last>>
          /\ UNCHANGED log
    BY <1>7 DEF LoadV2, writerVars
  <2>1. CASE n % VersionModulus = (2 * v1[r]) % VersionModulus
    <3>1. v1[r] + 1 \in last[r] .. Len(log) /\ words = log[v1[r] + 1]
      BY <2>1, Accepted
    <3> HIDE DEF words
    <3> QED
      BY <2>1, <3>1 DEF Register!Read
  <2>2. CASE n % VersionModulus # (2 * v1[r]) % VersionModulus
    BY <2>2
  <2> QED
    BY <2>1, <2>2
<1> QED
  BY <1>1, <1>2, <1>3, <1>4, <1>5, <1>6, <1>7 DEF Next, Register!Next

\* The lock-free slot implements the atomic register.
THEOREM SlotImplementsRegister == Spec => RegisterSpec
<1>1. Init => Register!Init
  BY DEF Init, Register!Init
<1> QED
  BY <1>1, StepSimulation, Invariance, PTL DEF Spec, RegisterSpec, Register!Spec
=============================================================================
