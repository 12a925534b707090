------------------------------ MODULE SeqQuote ------------------------------
(***************************************************************************)
(* The sequence lock that holds one quote (SeqQuote in src/bridge.rs): a   *)
(* version and the words of the payload, written by the engine thread and  *)
(* read by any number of client threads, with no lock.                     *)
(*                                                                         *)
(* The payload is accessed with Relaxed loads and stores, so the memory    *)
(* is not sequentially consistent: each location has its modification      *)
(* order, and a load returns any store of that order which the orderings   *)
(* of the code do not rule out.  A store is named by its place in the      *)
(* order: store n of the version (its value is n modulo VersionModulus),   *)
(* and store k of a word (the one of the k-th write; 0 is the one of       *)
(* new()).  The writer's Release fence puts version store 2k-1 (odd,       *)
(* writing) before the words of write k, its Release store puts them       *)
(* before version store 2k (even, stable).                                 *)
(***************************************************************************)
EXTENDS Integers, Sequences

CONSTANTS
    Words,          \* the payload words of a quote (QUOTE_WORDS of them)
    Values,         \* the values of a word
    Quotes,         \* the payloads the engine writes
    Readers,        \* the client threads that call read()
    DefaultQuote,   \* Quote::default()
    VersionModulus, \* the version is an unsigned integer of this modulus (2^64)
    MaxWrites       \* bound: calls of write() in a behaviour

ASSUME SeqQuoteAssumption ==
    /\ Quotes \subseteq [Words -> Values]
    /\ DefaultQuote \in Quotes
    /\ VersionModulus \in Nat /\ VersionModulus > 0 /\ VersionModulus % 2 = 0
    /\ MaxWrites \in Nat

VARIABLES
    done,           \* the number of writes whose even version is stored
    writing,        \* the odd version of write done + 1 is stored
    todo,           \* the words write done + 1 has not stored yet
    cur,            \* the argument of write done + 1
    log,            \* the payloads of new() and of the writes that are done
    pc,             \* where a reader is in read()
    v1,             \* the version store a reader's first load returned, halved
    seen,           \* the newest version store a reader must be aware of
    left,           \* the words a reader has not loaded yet
    got,            \* the store of each word a reader has loaded
    last,           \* the position in log of the quote read() returned last
    snap            \* the quote read() returned last

writerVars == <<done, writing, todo, cur, log>>
readerVars == <<pc, v1, seen, left, got, last, snap>>
vars == <<writerVars, readerVars>>

\* The number of version stores so far: two for each write, one more while
\* a write is in progress.
Version == 2 * done + (IF writing THEN 1 ELSE 0)

\* The newest store of word i.
Stored(i) == IF writing /\ i \notin todo THEN done + 1 ELSE done

\* The value of word i in the payload of write k.
WordOf(k, i) == IF k = done + 1 THEN cur[i] ELSE log[k + 1][i]

TypeOK ==
    /\ done \in Nat
    /\ writing \in BOOLEAN
    /\ todo \in SUBSET Words
    /\ cur \in Quotes
    /\ log \in Seq(Quotes) /\ Len(log) = done + 1
    /\ pc \in [Readers -> {"v1", "words", "v2"}]
    /\ v1 \in [Readers -> Nat]
    /\ seen \in [Readers -> Nat]
    /\ left \in [Readers -> SUBSET Words]
    /\ got \in [Readers -> [Words -> Nat]]
    /\ last \in [Readers -> Nat]
    /\ snap \in [Readers -> [Words -> Values]]

\* SeqQuote::new: version 0, the default payload.
Init ==
    /\ done = 0
    /\ writing = FALSE
    /\ todo = {}
    /\ cur = DefaultQuote
    /\ log = <<DefaultQuote>>
    /\ pc = [r \in Readers |-> "v1"]
    /\ v1 = [r \in Readers |-> 0]
    /\ seen = [r \in Readers |-> 0]
    /\ left = [r \in Readers |-> {}]
    /\ got = [r \in Readers |-> [i \in Words |-> 0]]
    /\ last = [r \in Readers |-> 1]
    /\ snap = [r \in Readers |-> DefaultQuote]

-----------------------------------------------------------------------------
\* No reader between its two version loads is overtaken by as many version
\* stores as the version has values: 2^63 writes during one read.  The code
\* relies on it, version.wrapping_add being its only care for the overflow.
NotOvertaken ==
    \A r \in Readers : pc[r] # "v1" => Version + 1 - 2 * v1[r] < VersionModulus

\* write: the odd version is stored, then the Release fence.
BeginWrite(q) ==
    /\ ~writing
    /\ done < MaxWrites
    /\ NotOvertaken
    /\ writing' = TRUE
    /\ todo' = Words
    /\ cur' = q
    /\ UNCHANGED <<done, log, readerVars>>

\* store_payload: the words are Relaxed stores, in any order.
StoreWord(i) ==
    /\ writing
    /\ i \in todo
    /\ todo' = todo \ {i}
    /\ UNCHANGED <<done, writing, cur, log, readerVars>>

\* write: the even version is stored with Release, after every word.
EndWrite ==
    /\ writing
    /\ todo = {}
    /\ NotOvertaken
    /\ done' = done + 1
    /\ writing' = FALSE
    /\ log' = Append(log, cur)
    /\ UNCHANGED <<todo, cur, readerVars>>

-----------------------------------------------------------------------------
\* read: the first version load (Acquire) returns any store not older than
\* one the thread knows of, nor VersionModulus stores behind.  Odd: the reader
\* spins.
LoadV1(r) ==
    \E n \in seen[r] .. Version :
        /\ pc[r] = "v1"
        /\ Version - n < VersionModulus
        /\ seen' = [seen EXCEPT ![r] = n]
        /\ IF (n % VersionModulus) % 2 # 0
           THEN UNCHANGED <<pc, v1, left>>
           ELSE /\ pc' = [pc EXCEPT ![r] = "words"]
                /\ v1' = [v1 EXCEPT ![r] = n \div 2]
                /\ left' = [left EXCEPT ![r] = Words]
        /\ UNCHANGED <<got, last, snap, writerVars>>

\* load_payload: word i is a Relaxed load.  The Acquire load of v1 rules out
\* the stores before the write it read; any newer one may be returned.
LoadWord(r, i) ==
    \E k \in v1[r] .. Stored(i) :
        /\ pc[r] = "words"
        /\ i \in left[r]
        /\ got' = [got EXCEPT ![r][i] = k]
        /\ left' = [left EXCEPT ![r] = @ \ {i}]
        /\ pc' = [pc EXCEPT ![r] = IF left[r] = {i} THEN "v2" ELSE "words"]
        /\ UNCHANGED <<v1, seen, last, snap, writerVars>>

\* Mutant of AcquireFence: the fence is left out, so the second version load
\* may be satisfied before the words are loaded.
AcquireFenceLeftOut(r, n) == TRUE

\* The Acquire fence: a version load after it does not return a store older
\* than the odd mark of a write one of whose words was loaded.
AcquireFence(r, n) == \A i \in Words : n >= 2 * got[r][i] - 1

\* Mutant of LoadV2: the two version loads are not compared.
LoadV2Unchecked(r) ==
    \E n \in seen[r] .. Version :
        /\ pc[r] = "v2"
        /\ AcquireFence(r, n)
        /\ seen' = [seen EXCEPT ![r] = n]
        /\ pc' = [pc EXCEPT ![r] = "v1"]
        /\ snap' = [snap EXCEPT ![r] = [i \in Words |-> WordOf(got[r][i], i)]]
        /\ last' = [last EXCEPT ![r] = v1[r] + 1]
        /\ UNCHANGED <<v1, left, got, writerVars>>

\* read: the second version load, and the snapshot is taken or retried.
\* The values of the words are the ones the loads returned.
LoadV2(r) ==
    \E n \in seen[r] .. Version :
        /\ pc[r] = "v2"
        /\ AcquireFence(r, n)
        /\ seen' = [seen EXCEPT ![r] = n]
        /\ pc' = [pc EXCEPT ![r] = "v1"]
        /\ IF n % VersionModulus = (2 * v1[r]) % VersionModulus
           THEN /\ snap' = [snap EXCEPT ![r] = [i \in Words |-> WordOf(got[r][i], i)]]
                /\ last' = [last EXCEPT ![r] = v1[r] + 1]
           ELSE UNCHANGED <<snap, last>>
        /\ UNCHANGED <<v1, left, got, writerVars>>

Next ==
    \/ \E q \in Quotes : BeginWrite(q)
    \/ \E i \in Words : StoreWord(i)
    \/ EndWrite
    \/ \E r \in Readers : LoadV1(r) \/ LoadV2(r) \/ \E i \in Words : LoadWord(r, i)

Spec == Init /\ [][Next]_vars

-----------------------------------------------------------------------------
(***************************************************************************)
(* Properties.                                                             *)
(***************************************************************************)
\* An accepted snapshot is the full payload of one write, never a mix of the
\* words of two (SeqQuote::read returns q only when v1 == v2).
SnapshotIsOneWrite ==
    \A r \in Readers : last[r] \in 1 .. Len(log) /\ snap[r] = log[last[r]]

Register == INSTANCE QuoteRegister WITH log <- log, last <- last, snap <- snap

\* The slot is an atomic register: each accepted read is one Read step of
\* QuoteRegister, each write one Write step, so a reader is never given an
\* older quote after a newer one.
RegisterSpec == Register!Spec

=============================================================================
