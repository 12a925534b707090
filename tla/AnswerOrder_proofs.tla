------------------------ MODULE AnswerOrder_proofs --------------------------
(***************************************************************************)
(* Theorems about AnswerOrder, for every set of kinds, of threads and      *)
(* every bound: the order in which one dispatching thread gives the        *)
(* answers, the state it has given before an answer, and that an answer is *)
(* neither dropped nor given twice, however many threads dispatch.         *)
(***************************************************************************)
EXTENDS AnswerOrder, SequenceTheorems, FiniteSetTheorems, WellFoundedInduction, TLAPS

\* The counts taken so far.
Past == 1 .. clock - 1

(***************************************************************************)
(* The typed invariant: no count is anywhere before the clock gave it out, *)
(* nothing shown or needed is ahead of the state.                          *)
(***************************************************************************)
WriteTypes ==
    /\ clock \in 1 .. MaxCount
    /\ queue \in [Kinds -> Seq(Past)]
    /\ hold \in [Writers -> {<<>>} \cup (Kinds \X Past)]
    /\ local \in Seq(Past)
    /\ stamp \in [Laters -> {0} \cup Past]
    /\ mark \in 0 .. clock
    /\ noting \in {"no", "load", "count", "mark"}
    /\ noteAt \in 0 .. clock - 1
    /\ state \in 0 .. MaxChanges
    /\ need \in [1 .. MaxCount -> -2 .. MaxCount]
    /\ \A c \in 1 .. MaxCount : need[c] <= state
    /\ \A c \in 1 .. MaxCount : clock <= c => need[c] = -2

PassTypes ==
    /\ inbox \in [Kinds -> Seq(Past)]
    /\ takenAt = 0
    /\ ppc \in [Passers -> {"idle", "inbox", "clock", "take", "give", "read", "merge",
                            "last", "lastRead", "end", "close"}]
    /\ mine \in [Passers -> [Kinds -> Seq(Past)]]
    /\ mineAt \in [Passers -> 0 .. clock]
    /\ mineLocal \in [Passers -> Seq(Past)]
    /\ written \in [Passers -> 0 .. clock]
    /\ todo \in [Passers -> SUBSET Kinds]
    /\ shown \in 0 .. state
    /\ given \in Seq([at : Past, shown : 0 .. state])

EndTypes ==
    /\ lost \in BOOLEAN
    /\ connected \in BOOLEAN
    /\ closed \in 0 .. 1

TypeInv == program \in Programs /\ WriteTypes /\ PassTypes /\ EndTypes

(***************************************************************************)
(* The state, while p alone dispatches: what is not shown yet is marked,   *)
(* being marked or being read, and an answer that needs it is behind the   *)
(* mark.                                                                   *)
(***************************************************************************)
Reading(p) == ppc[p] \in {"read", "lastRead"}

Marked(p) ==
    /\ shown < state => noting # "no" \/ mark # 0 \/ Reading(p)
    /\ \A c \in 1 .. MaxCount :
           shown < need[c] => Reading(p) \/ (mark # 0 /\ mark - 1 < c)

Shown == \A i \in DOMAIN given : need[given[i].at] <= given[i].shown

StateInv == \A p \in Passers : program.passers = {p} => Marked(p) /\ Shown

(***************************************************************************)
(* The order, while p alone dispatches and no other thread answers itself. *)
(***************************************************************************)
Sorted(s) == \A i, j \in DOMAIN s : i < j => s[i] < s[j]
Before(S, T) == \A a \in S : \A b \in T : a < b
From(n, S) == \A a \in S : n <= a

\* The counts in the hands of the writers of a kind.
Held(k) == {hold[w][2] : w \in {v \in Writers : hold[v] # <<>> /\ hold[v][1] = k}}

\* The pass has drained the queue of the kind.
Taken(p, k) ==
    \/ ppc[p] = "take" /\ k \notin todo[p]
    \/ ppc[p] \in {"give", "read"}

\* The answers of a kind on their way to the client: in the inbox or the hands
\* of the pass, in the queue, in the hands of a writer, in this order.
KindInv(p, k) ==
    /\ Sorted(inbox[k]) /\ Sorted(mine[p][k]) /\ Sorted(queue[k])
    /\ Before(Range(inbox[k]), Range(queue[k]))
    /\ Before(Range(mine[p][k]), Range(queue[k]))
    /\ Before(Range(inbox[k]), Held(k)) /\ Before(Range(mine[p][k]), Held(k))
    /\ Before(Range(queue[k]), Held(k))
    /\ ppc[p] \in {"clock", "take", "give", "read"} => inbox[k] = <<>>
    /\ Taken(p, k) => From(written[p], Range(queue[k]) \cup Held(k))

OneWriter ==
    \A v, w \in Writers :
        hold[v] # <<>> /\ hold[w] # <<>> /\ hold[v][1] = hold[w][1] => v = w

\* The client's own answers.
OwnInv(p) ==
    /\ Sorted(local) /\ Sorted(mineLocal[p])
    /\ Before(Range(mineLocal[p]), Range(local))
    /\ ppc[p] \in {"inbox", "clock", "take"} => local = <<>>
    /\ ppc[p] \in {"give", "read"} => From(written[p], Range(local))
    /\ ppc[p] = "clock" => mineAt[p] = 0

\* All that is on its way of a kind, and of the client's own answers.
Box(p, k) == Range(inbox[k]) \cup Range(mine[p][k]) \cup Range(queue[k]) \cup Held(k)
Own(p) == Range(local) \cup Range(mineLocal[p])

Increasing == \A i, j \in DOMAIN given : i < j => given[i].at < given[j].at

GivenInv(p) ==
    /\ Increasing
    /\ \A k \in Kinds : Before(GivenCounts, Box(p, k))
    /\ Before(GivenCounts, Own(p))

Ordered(p) ==
    /\ \A t \in Laters : stamp[t] = 0
    /\ OneWriter
    /\ \A k \in Kinds : KindInv(p, k)
    /\ OwnInv(p)
    /\ GivenInv(p)

OrderInv ==
    \A p \in Passers : program.passers = {p} /\ program.laters = {} => Ordered(p)

(***************************************************************************)
(* Where an answer is, however many threads dispatch.                      *)
(***************************************************************************)
Somewhere(c) ==
    \/ \E w \in Writers : hold[w] # <<>> /\ hold[w][2] = c
    \/ \E t \in Laters : stamp[t] = c
    \/ c \in Range(local)
    \/ \E k \in Kinds : c \in Range(queue[k]) \/ c \in Range(inbox[k])
    \/ \E p \in Passers : c \in Range(mineLocal[p])
    \/ \E p \in Passers : \E k \in Kinds : c \in Range(mine[p][k])
    \/ c \in GivenCounts

\* No answer is dropped: each one that took a count is in the hands of its
\* writer, in a queue, in the inbox, in the hands of a pass or given, also
\* while several threads pass and put their answers back.
Kept == \A c \in Answers : Somewhere(c)

\* Outside a pass a thread has nothing in hand.
HandsFree ==
    \A p \in Passers :
        /\ ppc[p] \in {"idle", "last", "lastRead", "end", "close"} => mineLocal[p] = <<>>
        /\ ppc[p] \notin {"clock", "take", "give", "read"} => mine[p] = NoAnswers

-----------------------------------------------------------------------------
(***************************************************************************)
(* The smallest of a set of counts, and the run at the front of a          *)
(* sequence.                                                               *)
(***************************************************************************)
LEMMA MinIn ==
    ASSUME NEW S, S \subseteq Nat, S # {}
    PROVE  Min(S) \in S /\ \A y \in S : Min(S) <= y
<1>1. PICK x \in S : \A y \in S : ~(<<y, x>> \in OpToRel(<, Nat))
  BY NatLessThanWellFounded, WFMin
<1>2. \A y \in S : x <= y
  <2>1. SUFFICES ASSUME NEW y \in S PROVE x <= y
    OBVIOUS
  <2>2. ~(y < x)
    BY <1>1 DEF OpToRel
  <2> QED BY <2>2
<1> QED BY <1>2 DEF Min

LEMMA SeqWiden ==
    ASSUME NEW S, NEW T, S \subseteq T
    PROVE  Seq(S) \subseteq Seq(T)
BY SeqMonotonic

LEMMA GivenWiden ==
    ASSUME NEW A, NEW B, A \subseteq B, NEW C, NEW D, C \subseteq D
    PROVE  Seq([at : A, shown : C]) \subseteq Seq([at : B, shown : D])
<1>1. [at : A, shown : C] \subseteq [at : B, shown : D]
  OBVIOUS
<1> DEFINE S == [at : A, shown : C]
           T == [at : B, shown : D]
<1>2. S \subseteq T
  BY <1>1
<1> HIDE DEF S, T
<1>3. Seq(S) \subseteq Seq(T)
  BY <1>2, SeqWiden
<1> QED BY <1>3 DEF S, T

\* The answers at the front before `until' are before it.
LEMMA RunBefore ==
    ASSUME NEW s \in Seq(Nat), NEW until \in Nat
    PROVE  /\ RunLength(s, until) \in 0 .. Len(s)
           /\ \A i \in 1 .. RunLength(s, until) : s[i] < until
<1> DEFINE I == {i \in 1 .. Len(s) : s[i] >= until}
<1>1. RunOf(s, until) = IF I # {} THEN Min(I) ELSE 0
  BY DEF RunOf, SelectInSeq
<1>2. Len(s) \in Nat /\ \A i \in 1 .. Len(s) : s[i] \in Nat
  BY LenProperties, ElementOfSeq
<1>3. CASE I = {}
  <2>1. RunLength(s, until) = Len(s)
    BY <1>1, <1>3 DEF RunLength
  <2>2. \A i \in 1 .. Len(s) : s[i] < until
    BY <1>2, <1>3
  <2> QED BY <1>2, <2>1, <2>2
<1>4. CASE I # {}
  <2>1. Min(I) \in I /\ \A y \in I : Min(I) <= y
    <3>1. I \subseteq Nat
      BY <1>2
    <3> HIDE DEF I
    <3> QED BY <1>4, <3>1, MinIn
  <2>2. RunLength(s, until) = Min(I) - 1
    BY <1>1, <1>4, <2>1, <1>2 DEF RunLength
  <2> HIDE DEF I
  <2>3. Min(I) \in 1 .. Len(s)
    BY <2>1 DEF I
  <2>4. ASSUME NEW i \in 1 .. Min(I) - 1 PROVE s[i] < until
    <3>1. i \in 1 .. Len(s) /\ i < Min(I) /\ i \notin I
      BY <2>1, <2>3, <1>2
    <3> QED BY <3>1, <1>2 DEF I
  <2> QED BY <2>2, <2>3, <2>4, <1>2
<1> QED BY <1>3, <1>4

-----------------------------------------------------------------------------
(***************************************************************************)
(* Types.                                                                  *)
(***************************************************************************)
LEMMA TypeInvImplies == TypeInv => TypeOK
<1> SUFFICES ASSUME TypeInv PROVE TypeOK
  OBVIOUS
<1> USE AnswerOrderAssumption DEF TypeInv
<1>1. clock \in 1 .. MaxCount /\ state \in 0 .. MaxChanges /\ MaxChanges \in 0 .. MaxCount
  BY DEF WriteTypes
<1>2. Past \subseteq 1 .. MaxCount
  BY <1>1 DEF Past
<1>3. Seq(Past) \subseteq Seq(1 .. MaxCount)
  BY <1>2, SeqWiden
<1>4. 0 .. state \subseteq 0 .. MaxCount
  BY <1>1
<1>5. Seq([at : Past, shown : 0 .. state]) \subseteq Seq([at : 1 .. MaxCount, shown : 0 .. MaxCount])
  BY ONLY <1>2, <1>4, GivenWiden
<1>6. /\ queue \in [Kinds -> Seq(1 .. MaxCount)]
      /\ hold \in [Writers -> {<<>>} \cup (Kinds \X (1 .. MaxCount))]
      /\ local \in Seq(1 .. MaxCount)
      /\ stamp \in [Laters -> 0 .. MaxCount]
      /\ mark \in 0 .. MaxCount + 1
      /\ noteAt \in 0 .. MaxCount
  <2>1. queue \in [Kinds -> Seq(1 .. MaxCount)] /\ local \in Seq(1 .. MaxCount)
    BY <1>3 DEF WriteTypes
  <2>2. hold \in [Writers -> {<<>>} \cup (Kinds \X (1 .. MaxCount))]
    BY <1>2 DEF WriteTypes
  <2>3. stamp \in [Laters -> 0 .. MaxCount]
    <3>1. {0} \cup Past \subseteq 0 .. MaxCount
      BY <1>2, <1>1
    <3> QED BY <3>1 DEF WriteTypes
  <2>4. mark \in 0 .. MaxCount + 1 /\ noteAt \in 0 .. MaxCount
    BY <1>1 DEF WriteTypes
  <2> QED BY <2>1, <2>2, <2>3, <2>4
<1>7. /\ inbox \in [Kinds -> Seq(1 .. MaxCount)]
      /\ takenAt \in 0 .. MaxCount
      /\ mine \in [Passers -> [Kinds -> Seq(1 .. MaxCount)]]
      /\ mineAt \in [Passers -> 0 .. MaxCount]
      /\ mineLocal \in [Passers -> Seq(1 .. MaxCount)]
      /\ written \in [Passers -> 0 .. MaxCount]
      /\ shown \in 0 .. MaxCount
      /\ given \in Seq([at : 1 .. MaxCount, shown : 0 .. MaxCount])
  <2>1. inbox \in [Kinds -> Seq(1 .. MaxCount)] /\ mineLocal \in [Passers -> Seq(1 .. MaxCount)]
    BY <1>3 DEF PassTypes
  <2>2. mine \in [Passers -> [Kinds -> Seq(1 .. MaxCount)]]
    <3>1. [Kinds -> Seq(Past)] \subseteq [Kinds -> Seq(1 .. MaxCount)]
      BY <1>3
    <3> QED BY <3>1 DEF PassTypes
  <2>3. mineAt \in [Passers -> 0 .. MaxCount] /\ written \in [Passers -> 0 .. MaxCount]
    BY <1>1 DEF PassTypes
  <2>4. shown \in 0 .. MaxCount /\ takenAt \in 0 .. MaxCount
    BY <1>1 DEF PassTypes
  <2> QED BY <2>1, <2>2, <2>3, <2>4, <1>5 DEF PassTypes
<1> QED BY <1>1, <1>6, <1>7 DEF TypeOK, WriteTypes, PassTypes, EndTypes

LEMMA TypeInvInit == Init => TypeInv
<1> SUFFICES ASSUME Init PROVE TypeInv
  OBVIOUS
<1> USE AnswerOrderAssumption DEF Init
<1>1. WriteTypes
  <2>1. <<>> \in Seq(Past) /\ NoAnswers \in [Kinds -> Seq(Past)]
    BY EmptySeq DEF NoAnswers
  <2> QED BY <2>1 DEF WriteTypes
<1>2. PassTypes
  <2>1. <<>> \in Seq(Past) /\ NoAnswers \in [Kinds -> Seq(Past)]
    BY EmptySeq DEF NoAnswers
  <2>2. <<>> \in Seq([at : Past, shown : 0 .. state])
    BY EmptySeq
  <2>3. given \in Seq([at : Past, shown : 0 .. state])
    BY <2>2
  <2> HIDE DEF Init
  <2>4. /\ inbox = NoAnswers /\ takenAt = 0 /\ shown = 0 /\ state = 0 /\ clock = 1
        /\ ppc = [p \in Passers |-> "idle"] /\ mine = [p \in Passers |-> NoAnswers]
        /\ mineAt = [p \in Passers |-> 0] /\ mineLocal = [p \in Passers |-> <<>>]
        /\ written = [p \in Passers |-> 0] /\ todo = [p \in Passers |-> {}]
    BY DEF Init
  <2> QED BY <2>1, <2>3, <2>4 DEF PassTypes
<1>3. EndTypes
  <2>1. lost = FALSE /\ connected = TRUE /\ closed = 0 /\ MaxCount \in Nat
    OBVIOUS
  <2>2. lost \in BOOLEAN /\ connected \in BOOLEAN
    BY ONLY <2>1, Zenon
  <2>3. closed \in 0 .. 1
    BY ONLY <2>1, SMT
  <2> QED BY ONLY <2>2, <2>3, Zenon DEF EndTypes
<1>4. program \in Programs
  OBVIOUS
<1> QED BY ONLY <1>1, <1>2, <1>3, <1>4 DEF TypeInv

LEMMA PastWidens ==
    ASSUME NEW a \in Nat, NEW b \in Nat, a <= b
    PROVE  1 .. a - 1 \subseteq 1 .. b - 1
OBVIOUS

LEMMA Widens ==
    ASSUME TypeInv, clock' \in Nat, clock <= clock', state' \in Nat, state <= state'
    PROVE  /\ Past \subseteq Past' /\ Seq(Past) \subseteq Seq(Past')
           /\ Seq([at : Past, shown : 0 .. state]) \subseteq Seq([at : Past', shown : 0 .. state'])
           /\ 0 .. clock \subseteq 0 .. clock' /\ 0 .. state \subseteq 0 .. state'
           /\ clock \in Nat /\ state \in Nat
<1>1. clock \in Nat /\ state \in Nat
  BY AnswerOrderAssumption DEF TypeInv, WriteTypes
<1>2. Past \subseteq Past' /\ 0 .. clock \subseteq 0 .. clock' /\ 0 .. state \subseteq 0 .. state'
  <2>2. Past \subseteq Past'
    BY <1>1, PastWidens DEF Past
  <2>3. 0 .. clock \subseteq 0 .. clock'
    BY <1>1
  <2>4. 0 .. state \subseteq 0 .. state'
    BY <1>1
  <2> QED BY <2>2, <2>3, <2>4
<1>3. Seq(Past) \subseteq Seq(Past')
  BY ONLY <1>2, SeqWiden
<1>4. Seq([at : Past, shown : 0 .. state]) \subseteq Seq([at : Past', shown : 0 .. state'])
  BY ONLY <1>2, GivenWiden
<1> QED BY <1>1, <1>2, <1>3, <1>4

\* What a pass holds keeps its types while others write.
LEMMA PassKept ==
    ASSUME TypeInv, clock' \in Nat, clock <= clock', state' \in Nat, state <= state',
           UNCHANGED passVars
    PROVE  PassTypes'
<1>1. PassTypes
  BY DEF TypeInv
<1>2. /\ Seq(Past) \subseteq Seq(Past')
      /\ Seq([at : Past, shown : 0 .. state]) \subseteq Seq([at : Past', shown : 0 .. state'])
      /\ 0 .. clock \subseteq 0 .. clock' /\ 0 .. state \subseteq 0 .. state'
  BY Widens
<1>3. /\ inbox' = inbox /\ takenAt' = takenAt /\ ppc' = ppc /\ mine' = mine /\ mineAt' = mineAt
      /\ mineLocal' = mineLocal /\ written' = written /\ todo' = todo /\ shown' = shown
      /\ given' = given
  BY DEF passVars
<1>4. inbox' \in [Kinds -> Seq(Past')] /\ mineLocal' \in [Passers -> Seq(Past')]
  BY <1>1, <1>2, <1>3 DEF PassTypes
<1>5. mine' \in [Passers -> [Kinds -> Seq(Past')]]
  <2>1. [Kinds -> Seq(Past)] \subseteq [Kinds -> Seq(Past')]
    BY <1>2
  <2> QED BY <1>1, <1>3, <2>1 DEF PassTypes
<1>6. mineAt' \in [Passers -> 0 .. clock'] /\ written' \in [Passers -> 0 .. clock']
  BY <1>1, <1>2, <1>3 DEF PassTypes
<1>7. shown' \in 0 .. state' /\ given' \in Seq([at : Past', shown : 0 .. state'])
  BY ONLY <1>1, <1>2, <1>3 DEF PassTypes
<1> QED BY ONLY <1>1, <1>3, <1>4, <1>5, <1>6, <1>7 DEF PassTypes

LEMMA HeldWidens ==
    ASSUME NEW A, NEW B, A \subseteq B, NEW W
    PROVE  [W -> {<<>>} \cup (Kinds \X A)] \subseteq [W -> {<<>>} \cup (Kinds \X B)]
OBVIOUS

\* One count is taken: what was written before keeps its types.
LEMMA WriteWidens ==
    ASSUME TypeInv, clock' = clock + 1
    PROVE  /\ queue \in [Kinds -> Seq(Past')]
           /\ hold \in [Writers -> {<<>>} \cup (Kinds \X Past')]
           /\ local \in Seq(Past')
           /\ stamp \in [Laters -> {0} \cup Past']
           /\ mark \in 0 .. clock' /\ noteAt \in 0 .. clock' - 1
           /\ clock \in Past'
<1>1. WriteTypes /\ clock \in Nat /\ clock # 0
  BY AnswerOrderAssumption DEF TypeInv, WriteTypes
<1>2. Past \subseteq Past' /\ clock \in Past'
  BY <1>1 DEF Past
<1>3. Seq(Past) \subseteq Seq(Past')
  BY ONLY <1>2, SeqWiden
<1>4. queue \in [Kinds -> Seq(Past')] /\ local \in Seq(Past')
  BY ONLY <1>1, <1>3 DEF WriteTypes
<1>5. hold \in [Writers -> {<<>>} \cup (Kinds \X Past')]
  BY ONLY <1>1, <1>2, HeldWidens DEF WriteTypes
<1>6. stamp \in [Laters -> {0} \cup Past']
  <2>1. {0} \cup Past \subseteq {0} \cup Past'
    BY <1>2
  <2> QED BY ONLY <1>1, <2>1 DEF WriteTypes
<1>7. mark \in 0 .. clock' /\ noteAt \in 0 .. clock' - 1
  BY <1>1 DEF WriteTypes
<1> QED BY <1>2, <1>4, <1>5, <1>6, <1>7

\* The type of `need' when a count is taken.
NeedTypes ==
    /\ need \in [1 .. MaxCount -> -2 .. MaxCount]
    /\ \A c \in 1 .. MaxCount : need[c] <= state
    /\ \A c \in 1 .. MaxCount : clock <= c => need[c] = -2

LEMMA NeedStep ==
    ASSUME TypeInv, clock' = clock + 1, state' = state, clock < program.counts,
           \/ need' = need
           \/ \E n \in {-2, -1, state} : need' = [need EXCEPT ![clock] = n]
    PROVE  NeedTypes' /\ clock' \in 1 .. MaxCount
<1>1. NeedTypes /\ clock \in 1 .. MaxCount /\ state \in 0 .. MaxChanges
  BY DEF TypeInv, WriteTypes, NeedTypes
<1>2. program.counts \in 0 .. MaxCount
  <2>1. program \in [callers : SUBSET Callers, laters : SUBSET Laters,
                          passers : SUBSET Passers, counts : 0 .. MaxCount,
                          changes : 0 .. MaxChanges]
    BY AnswerOrderAssumption DEF TypeInv
  <2> QED BY <2>1
<1>3. MaxCount \in Nat /\ MaxChanges \in 0 .. MaxCount
  BY AnswerOrderAssumption
<1>4. clock' \in 1 .. MaxCount
  BY <1>1, <1>2, <1>3
<1>5. CASE need' = need
  BY ONLY <1>1, <1>3, <1>4, <1>5, clock' = clock + 1, state' = state DEF NeedTypes
<1>6. CASE \E n \in {-2, -1, state} : need' = [need EXCEPT ![clock] = n]
  <2>1. PICK n \in {-2, -1, state} : need' = [need EXCEPT ![clock] = n]
    BY <1>6
  <2>2. n \in -2 .. MaxCount /\ n <= state
    BY <1>1, <1>3
  <2>3. need' \in [1 .. MaxCount -> -2 .. MaxCount]
    BY ONLY <2>1, <2>2, <1>1 DEF NeedTypes
  <2>4. ASSUME NEW c \in 1 .. MaxCount
        PROVE  need'[c] <= state' /\ (clock' <= c => need'[c] = -2)
    <3>1. CASE c = clock
      BY ONLY <3>1, <2>1, <2>2, <1>1, clock' = clock + 1, state' = state DEF NeedTypes
    <3>2. CASE c # clock
      BY ONLY <3>2, <2>1, <1>1, clock' = clock + 1, state' = state, <1>3 DEF NeedTypes
    <3> QED BY <3>1, <3>2
  <2> QED BY <1>4, <2>3, <2>4 DEF NeedTypes
<1> QED BY <1>5, <1>6, <1>4

\* The types of what is written, in each step that writes.
LEMMA WriteTypesStep ==
    ASSUME TypeInv, WriteStep
    PROVE  TypeInv'
<1>1. WriteTypes /\ PassTypes /\ EndTypes /\ program \in Programs
  BY DEF TypeInv
<1>2. clock \in 1 .. MaxCount /\ state \in 0 .. MaxChanges /\ MaxCount \in Nat
      /\ MaxChanges \in 0 .. MaxCount
  BY <1>1, AnswerOrderAssumption DEF WriteTypes
<1>3. program' = program
  BY DEF WriteStep
<1>4. program.changes \in 0 .. MaxChanges /\ program.callers \subseteq Callers
      /\ program.laters \subseteq Laters /\ program.passers \subseteq Passers
  BY AnswerOrderAssumption, <1>1
<1>5. ASSUME NEW w \in Writers, NEW k \in Kinds, Count(w, k) PROVE TypeInv'
  <2>1. /\ clock' = clock + 1 /\ state' = state /\ UNCHANGED passVars /\ UNCHANGED endVars
        /\ clock < program.counts /\ queue' = queue /\ local' = local /\ stamp' = stamp
        /\ mark' = mark /\ noting' = noting /\ noteAt' = noteAt
        /\ hold' = [hold EXCEPT ![w] = <<k, clock>>]
        /\ need' = [need EXCEPT ![clock] = IF w = Engine THEN state ELSE -2]
    BY <1>5 DEF Count
  <2>2. NeedTypes' /\ clock' \in 1 .. MaxCount
    BY <2>1, NeedStep
  <2>3. /\ queue \in [Kinds -> Seq(Past')]
        /\ hold \in [Writers -> {<<>>} \cup (Kinds \X Past')]
        /\ local \in Seq(Past')
        /\ stamp \in [Laters -> {0} \cup Past']
        /\ mark \in 0 .. clock' /\ noteAt \in 0 .. clock' - 1
        /\ clock \in Past'
    BY <2>1, WriteWidens
  <2>4. hold' \in [Writers -> {<<>>} \cup (Kinds \X Past')]
    BY ONLY <2>1, <2>3, <1>5
  <2>5. WriteTypes'
    BY ONLY <1>1, <2>1, <2>2, <2>3, <2>4 DEF WriteTypes, NeedTypes
  <2>6. PassTypes'
    BY <2>1, <1>2, PassKept
  <2> QED BY <1>1, <1>3, <2>1, <2>5, <2>6 DEF TypeInv, EndTypes, endVars
<1>6. ASSUME NEW c \in Laters, LaterStamp(c) PROVE TypeInv'
  <2>1. /\ clock' = clock + 1 /\ state' = state /\ UNCHANGED passVars /\ UNCHANGED endVars
        /\ clock < program.counts /\ queue' = queue /\ local' = local /\ hold' = hold
        /\ mark' = mark /\ noting' = noting /\ noteAt' = noteAt /\ need' = need
        /\ stamp' = [stamp EXCEPT ![c] = clock]
    BY <1>6 DEF LaterStamp
  <2>2. NeedTypes' /\ clock' \in 1 .. MaxCount
    BY <2>1, NeedStep
  <2>3. /\ queue \in [Kinds -> Seq(Past')]
        /\ hold \in [Writers -> {<<>>} \cup (Kinds \X Past')]
        /\ local \in Seq(Past')
        /\ stamp \in [Laters -> {0} \cup Past']
        /\ mark \in 0 .. clock' /\ noteAt \in 0 .. clock' - 1
        /\ clock \in Past'
    BY <2>1, WriteWidens
  <2>4. stamp' \in [Laters -> {0} \cup Past']
    BY ONLY <2>1, <2>3
  <2>5. WriteTypes'
    BY ONLY <1>1, <2>1, <2>2, <2>3, <2>4 DEF WriteTypes, NeedTypes
  <2>6. PassTypes'
    BY <2>1, <1>2, PassKept
  <2> QED BY <1>1, <1>3, <2>1, <2>5, <2>6 DEF TypeInv, EndTypes, endVars
<1>7. ASSUME NEW p \in Passers, LaterHere(p) PROVE TypeInv'
  <2>1. /\ clock' = clock + 1 /\ state' = state /\ UNCHANGED passVars /\ UNCHANGED endVars
        /\ clock < program.counts /\ queue' = queue /\ stamp' = stamp /\ hold' = hold
        /\ mark' = mark /\ noting' = noting /\ noteAt' = noteAt /\ need' = need
        /\ local' = Append(local, clock)
    BY <1>7 DEF LaterHere
  <2>2. NeedTypes' /\ clock' \in 1 .. MaxCount
    BY <2>1, NeedStep
  <2>3. /\ queue \in [Kinds -> Seq(Past')]
        /\ hold \in [Writers -> {<<>>} \cup (Kinds \X Past')]
        /\ local \in Seq(Past')
        /\ stamp \in [Laters -> {0} \cup Past']
        /\ mark \in 0 .. clock' /\ noteAt \in 0 .. clock' - 1
        /\ clock \in Past'
    BY <2>1, WriteWidens
  <2>4. local' \in Seq(Past')
    BY ONLY <2>1, <2>3, AppendProperties
  <2>5. WriteTypes'
    BY ONLY <1>1, <2>1, <2>2, <2>3, <2>4 DEF WriteTypes, NeedTypes
  <2>6. PassTypes'
    BY <2>1, <1>2, PassKept
  <2> QED BY <1>1, <1>3, <2>1, <2>5, <2>6 DEF TypeInv, EndTypes, endVars
<1>8. CASE ChangeState
  <2>1. /\ clock' = clock /\ state' = state + 1 /\ UNCHANGED passVars /\ UNCHANGED endVars
        /\ state < program.changes /\ queue' = queue /\ stamp' = stamp /\ hold' = hold
        /\ mark' = mark /\ noting' = "load" /\ noteAt' = noteAt /\ need' = need
        /\ local' = local
    BY <1>8 DEF ChangeState
  <2>2. state' \in 0 .. MaxChanges
    BY <2>1, <1>2, <1>4
  <2>3. Past' = Past
    BY <2>1 DEF Past
  <2>4. \A c \in 1 .. MaxCount : need'[c] <= state'
    <3>1. \A c \in 1 .. MaxCount : need[c] <= state /\ need[c] \in Int
      BY <1>1, <1>2 DEF WriteTypes
    <3> QED BY ONLY <3>1, <2>1, <1>2
  <2>5. WriteTypes'
    BY ONLY <1>1, <2>1, <2>2, <2>3, <2>4 DEF WriteTypes
  <2>6. PassTypes'
    BY <2>1, <1>2, PassKept
  <2> QED BY <1>1, <1>3, <2>1, <2>5, <2>6 DEF TypeInv, EndTypes, endVars
<1>9. CASE SetConnectionLost
  <2>1. /\ UNCHANGED <<writeVars, passVars, connected, closed>> /\ lost' = TRUE
    BY <1>9 DEF SetConnectionLost
  <2>2. WriteTypes'
    BY ONLY <1>1, <2>1 DEF WriteTypes, writeVars, Past
  <2>3. PassTypes'
    BY <2>1, <1>2, PassKept DEF writeVars
  <2>4. EndTypes'
    <3>1. lost' \in BOOLEAN /\ connected' \in BOOLEAN
      BY ONLY <1>1, <2>1, Zenon DEF EndTypes
    <3>2. closed' \in 0 .. 1
      BY ONLY <1>1, <1>2, <2>1, SMT DEF EndTypes
    <3> QED BY ONLY <3>1, <3>2, Zenon DEF EndTypes
  <2> QED BY <1>1, <1>3, <2>2, <2>3, <2>4 DEF TypeInv
<1> QED BY <1>4, <1>5, <1>6, <1>7, <1>8, <1>9 DEF WriteStep, Writers

LEMMA NoteTypesStep ==
    ASSUME TypeInv, NoteStep
    PROVE  TypeInv'
<1>1. WriteTypes /\ PassTypes /\ EndTypes /\ program \in Programs
  BY DEF TypeInv
<1>2. clock \in 1 .. MaxCount /\ state \in 0 .. MaxChanges /\ MaxCount \in Nat
      /\ MaxChanges \in 0 .. MaxCount
  BY <1>1, AnswerOrderAssumption DEF WriteTypes
<1>3. program' = program
  BY DEF NoteStep
<1>4. CASE NoteLoad
  <2>1. /\ UNCHANGED <<clock, queue, hold, local, stamp, mark, noteAt, state, need, passVars, endVars>>
        /\ noting' \in {"count", "no"}
    BY <1>4 DEF NoteLoad
  <2>2. WriteTypes'
    BY ONLY <1>1, <2>1 DEF WriteTypes, Past
  <2>3. PassTypes'
    BY <2>1, <1>2, PassKept
  <2> QED BY <1>1, <1>3, <2>1, <2>2, <2>3 DEF TypeInv, EndTypes, endVars
<1>5. CASE NoteCount
  <2>1. /\ clock' = clock + 1 /\ state' = state /\ UNCHANGED passVars /\ UNCHANGED endVars
        /\ clock < program.counts /\ queue' = queue /\ stamp' = stamp /\ hold' = hold
        /\ mark' = mark /\ noting' = "mark" /\ noteAt' = clock
        /\ need' = [need EXCEPT ![clock] = -1] /\ local' = local
    BY <1>5 DEF NoteCount
  <2>2. NeedTypes' /\ clock' \in 1 .. MaxCount
    BY <2>1, NeedStep
  <2>3. /\ queue \in [Kinds -> Seq(Past')]
        /\ hold \in [Writers -> {<<>>} \cup (Kinds \X Past')]
        /\ local \in Seq(Past')
        /\ stamp \in [Laters -> {0} \cup Past']
        /\ mark \in 0 .. clock'
    BY <2>1, WriteWidens
  <2>4. noteAt' \in 0 .. clock' - 1
    BY ONLY <2>1, <1>2
  <2>5. WriteTypes'
    BY ONLY <1>1, <2>1, <2>2, <2>3, <2>4 DEF WriteTypes, NeedTypes
  <2>6. PassTypes'
    BY <2>1, <1>2, PassKept
  <2> QED BY <1>1, <1>3, <2>1, <2>5, <2>6 DEF TypeInv, EndTypes, endVars
<1>6. CASE NoteMark
  <2>1. /\ UNCHANGED <<clock, queue, hold, local, stamp, noteAt, state, need, passVars, endVars>>
        /\ noting' = "no" /\ mark' \in {noteAt + 1, mark}
    BY <1>6 DEF NoteMark
  <2>2. mark' \in 0 .. clock'
    BY ONLY <2>1, <1>1, <1>2 DEF WriteTypes
  <2>3. WriteTypes'
    BY ONLY <1>1, <2>1, <2>2 DEF WriteTypes, Past
  <2>4. PassTypes'
    BY <2>1, <1>2, PassKept
  <2> QED BY <1>1, <1>3, <2>1, <2>3, <2>4 DEF TypeInv, EndTypes, endVars
<1> QED BY <1>4, <1>5, <1>6 DEF NoteStep

LEMMA PushTypesStep ==
    ASSUME TypeInv, NEW w \in Writers, PushStep(w)
    PROVE  TypeInv'
<1>1. WriteTypes /\ PassTypes /\ EndTypes /\ program \in Programs
  BY DEF TypeInv
<1>2. clock \in 1 .. MaxCount /\ state \in 0 .. MaxChanges /\ MaxCount \in Nat
      /\ MaxChanges \in 0 .. MaxCount
  BY <1>1, AnswerOrderAssumption DEF WriteTypes
<1>3. /\ UNCHANGED <<clock, local, stamp, mark, noting, noteAt, state, need, passVars, endVars>>
      /\ program' = program
      /\ hold[w] # <<>>
      /\ queue' = [queue EXCEPT ![hold[w][1]] = Append(@, hold[w][2])]
      /\ hold' = [hold EXCEPT ![w] = <<>>]
  BY DEF PushStep, Push
<1>4. hold[w] \in Kinds \X Past
  BY <1>1, <1>3 DEF WriteTypes
<1>5. Append(queue[hold[w][1]], hold[w][2]) \in Seq(Past)
  BY <1>1, <1>4, AppendProperties DEF WriteTypes
<1>6. queue' \in [Kinds -> Seq(Past')]
  BY ONLY <1>1, <1>3, <1>4, <1>5 DEF WriteTypes, Past
<1>7. hold' \in [Writers -> {<<>>} \cup (Kinds \X Past')]
  BY ONLY <1>1, <1>3 DEF WriteTypes, Past
<1>8. WriteTypes'
  BY ONLY <1>1, <1>3, <1>6, <1>7 DEF WriteTypes, Past
<1>9. PassTypes'
  BY <1>3, <1>2, PassKept
<1> QED BY <1>1, <1>3, <1>8, <1>9 DEF TypeInv, EndTypes, endVars

LEMMA LaterTypesStep ==
    ASSUME TypeInv, NEW c \in Laters, LaterStep(c)
    PROVE  TypeInv'
<1>1. WriteTypes /\ PassTypes /\ EndTypes /\ program \in Programs
  BY DEF TypeInv
<1>2. clock \in 1 .. MaxCount /\ state \in 0 .. MaxChanges /\ MaxCount \in Nat
      /\ MaxChanges \in 0 .. MaxCount
  BY <1>1, AnswerOrderAssumption DEF WriteTypes
<1>3. /\ UNCHANGED <<clock, queue, hold, mark, noting, noteAt, state, need, passVars, endVars>>
      /\ program' = program
      /\ stamp[c] # 0
      /\ local' = Append(local, stamp[c])
      /\ stamp' = [stamp EXCEPT ![c] = 0]
  BY DEF LaterStep, LaterPush
<1>4. stamp[c] \in Past
  BY <1>1, <1>3 DEF WriteTypes
<1>5. local' \in Seq(Past)
  BY <1>1, <1>3, <1>4, AppendProperties DEF WriteTypes
<1>6. stamp' \in [Laters -> {0} \cup Past']
  BY ONLY <1>1, <1>3 DEF WriteTypes, Past
<1>7. WriteTypes'
  BY ONLY <1>1, <1>3, <1>5, <1>6 DEF WriteTypes, Past
<1>8. PassTypes'
  BY <1>3, <1>2, PassKept
<1> QED BY <1>1, <1>3, <1>7, <1>8 DEF TypeInv, EndTypes, endVars

-----------------------------------------------------------------------------
(***************************************************************************)
(* What a pass compares and gives.                                         *)
(***************************************************************************)
LEMMA FirstProps ==
    ASSUME NEW s \in Seq(1 .. MaxCount)
    PROVE  /\ First(s) \in Nat
           /\ s # <<>> => First(s) = s[1] /\ 1 \in DOMAIN s
<1>1. MaxCount \in Nat
  BY AnswerOrderAssumption
<1>2. CASE s = <<>>
  BY <1>1, <1>2 DEF First, None
<1>3. CASE s # <<>>
  <2>1. Len(s) \in Nat \ {0} /\ DOMAIN s = 1 .. Len(s)
    BY <1>3, EmptySeq, LenProperties
  <2>2. Head(s) = s[1]
    BY <1>3, SMT
  <2>3. 1 \in DOMAIN s
    BY <2>1
  <2>4. s[1] \in 1 .. MaxCount
    BY <2>1, <2>3, LenProperties
  <2>5. s[1] \in Nat
    BY <1>1, <2>4
  <2> QED BY ONLY <2>2, <2>3, <2>5, <1>3 DEF First
<1> QED BY <1>2, <1>3

LEMMA FirstOfProps ==
    ASSUME TypeOK, NEW p \in Passers, NEW K, K \subseteq Kinds
    PROVE  FirstOf(p, K) \in Nat /\ \A k \in K : FirstOf(p, K) <= First(mine[p][k])
<1> DEFINE S == {None} \cup {First(mine[p][k]) : k \in K}
<1>1. None \in Nat
  BY AnswerOrderAssumption DEF None
<1>2. \A k \in K : First(mine[p][k]) \in Nat
  BY FirstProps DEF TypeOK
<1>3. S \subseteq Nat /\ S # {}
  BY <1>1, <1>2
<1>4. Min(S) \in S /\ \A y \in S : Min(S) <= y
  <2> HIDE DEF S
  <2> QED BY <1>3, MinIn
<1>5. FirstOf(p, K) = Min(S)
  BY DEF FirstOf
<1> QED BY <1>3, <1>4, <1>5

LEMMA StateFirstProps == TypeOK => StateFirst \in Nat
BY AnswerOrderAssumption DEF TypeOK, StateFirst, None

LEMMA MinBelow ==
    ASSUME NEW S, S \subseteq Nat, NEW x \in S
    PROVE  Min(S) \in Nat /\ Min(S) <= x
BY MinIn

LEMMA NextProps ==
    ASSUME TypeOK, NEW p \in Passers
    PROVE  /\ NextCount(p) \in Nat
           /\ NextCount(p) <= FirstOf(p, Kinds) /\ NextCount(p) <= First(mineLocal[p])
<1> DEFINE S == {FirstOf(p, Kinds), First(mineLocal[p])}
<1>1. FirstOf(p, Kinds) \in Nat /\ First(mineLocal[p]) \in Nat
  BY FirstOfProps, FirstProps DEF TypeOK
<1>2. S \subseteq Nat /\ FirstOf(p, Kinds) \in S /\ First(mineLocal[p]) \in S
  BY <1>1
<1>3. Min(S) \in Nat /\ Min(S) <= FirstOf(p, Kinds) /\ Min(S) <= First(mineLocal[p])
  <2> HIDE DEF S
  <2> QED BY <1>2, MinBelow
<1> QED BY <1>3 DEF NextCount

LEMMA FunctionIsSeq ==
    ASSUME NEW S, NEW n \in Nat, NEW f \in [1 .. n -> S]
    PROVE  f \in Seq(S) /\ Len(f) = n
<1>1. f \in Seq(S)
  BY SeqDef, Zenon
<1>2. Len(f) \in Nat /\ DOMAIN f = 1 .. Len(f)
  BY <1>1, LenProperties
<1>3. DOMAIN f = 1 .. n
  OBVIOUS
<1> QED BY <1>1, <1>2, <1>3

\* A run is given: the first n of s, with the state shown, and the rest stays.
LEMMA Gave ==
    ASSUME NEW P, NEW Q, given \in Seq([at : P, shown : Q]), shown \in Q,
           NEW s \in Seq(P), NEW n \in 0 .. Len(s),
           given' = Gives(SubSeq(s, 1, n))
    PROVE  /\ given' \in Seq([at : P, shown : Q])
           /\ Len(given) \in Nat /\ Len(given') = Len(given) + n
           /\ \A i \in 1 .. Len(given) : given'[i] = given[i]
           /\ \A i \in 1 .. n : given'[Len(given) + i] = [at |-> s[i], shown |-> shown]
<1> DEFINE u == SubSeq(s, 1, n)
           r == [i \in 1 .. Len(u) |-> [at |-> u[i], shown |-> shown]]
<1>1. Len(s) \in Nat /\ Len(given) \in Nat
  BY LenProperties
<1>2. u \in Seq(P) /\ Len(u) = n /\ \A i \in 1 .. n : u[i] = s[i]
  <2>1. \A i \in 1 .. n : s[i] \in P
    BY <1>1, ElementOfSeq
  <2>2. CASE n = 0
    BY <2>2, <1>1, SubSeqProperties, EmptySeq
  <2>3. CASE n # 0
    BY <2>3, <1>1, SubSeqProperties
  <2> QED BY <2>2, <2>3
<1>3. \A i \in 1 .. n : u[i] \in P
  BY <1>2, <1>1, ElementOfSeq
<1>4. r \in Seq([at : P, shown : Q]) /\ Len(r) = n /\ DOMAIN r = 1 .. n
  <2>1. r \in [1 .. n -> [at : P, shown : Q]]
    BY <1>2, <1>3
  <2> DEFINE R == [at : P, shown : Q]
  <2>2. r \in [1 .. n -> R] /\ n \in Nat
    BY <2>1, <1>1
  <2> HIDE DEF r, R
  <2>3. r \in Seq(R) /\ Len(r) = n /\ DOMAIN r = 1 .. n
    BY <2>2, FunctionIsSeq
  <2> QED BY <2>3 DEF R
<1>5. given' = given \o r
  BY DEF Gives
<1>6. \A i \in 1 .. n : r[i] = [at |-> s[i], shown |-> shown]
  BY <1>2
<1> HIDE DEF r, u
<1>7. given' \in Seq([at : P, shown : Q]) /\ Len(given') = Len(given) + n
  <2> DEFINE R == [at : P, shown : Q]
  <2>1. given \in Seq(R) /\ r \in Seq(R)
    BY <1>4
  <2> HIDE DEF R
  <2>2. given \o r \in Seq(R) /\ Len(given \o r) = Len(given) + Len(r)
    BY <2>1, ConcatProperties
  <2> QED BY <2>2, <1>4, <1>5 DEF R
<1>8. \A i \in 1 .. Len(given) : given'[i] = given[i]
  BY <1>1, <1>4, <1>5, ConcatProperties
<1>9. \A i \in 1 .. n : given'[Len(given) + i] = r[i]
  BY <1>1, <1>4, <1>5, ConcatProperties
<1> QED BY <1>1, <1>6, <1>7, <1>8, <1>9

LEMMA LeftOver ==
    ASSUME NEW P, NEW s \in Seq(P), NEW n \in 0 .. Len(s)
    PROVE  /\ SubSeq(s, n + 1, Len(s)) \in Seq(P)
           /\ Len(s) \in Nat /\ Len(SubSeq(s, n + 1, Len(s))) = Len(s) - n
           /\ \A i \in 1 .. Len(s) - n : SubSeq(s, n + 1, Len(s))[i] = s[n + i]
<1>1. Len(s) \in Nat
  BY LenProperties
<1>2. CASE n = Len(s)
  BY <1>1, <1>2, SubSeqProperties, EmptySeq
<1>3. CASE n # Len(s)
  BY <1>1, <1>3, SubSeqProperties
<1> QED BY <1>1, <1>2, <1>3

\* Where a run of a kind, and of the client's own answers, ends.
QueueUntil(p, k) ==
    Min({FirstOf(p, Kinds \ {k}), First(mineLocal[p]), StateFirst, written[p]})
OwnUntil(p) == Min({FirstOf(p, Kinds), StateFirst, written[p]})

LEMMA QueueUntilProps ==
    ASSUME TypeOK, NEW p \in Passers, NEW k \in Kinds
    PROVE  /\ QueueUntil(p, k) \in Nat
           /\ QueueUntil(p, k) <= FirstOf(p, Kinds \ {k})
           /\ QueueUntil(p, k) <= First(mineLocal[p])
           /\ QueueUntil(p, k) <= StateFirst /\ QueueUntil(p, k) <= written[p]
<1> DEFINE S == {FirstOf(p, Kinds \ {k}), First(mineLocal[p]), StateFirst, written[p]}
<1>1. FirstOf(p, Kinds \ {k}) \in Nat
  BY FirstOfProps
<1>2. First(mineLocal[p]) \in Nat
  BY FirstProps DEF TypeOK
<1>3. written[p] \in Nat /\ StateFirst \in Nat
  <2>1. written[p] \in 0 .. MaxCount
    BY DEF TypeOK
  <2> QED BY <2>1, StateFirstProps
<1>4. /\ S \subseteq Nat /\ FirstOf(p, Kinds \ {k}) \in S /\ First(mineLocal[p]) \in S
      /\ StateFirst \in S /\ written[p] \in S
  BY <1>1, <1>2, <1>3
<1>5. QueueUntil(p, k) = Min(S)
  BY DEF QueueUntil
<1> HIDE DEF S
<1> QED BY <1>4, <1>5, MinBelow

LEMMA OwnUntilProps ==
    ASSUME TypeOK, NEW p \in Passers
    PROVE  /\ OwnUntil(p) \in Nat /\ OwnUntil(p) <= FirstOf(p, Kinds)
           /\ OwnUntil(p) <= StateFirst /\ OwnUntil(p) <= written[p]
<1> DEFINE S == {FirstOf(p, Kinds), StateFirst, written[p]}
<1>1. FirstOf(p, Kinds) \in Nat
  BY FirstOfProps
<1>2. written[p] \in Nat /\ StateFirst \in Nat
  <2>1. written[p] \in 0 .. MaxCount
    BY DEF TypeOK
  <2> QED BY <2>1, StateFirstProps
<1>3. S \subseteq Nat /\ FirstOf(p, Kinds) \in S /\ StateFirst \in S /\ written[p] \in S
  BY <1>1, <1>2
<1>4. OwnUntil(p) = Min(S)
  BY DEF OwnUntil
<1> HIDE DEF S
<1> QED BY <1>3, <1>4, MinBelow

\* What GiveQueue and GiveLocal do, with the run they give.
QueueRun(p, k, n) ==
    /\ n \in 0 .. Len(mine[p][k])
    /\ \A i \in 1 .. n : mine[p][k][i] < QueueUntil(p, k)
    /\ given' = Gives(SubSeq(mine[p][k], 1, n))
    /\ mine' = [mine EXCEPT ![p][k] = SubSeq(@, n + 1, Len(@))]

OwnRun(p, n) ==
    /\ n \in 0 .. Len(mineLocal[p])
    /\ \A i \in 1 .. n : mineLocal[p][i] < OwnUntil(p)
    /\ given' = Gives(SubSeq(mineLocal[p], 1, n))
    /\ mineLocal' = [mineLocal EXCEPT ![p] = SubSeq(@, n + 1, Len(@))]

LEMMA CountsAreNats == Seq(1 .. MaxCount) \subseteq Seq(Nat)
<1>1. 1 .. MaxCount \subseteq Nat
  OBVIOUS
<1> QED BY ONLY <1>1, SeqWiden

LEMMA QueueRuns ==
    ASSUME TypeOK, NEW p \in Passers, NEW k \in Kinds, GiveQueue(p, k)
    PROVE  \E n \in Nat : QueueRun(p, k, n)
<1> DEFINE n == RunLength(mine[p][k], QueueUntil(p, k))
<1>1. mine[p][k] \in Seq(Nat)
  BY CountsAreNats DEF TypeOK
<1>2. QueueUntil(p, k) \in Nat
  BY QueueUntilProps
<1>3. n \in 0 .. Len(mine[p][k]) /\ \A i \in 1 .. n : mine[p][k][i] < QueueUntil(p, k)
  BY <1>1, <1>2, RunBefore
<1>4. /\ given' = Gives(SubSeq(mine[p][k], 1, n))
      /\ mine' = [mine EXCEPT ![p][k] = SubSeq(@, n + 1, Len(@))]
  BY DEF GiveQueue, QueueUntil
<1>5. n \in Nat
  BY <1>3
<1> HIDE DEF n
<1> QED BY <1>3, <1>4, <1>5 DEF QueueRun

LEMMA OwnRuns ==
    ASSUME TypeOK, NEW p \in Passers, GiveLocal(p)
    PROVE  \E n \in Nat : OwnRun(p, n)
<1> DEFINE n == RunLength(mineLocal[p], OwnUntil(p))
<1>1. mineLocal[p] \in Seq(Nat)
  BY CountsAreNats DEF TypeOK
<1>2. OwnUntil(p) \in Nat
  BY OwnUntilProps
<1>3. n \in 0 .. Len(mineLocal[p]) /\ \A i \in 1 .. n : mineLocal[p][i] < OwnUntil(p)
  BY <1>1, <1>2, RunBefore
<1>4. /\ given' = Gives(SubSeq(mineLocal[p], 1, n))
      /\ mineLocal' = [mineLocal EXCEPT ![p] = SubSeq(@, n + 1, Len(@))]
  BY DEF GiveLocal, OwnUntil
<1>5. n \in Nat
  BY <1>3
<1> HIDE DEF n
<1> QED BY <1>3, <1>4, <1>5 DEF OwnRun

-----------------------------------------------------------------------------
(***************************************************************************)
(* The counts of a sequence.                                               *)
(***************************************************************************)
LEMMA RangeConcat ==
    ASSUME NEW S, NEW s \in Seq(S), NEW t \in Seq(S)
    PROVE  Range(s \o t) = Range(s) \cup Range(t) /\ s \o t \in Seq(S)
<1>1. /\ Len(s) \in Nat /\ Len(t) \in Nat /\ DOMAIN s = 1 .. Len(s) /\ DOMAIN t = 1 .. Len(t)
      /\ DOMAIN (s \o t) = 1 .. Len(s) + Len(t) /\ s \o t \in Seq(S)
  BY LenProperties, ConcatProperties
<1>2. \A i \in 1 .. Len(s) + Len(t) : (s \o t)[i] = IF i <= Len(s) THEN s[i] ELSE t[i - Len(s)]
  BY ConcatProperties
<1>3. ASSUME NEW i \in DOMAIN (s \o t) PROVE (s \o t)[i] \in Range(s) \cup Range(t)
  <2>1. CASE i <= Len(s)
    BY <1>1, <1>2, <2>1 DEF Range
  <2>2. CASE ~(i <= Len(s))
    <3>1. i - Len(s) \in DOMAIN t /\ (s \o t)[i] = t[i - Len(s)]
      BY <1>1, <1>2, <2>2
    <3> QED BY <3>1 DEF Range
  <2> QED BY <2>1, <2>2
<1>4. ASSUME NEW i \in DOMAIN s PROVE s[i] \in Range(s \o t)
  <2>1. i \in DOMAIN (s \o t) /\ (s \o t)[i] = s[i]
    BY <1>1, <1>2
  <2> QED BY <2>1 DEF Range
<1>5. ASSUME NEW i \in DOMAIN t PROVE t[i] \in Range(s \o t)
  <2>1. i + Len(s) \in DOMAIN (s \o t) /\ (s \o t)[i + Len(s)] = t[i]
    BY <1>1, <1>2
  <2> QED BY <2>1 DEF Range
<1>6. Range(s \o t) \subseteq Range(s) \cup Range(t)
  BY <1>3 DEF Range
<1>7. Range(s) \subseteq Range(s \o t) /\ Range(t) \subseteq Range(s \o t)
  BY <1>4, <1>5 DEF Range
<1> QED BY <1>1, <1>6, <1>7

LEMMA RangeAppend ==
    ASSUME NEW S, NEW s \in Seq(S), NEW e \in S
    PROVE  Range(Append(s, e)) = Range(s) \cup {e}
<1>1. /\ Len(s) \in Nat /\ DOMAIN s = 1 .. Len(s)
      /\ DOMAIN Append(s, e) = 1 .. Len(s) + 1
      /\ \A i \in 1 .. Len(s) : Append(s, e)[i] = s[i]
      /\ Append(s, e)[Len(s) + 1] = e
  BY LenProperties, AppendProperties
<1>2. ASSUME NEW i \in DOMAIN Append(s, e) PROVE Append(s, e)[i] \in Range(s) \cup {e}
  <2>1. CASE i = Len(s) + 1
    BY <1>1, <2>1
  <2>2. CASE i # Len(s) + 1
    <3>1. i \in DOMAIN s /\ Append(s, e)[i] = s[i]
      BY <1>1, <2>2
    <3> QED BY <3>1 DEF Range
  <2> QED BY <2>1, <2>2
<1>3. ASSUME NEW i \in DOMAIN s PROVE s[i] \in Range(Append(s, e))
  <2>1. i \in DOMAIN Append(s, e) /\ Append(s, e)[i] = s[i]
    BY <1>1
  <2> QED BY <2>1 DEF Range
<1>4. e \in Range(Append(s, e))
  <2>1. Len(s) + 1 \in DOMAIN Append(s, e)
    BY <1>1
  <2> QED BY <1>1, <2>1 DEF Range
<1>5. Range(Append(s, e)) \subseteq Range(s) \cup {e}
  BY <1>2 DEF Range
<1>6. Range(s) \subseteq Range(Append(s, e))
  BY <1>3 DEF Range
<1> QED BY <1>4, <1>5, <1>6

LEMMA RangeEmpty == Range(<<>>) = {}
<1>1. DOMAIN <<>> = {}
  OBVIOUS
<1> QED BY <1>1 DEF Range

LEMMA RangeType ==
    ASSUME NEW S, NEW s \in Seq(S)
    PROVE  Range(s) \subseteq S
BY LenProperties DEF Range

LEMMA MergedProps ==
    ASSUME NEW S, NEW s \in Seq(S), NEW t \in Seq(S), NEW u \in Merged(s, t)
    PROVE  u \in Seq(S) /\ Range(u) = Range(s) \cup Range(t)
<1> DEFINE st == s \o t
           D == DOMAIN st
<1>1. st \in Seq(S) /\ Range(st) = Range(s) \cup Range(t)
  BY RangeConcat
<1>2. Len(st) \in Nat /\ D = 1 .. Len(st) /\ st \in [D -> S]
  BY <1>1, LenProperties
<1>3. PICK f \in Bijection(D, D) : u = [i \in D |-> st[f[i]]]
  BY DEF Merged
<1>4. f \in [D -> D] /\ \A j \in D : \E i \in D : f[i] = j
  BY <1>3 DEF Bijection, Injection, Surjection
<1> HIDE DEF st, D
<1>5. u \in [D -> S]
  BY <1>2, <1>3, <1>4
<1>6. u \in Seq(S)
  BY <1>2, <1>5, FunctionIsSeq
<1>7. DOMAIN u = D /\ DOMAIN st = D
  BY <1>3 DEF D
<1>8. Range(u) \subseteq Range(st)
  BY <1>3, <1>4, <1>7 DEF Range
<1>9. Range(st) \subseteq Range(u)
  <2>1. ASSUME NEW j \in D PROVE st[j] \in Range(u)
    <3>1. PICK i \in D : f[i] = j
      BY <1>4
    <3>2. u[i] = st[j]
      BY <1>3, <3>1
    <3> QED BY <3>2, <1>7 DEF Range
  <2> QED BY <2>1, <1>7 DEF Range
<1> QED BY <1>1, <1>6, <1>8, <1>9

-----------------------------------------------------------------------------
(***************************************************************************)
(* The types in the steps of a pass.                                       *)
(***************************************************************************)
LEMMA PassTypesStep ==
    ASSUME TypeInv, NEW p \in Passers, PassStep(p)
    PROVE  TypeInv'
<1> DEFINE PC == {"idle", "inbox", "clock", "take", "give", "read", "merge",
                  "last", "lastRead", "end", "close"}
<1>1. WriteTypes /\ PassTypes /\ EndTypes /\ program \in Programs /\ TypeOK
  BY TypeInvImplies DEF TypeInv
<1>2. clock \in 1 .. MaxCount /\ state \in 0 .. MaxChanges /\ MaxCount \in Nat
      /\ MaxChanges \in 0 .. MaxCount
  BY <1>1, AnswerOrderAssumption DEF WriteTypes
<1>3. program' = program
  BY DEF PassStep
<1>4. NoAnswers \in [Kinds -> Seq(Past)] /\ <<>> \in Seq(Past)
  BY EmptySeq DEF NoAnswers
<1>5. UNCHANGED <<writeVars>> => WriteTypes' /\ Past' = Past
  BY <1>1 DEF WriteTypes, writeVars, Past
<1>6. UNCHANGED endVars => EndTypes'
  BY <1>1 DEF EndTypes, endVars
<1>7. CASE TakeLocal(p)
  <2>1. /\ UNCHANGED <<clock, queue, hold, stamp, mark, noting, noteAt, state, need, inbox, takenAt,
                        mine, mineAt, written, todo, shown, given, endVars>>
        /\ mineLocal' = [mineLocal EXCEPT ![p] = local] /\ local' = <<>>
        /\ ppc' = [ppc EXCEPT ![p] = "inbox"]
    BY <1>7 DEF TakeLocal
  <2>2. local \in Seq(Past) /\ Past' = Past
    BY <1>1, <2>1 DEF WriteTypes, Past
  <2>3. mineLocal' \in [Passers -> Seq(Past)] /\ ppc' \in [Passers -> PC]
    BY ONLY <1>1, <2>1, <2>2 DEF PassTypes
  <2>4. WriteTypes'
    BY ONLY <1>1, <1>4, <2>1, <2>2 DEF WriteTypes
  <2>5. PassTypes'
    BY ONLY <1>1, <2>1, <2>2, <2>3 DEF PassTypes
  <2> QED BY <1>1, <1>3, <1>6, <2>1, <2>4, <2>5 DEF TypeInv
<1>8. CASE TakeInbox(p)
  <2>1. /\ UNCHANGED <<writeVars, mineLocal, written, todo, shown, given, endVars>>
        /\ mine' = [mine EXCEPT ![p] = inbox] /\ inbox' = NoAnswers /\ takenAt' = 0
        /\ mineAt' = [mineAt EXCEPT ![p] = takenAt]
        /\ ppc' = [ppc EXCEPT ![p] = "clock"] /\ clock' = clock /\ state' = state
    BY <1>8 DEF TakeInbox, writeVars
  <2>2. mine' \in [Passers -> [Kinds -> Seq(Past)]] /\ ppc' \in [Passers -> PC]
    BY ONLY <1>1, <2>1 DEF PassTypes
  <2>3. mineAt' \in [Passers -> 0 .. clock]
    BY ONLY <1>1, <1>2, <2>1 DEF PassTypes
  <2>4. WriteTypes' /\ Past' = Past
    BY ONLY <1>5, <2>1
  <2>5. PassTypes'
    BY ONLY <1>1, <1>4, <2>1, <2>2, <2>3, <2>4 DEF PassTypes
  <2> QED BY <1>1, <1>3, <1>6, <2>1, <2>4, <2>5 DEF TypeInv
<1>9. CASE ReadClock(p)
  <2>1. /\ UNCHANGED <<writeVars, inbox, takenAt, mine, mineLocal, shown, given, endVars>>
        /\ written' = [written EXCEPT ![p] = clock]
        /\ todo' = [todo EXCEPT ![p] = IF clock # mineAt[p] THEN Kinds ELSE {}]
        /\ mineAt' = [mineAt EXCEPT ![p] = clock]
        /\ ppc' = [ppc EXCEPT ![p] = "take"] /\ clock' = clock /\ state' = state
    BY <1>9 DEF ReadClock, writeVars
  <2>2. todo' \in [Passers -> SUBSET Kinds] /\ ppc' \in [Passers -> PC]
    BY ONLY <1>1, <2>1 DEF PassTypes
  <2>3. mineAt' \in [Passers -> 0 .. clock] /\ written' \in [Passers -> 0 .. clock]
    BY ONLY <1>1, <1>2, <2>1 DEF PassTypes
  <2>4. WriteTypes' /\ Past' = Past
    BY ONLY <1>5, <2>1
  <2>5. PassTypes'
    BY ONLY <1>1, <2>1, <2>2, <2>3, <2>4 DEF PassTypes
  <2> QED BY <1>1, <1>3, <1>6, <2>1, <2>4, <2>5 DEF TypeInv
<1>10. ASSUME NEW k \in Kinds, TakeQueue(p, k) PROVE TypeInv'
  <2>1. /\ UNCHANGED <<clock, hold, local, stamp, mark, noting, noteAt, state, need, inbox, takenAt,
                        ppc, mineAt, mineLocal, written, shown, given, endVars>>
        /\ mine' = [mine EXCEPT ![p][k] = @ \o queue[k]]
        /\ queue' = [queue EXCEPT ![k] = <<>>]
        /\ todo' = [todo EXCEPT ![p] = @ \ {k}]
    BY <1>10 DEF TakeQueue
  <2>2. mine[p][k] \o queue[k] \in Seq(Past)
    BY <1>1, ConcatProperties DEF WriteTypes, PassTypes
  <2>3. mine' \in [Passers -> [Kinds -> Seq(Past)]]
    BY ONLY <1>1, <2>1, <2>2 DEF PassTypes
  <2>4. todo' \in [Passers -> SUBSET Kinds]
    BY ONLY <1>1, <2>1 DEF PassTypes
  <2>5. queue' \in [Kinds -> Seq(Past)] /\ Past' = Past
    BY ONLY <1>1, <1>4, <2>1 DEF WriteTypes, Past
  <2>6. WriteTypes'
    BY ONLY <1>1, <2>1, <2>5 DEF WriteTypes
  <2>7. PassTypes'
    BY ONLY <1>1, <2>1, <2>3, <2>4, <2>5 DEF PassTypes
  <2> QED BY <1>1, <1>3, <1>6, <2>1, <2>6, <2>7 DEF TypeInv
<1>11. CASE TakeDone(p)
  <2>1. /\ UNCHANGED <<writeVars, inbox, takenAt, mine, mineAt, mineLocal, written, todo, shown, given,
                        endVars>>
        /\ ppc' = [ppc EXCEPT ![p] = "give"] /\ clock' = clock /\ state' = state
    BY <1>11 DEF TakeDone, writeVars
  <2>2. ppc' \in [Passers -> PC]
    BY ONLY <1>1, <2>1 DEF PassTypes
  <2>3. WriteTypes' /\ Past' = Past
    BY ONLY <1>5, <2>1
  <2>4. PassTypes'
    BY ONLY <1>1, <2>1, <2>2, <2>3 DEF PassTypes
  <2> QED BY <1>1, <1>3, <1>6, <2>1, <2>3, <2>4 DEF TypeInv
<1>12. ASSUME NEW k \in Kinds, GiveQueue(p, k) PROVE TypeInv'
  <2>1. /\ UNCHANGED <<writeVars, inbox, takenAt, ppc, mineAt, mineLocal, written, todo, shown, endVars>>
        /\ clock' = clock /\ state' = state
    BY <1>12 DEF GiveQueue, writeVars
  <2>2. PICK n \in Nat : QueueRun(p, k, n)
    BY <1>1, <1>12, QueueRuns
  <2>3. mine[p][k] \in Seq(Past) /\ shown \in 0 .. state
        /\ given \in Seq([at : Past, shown : 0 .. state])
    BY <1>1 DEF PassTypes
  <2>4. given' \in Seq([at : Past, shown : 0 .. state])
    BY ONLY <2>2, <2>3, Gave DEF QueueRun
  <2>5. SubSeq(mine[p][k], n + 1, Len(mine[p][k])) \in Seq(Past)
    BY ONLY <2>2, <2>3, LeftOver DEF QueueRun
  <2>6. mine' \in [Passers -> [Kinds -> Seq(Past)]]
    BY ONLY <1>1, <2>2, <2>5 DEF PassTypes, QueueRun
  <2>7. WriteTypes' /\ Past' = Past
    BY ONLY <1>5, <2>1
  <2>8. PassTypes'
    BY ONLY <1>1, <2>1, <2>4, <2>6, <2>7 DEF PassTypes
  <2> QED BY <1>1, <1>3, <1>6, <2>1, <2>7, <2>8 DEF TypeInv
<1>13. CASE GiveState(p)
  <2>1. /\ UNCHANGED <<clock, queue, hold, local, stamp, noting, noteAt, state, need, inbox, takenAt,
                        mine, mineAt, mineLocal, written, todo, shown, given, endVars>>
        /\ mark' = 0 /\ ppc' = [ppc EXCEPT ![p] = "read"]
    BY <1>13 DEF GiveState
  <2>2. ppc' \in [Passers -> PC] /\ Past' = Past
    BY ONLY <1>1, <2>1 DEF PassTypes, Past
  <2>3. mark' \in 0 .. clock'
    BY ONLY <1>2, <2>1
  <2>4. WriteTypes'
    BY ONLY <1>1, <2>1, <2>2, <2>3 DEF WriteTypes
  <2>5. PassTypes'
    BY ONLY <1>1, <2>1, <2>2 DEF PassTypes
  <2> QED BY <1>1, <1>3, <1>6, <2>1, <2>4, <2>5 DEF TypeInv
<1>14. CASE ReadState(p) \/ LastRead(p)
  <2>1. /\ UNCHANGED <<writeVars, inbox, takenAt, mine, mineAt, mineLocal, written, todo, given,
                        endVars>>
        /\ shown' = state /\ clock' = clock /\ state' = state
        /\ \E pc \in PC : ppc' = [ppc EXCEPT ![p] = pc]
    BY <1>14 DEF ReadState, LastRead, writeVars
  <2>2. ppc' \in [Passers -> PC]
    BY ONLY <1>1, <2>1 DEF PassTypes
  <2>3. shown' \in 0 .. state'
    BY ONLY <1>2, <2>1
  <2>4. WriteTypes' /\ Past' = Past
    BY ONLY <1>5, <2>1
  <2>5. PassTypes'
    BY ONLY <1>1, <2>1, <2>2, <2>3, <2>4 DEF PassTypes
  <2> QED BY <1>1, <1>3, <1>6, <2>1, <2>4, <2>5 DEF TypeInv
<1>15. CASE GiveLocal(p)
  <2>1. /\ UNCHANGED <<writeVars, inbox, takenAt, ppc, mine, mineAt, written, todo, shown, endVars>>
        /\ clock' = clock /\ state' = state
    BY <1>15 DEF GiveLocal, writeVars
  <2>2. PICK n \in Nat : OwnRun(p, n)
    BY <1>1, <1>15, OwnRuns
  <2>3. mineLocal[p] \in Seq(Past) /\ shown \in 0 .. state
        /\ given \in Seq([at : Past, shown : 0 .. state])
    BY <1>1 DEF PassTypes
  <2>4. given' \in Seq([at : Past, shown : 0 .. state])
    BY ONLY <2>2, <2>3, Gave DEF OwnRun
  <2>5. SubSeq(mineLocal[p], n + 1, Len(mineLocal[p])) \in Seq(Past)
    BY ONLY <2>2, <2>3, LeftOver DEF OwnRun
  <2>6. mineLocal' \in [Passers -> Seq(Past)]
    BY ONLY <1>1, <2>2, <2>5 DEF PassTypes, OwnRun
  <2>7. WriteTypes' /\ Past' = Past
    BY ONLY <1>5, <2>1
  <2>8. PassTypes'
    BY ONLY <1>1, <2>1, <2>4, <2>6, <2>7 DEF PassTypes
  <2> QED BY <1>1, <1>3, <1>6, <2>1, <2>7, <2>8 DEF TypeInv
<1>16. CASE MergeInbox(p)
  <2>1. /\ UNCHANGED <<writeVars, mineAt, mineLocal, written, todo, shown, given, endVars>>
        /\ takenAt' = Min({takenAt, mineAt[p]})
        /\ mine' = [mine EXCEPT ![p] = NoAnswers]
        /\ ppc' = [ppc EXCEPT ![p] = "merge"] /\ clock' = clock /\ state' = state
    BY <1>16 DEF MergeInbox, writeVars
  <2>2. mine' \in [Passers -> [Kinds -> Seq(Past)]] /\ ppc' \in [Passers -> PC]
    BY ONLY <1>1, <1>4, <2>1 DEF PassTypes
  <2>3. takenAt' = 0
    <3> DEFINE S == {takenAt, mineAt[p]}
    <3>1. takenAt = 0 /\ mineAt[p] \in Nat
      BY <1>1, <1>2 DEF PassTypes
    <3>2. S \subseteq Nat /\ 0 \in S
      BY <3>1
    <3>3. Min(S) \in Nat /\ Min(S) <= 0
      <4> HIDE DEF S
      <4> QED BY <3>2, MinBelow
    <3> QED BY <3>3, <2>1
  <2>4. inbox' \in [Kinds -> Seq(Past)]
    <3>1. mine[p] \in [Kinds -> Seq(Past)] /\ inbox \in [Kinds -> Seq(Past)]
      BY <1>1 DEF PassTypes
    <3>2. CASE inbox = NoAnswers
      BY <3>1, <3>2, <1>16 DEF MergeInbox
    <3>3. CASE inbox # NoAnswers
      <4>1. /\ inbox' \in [Kinds -> UNION {Merged(inbox[k], mine[p][k]) : k \in Kinds}]
            /\ \A k \in Kinds : inbox'[k] \in Merged(inbox[k], mine[p][k])
        BY <3>3, <1>16 DEF MergeInbox
      <4>2. ASSUME NEW k \in Kinds PROVE inbox'[k] \in Seq(Past)
        BY <4>1, <3>1, MergedProps
      <4> QED BY ONLY <4>1, <4>2
    <3> QED BY <3>2, <3>3
  <2>5. WriteTypes' /\ Past' = Past
    BY ONLY <1>5, <2>1
  <2>6. PassTypes'
    BY ONLY <1>1, <2>1, <2>2, <2>3, <2>4, <2>5 DEF PassTypes
  <2> QED BY <1>1, <1>3, <1>6, <2>1, <2>5, <2>6 DEF TypeInv
<1>17. CASE PutBackLocal(p)
  <2>1. /\ UNCHANGED <<clock, queue, hold, stamp, mark, noting, noteAt, state, need, inbox, takenAt,
                        mine, mineAt, written, todo, shown, given, endVars>>
        /\ mineLocal' = [mineLocal EXCEPT ![p] = <<>>] /\ local' = mineLocal[p] \o local
        /\ ppc' = [ppc EXCEPT ![p] = "last"]
    BY <1>17 DEF PutBackLocal
  <2>2. local' \in Seq(Past) /\ Past' = Past
    BY <1>1, <2>1, ConcatProperties DEF WriteTypes, PassTypes, Past
  <2>3. mineLocal' \in [Passers -> Seq(Past)] /\ ppc' \in [Passers -> PC]
    BY ONLY <1>1, <1>4, <2>1 DEF PassTypes
  <2>4. WriteTypes'
    BY ONLY <1>1, <2>1, <2>2 DEF WriteTypes
  <2>5. PassTypes'
    BY ONLY <1>1, <2>1, <2>2, <2>3 DEF PassTypes
  <2> QED BY <1>1, <1>3, <1>6, <2>1, <2>4, <2>5 DEF TypeInv
<1>18. CASE LastState(p)
  <2>1. /\ UNCHANGED <<clock, queue, hold, local, stamp, noting, noteAt, state, need, inbox, takenAt,
                        mine, mineAt, mineLocal, written, todo, shown, given, endVars>>
        /\ mark' \in {0, mark} /\ ppc' = [ppc EXCEPT ![p] = "lastRead"]
    BY <1>18 DEF LastState
  <2>2. ppc' \in [Passers -> PC] /\ Past' = Past
    BY ONLY <1>1, <2>1 DEF PassTypes, Past
  <2>3. mark' \in 0 .. clock'
    BY ONLY <1>1, <1>2, <2>1 DEF WriteTypes
  <2>4. WriteTypes'
    BY ONLY <1>1, <2>1, <2>2, <2>3 DEF WriteTypes
  <2>5. PassTypes'
    BY ONLY <1>1, <2>1, <2>2 DEF PassTypes
  <2> QED BY <1>1, <1>3, <1>6, <2>1, <2>4, <2>5 DEF TypeInv
<1>19. CASE TakeLost(p) \/ Close(p)
  <2>1. /\ UNCHANGED <<writeVars, inbox, takenAt, mine, mineAt, mineLocal, written, todo, shown, given>>
        /\ clock' = clock /\ state' = state
        /\ \E pc \in PC : ppc' = [ppc EXCEPT ![p] = pc]
    BY <1>19 DEF TakeLost, Close, writeVars
  <2>2. ppc' \in [Passers -> PC]
    BY ONLY <1>1, <2>1 DEF PassTypes
  <2>3. WriteTypes' /\ Past' = Past
    BY ONLY <1>5, <2>1
  <2>4. PassTypes'
    BY ONLY <1>1, <2>1, <2>2, <2>3 DEF PassTypes
  <2>5. EndTypes'
    <3>1. CASE TakeLost(p)
      <4>1. lost' = FALSE /\ connected' = (connected /\ ~lost) /\ closed' = closed
        BY <3>1 DEF TakeLost
      <4>2. lost' \in BOOLEAN /\ connected' \in BOOLEAN
        BY ONLY <4>1, Zenon
      <4> QED BY ONLY <1>1, <4>1, <4>2 DEF EndTypes
    <3>2. CASE Close(p)
      <4>1. /\ closed' \in {1, closed}
            /\ lost' = lost /\ connected' = connected
        BY <3>2 DEF Close
      <4>2. closed' \in 0 .. 1
        BY ONLY <1>1, <4>1, SMT DEF EndTypes
      <4> QED BY ONLY <1>1, <4>1, <4>2 DEF EndTypes
    <3> QED BY <1>19, <3>1, <3>2
  <2> QED BY ONLY <1>1, <1>3, <2>3, <2>4, <2>5 DEF TypeInv
<1> QED BY <1>7, <1>8, <1>9, <1>10, <1>11, <1>12, <1>13, <1>14, <1>15, <1>16, <1>17, <1>18, <1>19
        DEF PassStep

LEMMA TypeStep == TypeInv /\ [Next]_vars => TypeInv'
<1> SUFFICES ASSUME TypeInv, [Next]_vars PROVE TypeInv'
  OBVIOUS
<1>1. CASE Next
  BY <1>1, WriteTypesStep, NoteTypesStep, PushTypesStep, LaterTypesStep, PassTypesStep DEF Next
<1>2. CASE UNCHANGED vars
  BY <1>2 DEF vars, writeVars, passVars, endVars, TypeInv, WriteTypes, PassTypes, EndTypes, Past
<1> QED BY <1>1, <1>2

\* Every reachable state is well typed, whatever the kinds, the threads and
\* the bounds.
THEOREM TypeCorrect == Spec => []TypeOK
<1>1. TypeInv => TypeOK
  BY TypeInvImplies
<1>2. Init => TypeInv
  BY TypeInvInit
<1>3. TypeInv /\ [Next]_vars => TypeInv'
  BY TypeStep
<1> QED BY <1>1, <1>2, <1>3, PTL DEF Spec

-----------------------------------------------------------------------------
(***************************************************************************)
(* The state before the answer, while one thread dispatches.               *)
(***************************************************************************)
LEMMA StateTypes ==
    ASSUME TypeInv
    PROVE  /\ clock \in Nat /\ mark \in 0 .. clock /\ noteAt \in 0 .. clock - 1
           /\ state \in Nat /\ shown \in 0 .. state
           /\ \A c \in 1 .. MaxCount : need[c] \in Int /\ need[c] <= state
<1>1. WriteTypes /\ PassTypes /\ MaxCount \in Nat /\ MaxChanges \in Nat
  BY AnswerOrderAssumption DEF TypeInv
<1>2. clock \in Nat /\ state \in Nat
  BY <1>1 DEF WriteTypes
<1>3. shown \in 0 .. state
  BY <1>1 DEF PassTypes
<1>4. \A c \in 1 .. MaxCount : need[c] \in Int /\ need[c] <= state
  BY <1>1 DEF WriteTypes
<1> QED BY <1>1, <1>2, <1>3, <1>4 DEF WriteTypes

\* What was given stays right while its answers need what they needed.
LEMMA ShownKept ==
    ASSUME TypeInv, Shown, given' = given, \A c \in Past : need'[c] = need[c]
    PROVE  Shown'
<1>1. \A i \in DOMAIN given : given[i].at \in Past
  <2>1. given \in Seq([at : Past, shown : 0 .. state])
    BY DEF TypeInv, PassTypes
  <2>2. \A i \in DOMAIN given : given[i] \in [at : Past, shown : 0 .. state]
    BY ONLY <2>1, LenProperties
  <2> QED BY <2>2
<1> QED BY <1>1 DEF Shown

LEMMA StatePlain ==
    ASSUME NEW p, Marked(p), Shown, UNCHANGED <<need, mark, noting, shown, state, given>>,
           Reading(p) => Reading(p)'
    PROVE  Marked(p)' /\ Shown'
BY DEF Marked, Shown

\* A count is taken for an answer that needs no more than is marked.
LEMMA StateCount ==
    ASSUME TypeInv, NEW p, Marked(p), Shown, NEW n \in -2 .. state,
           UNCHANGED <<mark, shown, state, given, ppc>>,
           need' = [need EXCEPT ![clock] = n],
           noting' = noting \/ noting' = "mark",
           shown < n => mark # 0 \/ Reading(p)
    PROVE  Marked(p)' /\ Shown'
<1>1. /\ clock \in Nat /\ mark \in 0 .. clock /\ state \in Nat /\ shown \in 0 .. state
      /\ \A c \in 1 .. MaxCount : need[c] \in Int /\ need[c] <= state
  BY StateTypes
<1>2. need \in [1 .. MaxCount -> -2 .. MaxCount] /\ clock \in 1 .. MaxCount
  BY DEF TypeInv, WriteTypes
<1>3. Reading(p)' <=> Reading(p)
  BY DEF Reading
<1>4. shown' < state' => noting' # "no" \/ mark' # 0 \/ Reading(p)'
  BY <1>3 DEF Marked
<1>5. ASSUME NEW c \in 1 .. MaxCount, shown' < need'[c]
      PROVE  Reading(p)' \/ (mark' # 0 /\ mark' - 1 < c)
  <2>1. CASE c = clock
    <3>1. need'[c] = n
      BY ONLY <2>1, <1>2, need' = [need EXCEPT ![clock] = n]
    <3>2. mark # 0 \/ Reading(p)
      BY <3>1, <1>5
    <3> QED BY ONLY <3>2, <1>3, <1>1, <2>1, mark' = mark
  <2>2. CASE c # clock
    <3>1. need'[c] = need[c]
      BY ONLY <2>2, <1>2, <1>5, need' = [need EXCEPT ![clock] = n]
    <3> QED BY <3>1, <1>3, <1>5 DEF Marked
  <2> QED BY <2>1, <2>2
<1>6. \A c \in Past : need'[c] = need[c]
  <2>1. \A c \in Past : c \in 1 .. MaxCount /\ c # clock
    BY ONLY <1>1, <1>2, AnswerOrderAssumption DEF Past
  <2> QED BY ONLY <2>1, <1>2, need' = [need EXCEPT ![clock] = n]
<1>7. Shown'
  BY <1>6, ShownKept
<1> QED BY <1>4, <1>5, <1>7 DEF Marked

\* A run is given whose answers need no more than is shown.
LEMMA StateGive ==
    ASSUME TypeInv, NEW p, Marked(p), Shown, ppc[p] = "give",
           UNCHANGED <<need, mark, noting, shown, state, ppc>>,
           NEW s \in Seq(Past), NEW n \in 0 .. Len(s), NEW until \in Nat, until <= StateFirst,
           \A i \in 1 .. n : s[i] < until,
           given' = Gives(SubSeq(s, 1, n))
    PROVE  Marked(p)' /\ Shown'
<1>1. /\ clock \in Nat /\ mark \in 0 .. clock /\ state \in Nat /\ shown \in 0 .. state
      /\ \A c \in 1 .. MaxCount : need[c] \in Int
  BY StateTypes
<1>2. Marked(p)'
  BY DEF Marked, Reading
<1>3. given \in Seq([at : Past, shown : 0 .. state])
  BY DEF TypeInv, PassTypes
<1>4. /\ Len(given) \in Nat /\ Len(given') = Len(given) + n
      /\ given' \in Seq([at : Past, shown : 0 .. state])
      /\ \A i \in 1 .. Len(given) : given'[i] = given[i]
      /\ \A i \in 1 .. n : given'[Len(given) + i] = [at |-> s[i], shown |-> shown]
  BY ONLY <1>1, <1>3, s \in Seq(Past), n \in 0 .. Len(s), given' = Gives(SubSeq(s, 1, n)), Gave
<1>5. Len(s) \in Nat /\ n \in Nat /\ \A i \in 1 .. n : s[i] \in Past
  <2>1. Len(s) \in Nat
    BY LenProperties
  <2> QED BY <2>1, ElementOfSeq
<1>6. Past \subseteq 1 .. MaxCount
  <2>1. clock \in 1 .. MaxCount /\ MaxCount \in Nat
    BY AnswerOrderAssumption DEF TypeInv, WriteTypes
  <2> QED BY ONLY <2>1 DEF Past
<1>7. ASSUME NEW i \in 1 .. n PROVE need[s[i]] <= shown
  <2>1. s[i] \in 1 .. MaxCount /\ s[i] \in Nat /\ s[i] < StateFirst
    <3>1. s[i] \in 1 .. MaxCount
      BY <1>5, <1>6
    <3>2. s[i] \in Nat /\ StateFirst \in Nat /\ s[i] < until
      BY <3>1, TypeInvImplies, StateFirstProps
    <3> QED BY ONLY <3>1, <3>2, until \in Nat, until <= StateFirst
  <2>2. ~(mark # 0 /\ mark - 1 < s[i])
    BY ONLY <2>1, <1>1 DEF StateFirst
  <2>3. ~Reading(p)
    BY DEF Reading
  <2>4. ~(shown < need[s[i]])
    BY ONLY <2>1, <2>2, <2>3, Marked(p) DEF Marked
  <2>5. need[s[i]] \in Int
    BY ONLY <2>1, <1>1
  <2> QED BY ONLY <2>4, <2>5, <1>1
<1>8. DOMAIN given = 1 .. Len(given) /\ DOMAIN given' = 1 .. Len(given) + n
  BY ONLY <1>3, <1>4, LenProperties
<1>9. ASSUME NEW i \in DOMAIN given' PROVE need'[given'[i].at] <= given'[i].shown
  <2>1. CASE i \in 1 .. Len(given)
    <3>1. given'[i] = given[i] /\ i \in DOMAIN given
      BY ONLY <2>1, <1>4, <1>8
    <3> QED BY ONLY <3>1, Shown, need' = need DEF Shown
  <2>2. CASE i \notin 1 .. Len(given)
    <3>1. i - Len(given) \in 1 .. n /\ i = Len(given) + (i - Len(given))
      BY ONLY <2>2, <1>4, <1>5, <1>8, i \in DOMAIN given'
    <3>2. given'[i] = [at |-> s[i - Len(given)], shown |-> shown]
      BY ONLY <3>1, <1>4
    <3> QED BY ONLY <3>1, <3>2, <1>7, need' = need
  <2> QED BY <2>1, <2>2
<1> QED BY <1>2, <1>9 DEF Shown

\* The writers and the engine, while p dispatches.
LEMMA StateWriters ==
    ASSUME TypeInv, NEW p \in Passers, Marked(p), Shown,
           WriteStep \/ NoteStep \/ (\E w \in Writers : PushStep(w)) \/ (\E c \in Laters : LaterStep(c))
    PROVE  Marked(p)' /\ Shown'
<1>1. /\ clock \in Nat /\ mark \in 0 .. clock /\ noteAt \in 0 .. clock - 1 /\ state \in Nat
      /\ shown \in 0 .. state /\ \A c \in 1 .. MaxCount : need[c] \in Int /\ need[c] <= state
  BY StateTypes
<1>3. ASSUME NEW w, NEW k, Count(w, k) PROVE Marked(p)' /\ Shown'
  <2>1. /\ UNCHANGED <<mark, shown, state, given, ppc, noting>>
        /\ need' = [need EXCEPT ![clock] = IF w = Engine THEN state ELSE -2]
        /\ w = Engine => noting = "no"
    BY <1>3 DEF Count, passVars, EngineFree
  <2>2. CASE w = Engine
    <3>1. state \in -2 .. state
      BY ONLY <1>1
    <3>2. need' = [need EXCEPT ![clock] = state]
      BY ONLY <2>1, <2>2
    <3>3. shown < state => mark # 0 \/ Reading(p)
      BY <2>1, <2>2 DEF Marked
    <3> QED BY <2>1, <3>1, <3>2, <3>3, StateCount
  <2>3. CASE w # Engine
    <3>1. -2 \in -2 .. state /\ ~(shown < -2)
      BY ONLY <1>1
    <3>2. need' = [need EXCEPT ![clock] = -2]
      BY ONLY <2>1, <2>3
    <3> QED BY <2>1, <3>1, <3>2, StateCount
  <2> QED BY <2>2, <2>3
<1>4. CASE NoteCount
  <2>1. /\ UNCHANGED <<mark, shown, state, given, ppc>> /\ noting' = "mark"
        /\ need' = [need EXCEPT ![clock] = -1]
    BY <1>4 DEF NoteCount, passVars
  <2>2. -1 \in -2 .. state /\ ~(shown < -1)
    BY ONLY <1>1
  <2> QED BY <2>1, <2>2, StateCount
<1>5. CASE ChangeState
  <2>1. /\ UNCHANGED <<mark, shown, given, ppc, need>> /\ noting' = "load"
    BY <1>5 DEF ChangeState, passVars
  <2> QED BY <2>1 DEF Marked, Shown, Reading
<1>6. CASE NoteLoad
  <2>1. /\ UNCHANGED <<mark, shown, given, ppc, need, state>>
        /\ noting' = "no" => mark # 0
    BY <1>6 DEF NoteLoad, passVars
  <2> QED BY <2>1 DEF Marked, Shown, Reading
<1>7. CASE NoteMark
  <2>1. /\ UNCHANGED <<shown, given, ppc, need, state>>
        /\ mark' = IF mark = 0 THEN noteAt + 1 ELSE mark
    BY <1>7 DEF NoteMark, passVars
  <2>2. mark' # 0 /\ (mark # 0 => mark' = mark)
    BY ONLY <2>1, <1>1
  <2> QED BY <2>1, <2>2 DEF Marked, Shown, Reading
<1>8. CASE \/ \E c : LaterStamp(c) \/ LaterPush(c)
           \/ \E q : LaterHere(q) \/ Push(q)
           \/ SetConnectionLost
  <2>1. UNCHANGED <<need, mark, noting, shown, state, given, ppc>>
    BY <1>8 DEF LaterStamp, LaterPush, LaterHere, Push, SetConnectionLost, passVars, writeVars
  <2>2. Reading(p) => Reading(p)'
    BY <2>1 DEF Reading
  <2> QED BY <2>1, <2>2, StatePlain
<1> QED BY <1>3, <1>4, <1>5, <1>6, <1>7, <1>8 DEF WriteStep, NoteStep, PushStep, LaterStep

\* A step of the pass.
LEMMA StatePasses ==
    ASSUME TypeInv, NEW p \in Passers, Marked(p), Shown, PassStep(p)
    PROVE  Marked(p)' /\ Shown'
<1>1. /\ clock \in Nat /\ mark \in 0 .. clock /\ noteAt \in 0 .. clock - 1 /\ state \in Nat
      /\ shown \in 0 .. state /\ \A c \in 1 .. MaxCount : need[c] \in Int /\ need[c] <= state
  BY StateTypes
<1>2. ppc \in [Passers -> {"idle", "inbox", "clock", "take", "give", "read", "merge",
                            "last", "lastRead", "end", "close"}]
  BY DEF TypeInv, PassTypes
<1>3. CASE \/ TakeLocal(p) \/ TakeInbox(p) \/ ReadClock(p) \/ TakeDone(p)
           \/ \E k \in Kinds : TakeQueue(p, k)
           \/ MergeInbox(p) \/ PutBackLocal(p) \/ TakeLost(p) \/ Close(p)
  <2>1. UNCHANGED <<need, mark, noting, shown, state, given>> /\ ~Reading(p)
    BY <1>3 DEF TakeLocal, TakeInbox, ReadClock, TakeDone, TakeQueue, MergeInbox, PutBackLocal,
                TakeLost, Close, writeVars, Reading
  <2> QED BY <2>1, StatePlain
<1>4. CASE GiveState(p) \/ LastState(p)
  <2>1. /\ UNCHANGED <<need, noting, shown, state, given>>
        /\ ppc' = [ppc EXCEPT ![p] = "read"] \/ ppc' = [ppc EXCEPT ![p] = "lastRead"]
    BY <1>4 DEF GiveState, LastState
  <2>2. Reading(p)'
    BY ONLY <2>1, <1>2, p \in Passers DEF Reading
  <2> QED BY <2>1, <2>2 DEF Marked, Shown
<1>5. CASE ReadState(p) \/ LastRead(p)
  <2>1. /\ UNCHANGED <<need, mark, noting, state, given>> /\ shown' = state
    BY <1>5 DEF ReadState, LastRead, writeVars
  <2>2. ~(shown' < state') /\ \A c \in 1 .. MaxCount : ~(shown' < need'[c])
    BY ONLY <1>1, <2>1
  <2> QED BY <2>1, <2>2 DEF Marked, Shown
<1>6. ASSUME NEW k \in Kinds, GiveQueue(p, k) PROVE Marked(p)' /\ Shown'
  <2>1. UNCHANGED <<need, mark, noting, shown, state, ppc>> /\ ppc[p] = "give"
    BY <1>6 DEF GiveQueue, writeVars
  <2>2. PICK n \in Nat : QueueRun(p, k, n)
    BY <1>6, QueueRuns, TypeInvImplies
  <2>3. mine[p][k] \in Seq(Past)
    BY DEF TypeInv, PassTypes
  <2>4. QueueUntil(p, k) \in Nat /\ QueueUntil(p, k) <= StateFirst
    BY QueueUntilProps, TypeInvImplies
  <2> QED BY <2>1, <2>2, <2>3, <2>4, StateGive DEF QueueRun
<1>7. CASE GiveLocal(p)
  <2>1. UNCHANGED <<need, mark, noting, shown, state, ppc>> /\ ppc[p] = "give"
    BY <1>7 DEF GiveLocal, writeVars
  <2>2. PICK n \in Nat : OwnRun(p, n)
    BY <1>7, OwnRuns, TypeInvImplies
  <2>3. mineLocal[p] \in Seq(Past)
    BY DEF TypeInv, PassTypes
  <2>4. OwnUntil(p) \in Nat /\ OwnUntil(p) <= StateFirst
    BY OwnUntilProps, TypeInvImplies
  <2> QED BY <2>1, <2>2, <2>3, <2>4, StateGive DEF OwnRun
<1> QED BY <1>3, <1>4, <1>5, <1>6, <1>7 DEF PassStep

LEMMA StateStep == TypeInv /\ StateInv /\ [Next]_vars => StateInv'
<1> SUFFICES ASSUME TypeInv, StateInv, [Next]_vars, NEW p \in Passers, program'.passers = {p}
             PROVE  Marked(p)' /\ Shown'
  BY DEF StateInv
<1>1. program' = program
  BY DEF Next, WriteStep, NoteStep, PushStep, LaterStep, PassStep, vars
<1>2. Marked(p) /\ Shown
  BY <1>1 DEF StateInv
<1>3. CASE UNCHANGED vars
  <2>1. UNCHANGED <<need, mark, noting, shown, state, given, ppc>>
    BY <1>3 DEF vars, writeVars, passVars
  <2> QED BY <2>1, <1>2, StatePlain DEF Reading
<1>4. ASSUME NEW q \in Passers, PassStep(q) PROVE Marked(p)' /\ Shown'
  <2>1. q = p
    BY <1>4, <1>1 DEF PassStep
  <2> QED BY <1>2, <1>4, <2>1, StatePasses
<1>5. CASE WriteStep \/ NoteStep \/ (\E w \in Writers : PushStep(w)) \/ (\E c \in Laters : LaterStep(c))
  BY <1>2, <1>5, StateWriters
<1> QED BY <1>3, <1>4, <1>5 DEF Next

\* One thread of the program dispatches.
LEMMA OnePasser ==
    ASSUME TypeInv, Cardinality(program.passers) = 1
    PROVE  \E p \in Passers : program.passers = {p}
<1>1. program.passers \subseteq Passers
  BY AnswerOrderAssumption DEF TypeInv
<1>2. IsFiniteSet(program.passers)
  BY <1>1, AnswerOrderAssumption, FS_Subset
<1>3. \E x : program.passers = {x}
  BY <1>2, FS_Singleton
<1> QED BY <1>1, <1>3

\* An answer is given only once the changes of the state the engine made
\* before it are given, while one thread dispatches.
THEOREM StateBeforeAnswer == Spec => []NoStaleState
<1>1. Init => TypeInv
  BY TypeInvInit
<1>2. Init => StateInv
  <2> SUFFICES ASSUME Init PROVE StateInv
    OBVIOUS
  <2>1. /\ shown = 0 /\ state = 0 /\ given = <<>> /\ need = [c \in 1 .. MaxCount |-> -2]
    BY DEF Init
  <2>2. \A c \in 1 .. MaxCount : ~(shown < need[c])
    BY <2>1
  <2>3. DOMAIN given = {} /\ ~(shown < state)
    BY <2>1
  <2> QED BY ONLY <2>2, <2>3 DEF StateInv, Marked, Shown
<1>3. TypeInv /\ [Next]_vars => TypeInv'
  BY TypeStep
<1>4. TypeInv /\ StateInv /\ [Next]_vars => StateInv'
  BY StateStep
<1>5. TypeInv /\ StateInv => NoStaleState
  <2> SUFFICES ASSUME TypeInv, StateInv, Cardinality(program.passers) = 1,
                      NEW i \in DOMAIN given
               PROVE  given[i].shown >= need[given[i].at]
    BY DEF NoStaleState
  <2>1. Shown
    BY OnePasser DEF StateInv
  <2>2. need[given[i].at] <= given[i].shown
    BY <2>1 DEF Shown
  <2>3. given[i].at \in 1 .. MaxCount /\ given[i].shown \in 0 .. MaxCount
    <3>1. TypeOK
      BY TypeInvImplies
    <3> DEFINE R == [at : 1 .. MaxCount, shown : 0 .. MaxCount]
    <3>3. given \in Seq(R)
      BY ONLY <3>1 DEF TypeOK
    <3>4. given[i] \in R
      <4> HIDE DEF R
      <4> QED BY ONLY <3>3, LenProperties, i \in DOMAIN given
    <3>2. given[i] \in [at : 1 .. MaxCount, shown : 0 .. MaxCount]
      BY ONLY <3>4
    <3> QED BY ONLY <3>2
  <2>4. need[given[i].at] \in Int
    BY <2>3, StateTypes
  <2> QED BY ONLY <2>2, <2>3, <2>4
<1> QED BY <1>1, <1>2, <1>3, <1>4, <1>5, PTL DEF Spec

-----------------------------------------------------------------------------
(***************************************************************************)
(* Sorted sequences of counts.                                             *)
(***************************************************************************)
LEMMA SortedEmpty == Sorted(<<>>)
<1>1. DOMAIN <<>> = {}
  OBVIOUS
<1> QED BY <1>1 DEF Sorted

LEMMA SortedConcat ==
    ASSUME NEW s \in Seq(Int), NEW t \in Seq(Int), Sorted(s), Sorted(t), Before(Range(s), Range(t))
    PROVE  Sorted(s \o t)
<1>1. /\ Len(s) \in Nat /\ Len(t) \in Nat /\ DOMAIN s = 1 .. Len(s) /\ DOMAIN t = 1 .. Len(t)
      /\ DOMAIN (s \o t) = 1 .. Len(s) + Len(t)
  BY LenProperties, ConcatProperties
<1>2. \A i \in 1 .. Len(s) + Len(t) : (s \o t)[i] = IF i <= Len(s) THEN s[i] ELSE t[i - Len(s)]
  BY ConcatProperties
<1> SUFFICES ASSUME NEW i \in 1 .. Len(s) + Len(t), NEW j \in 1 .. Len(s) + Len(t), i < j
             PROVE  (s \o t)[i] < (s \o t)[j]
  BY <1>1 DEF Sorted
<1>3. CASE j <= Len(s)
  <2>1. i \in DOMAIN s /\ j \in DOMAIN s /\ (s \o t)[i] = s[i] /\ (s \o t)[j] = s[j]
    BY <1>1, <1>2, <1>3
  <2> QED BY <2>1 DEF Sorted
<1>4. CASE i <= Len(s) /\ ~(j <= Len(s))
  <2>1. /\ i \in DOMAIN s /\ j - Len(s) \in DOMAIN t
        /\ (s \o t)[i] = s[i] /\ (s \o t)[j] = t[j - Len(s)]
    BY <1>1, <1>2, <1>4
  <2>2. s[i] \in Range(s) /\ t[j - Len(s)] \in Range(t)
    BY <2>1 DEF Range
  <2> QED BY <2>1, <2>2 DEF Before
<1>5. CASE ~(i <= Len(s))
  <2>1. /\ i - Len(s) \in DOMAIN t /\ j - Len(s) \in DOMAIN t /\ i - Len(s) < j - Len(s)
        /\ (s \o t)[i] = t[i - Len(s)] /\ (s \o t)[j] = t[j - Len(s)]
    BY <1>1, <1>2, <1>5
  <2> QED BY <2>1 DEF Sorted
<1> QED BY <1>1, <1>3, <1>4, <1>5

LEMMA SortedAppend ==
    ASSUME NEW s \in Seq(Int), NEW e \in Int, Sorted(s), \A a \in Range(s) : a < e
    PROVE  Sorted(Append(s, e))
<1>1. /\ Len(s) \in Nat /\ DOMAIN s = 1 .. Len(s)
      /\ DOMAIN Append(s, e) = 1 .. Len(s) + 1
      /\ \A i \in 1 .. Len(s) : Append(s, e)[i] = s[i]
      /\ Append(s, e)[Len(s) + 1] = e
  BY LenProperties, AppendProperties
<1> SUFFICES ASSUME NEW i \in 1 .. Len(s) + 1, NEW j \in 1 .. Len(s) + 1, i < j
             PROVE  Append(s, e)[i] < Append(s, e)[j]
  BY <1>1 DEF Sorted
<1>2. i \in DOMAIN s /\ Append(s, e)[i] = s[i] /\ s[i] \in Range(s)
  <2>1. i \in DOMAIN s
    BY <1>1
  <2> QED BY <2>1, <1>1 DEF Range
<1>3. CASE j = Len(s) + 1
  BY <1>1, <1>2, <1>3
<1>4. CASE j # Len(s) + 1
  <2>1. j \in DOMAIN s /\ Append(s, e)[j] = s[j]
    BY <1>1, <1>4
  <2> QED BY <1>2, <2>1 DEF Sorted
<1> QED BY <1>3, <1>4

\* The first of a sorted sequence is its smallest.
LEMMA FirstLeast ==
    ASSUME NEW s \in Seq(1 .. MaxCount), Sorted(s), NEW c \in Range(s)
    PROVE  First(s) <= c
<1>1. PICK i \in DOMAIN s : c = s[i]
  BY DEF Range
<1>2. Len(s) \in Nat /\ DOMAIN s = 1 .. Len(s) /\ s \in [1 .. Len(s) -> 1 .. MaxCount]
  BY LenProperties
<1>3. s # <<>>
  BY <1>1, <1>2
<1>4. First(s) = s[1] /\ 1 \in DOMAIN s
  BY <1>3, FirstProps
<1>5. CASE i = 1
  <2>1. c = First(s) /\ First(s) \in Nat
    BY <1>1, <1>4, <1>5, FirstProps
  <2> QED BY ONLY <2>1
<1>6. CASE i # 1
  <2>1. 1 < i
    BY <1>2, <1>6
  <2>2. s[1] < s[i]
    BY <2>1, <1>1, <1>4 DEF Sorted
  <2>3. s[1] \in 1 .. MaxCount /\ s[i] \in 1 .. MaxCount
    BY <1>2, <1>4, <1>1
  <2>4. s[1] <= s[i]
    BY ONLY <2>2, <2>3
  <2> QED BY ONLY <2>4, <1>1, <1>4
<1> QED BY <1>5, <1>6

\* The first n of a sequence.
Firsts(s, n) == {s[i] : i \in 1 .. n}

\* What stays behind a run: sorted, of the same counts, behind the run.
LEMMA RestSorted ==
    ASSUME NEW s \in Seq(Int), NEW n \in 0 .. Len(s), Sorted(s)
    PROVE  LET r == SubSeq(s, n + 1, Len(s))
           IN  Sorted(r) /\ Range(r) \subseteq Range(s) /\ Before(Firsts(s, n), Range(r))
<1> DEFINE r == SubSeq(s, n + 1, Len(s))
<1>1. /\ r \in Seq(Int) /\ Len(s) \in Nat /\ Len(r) = Len(s) - n
      /\ \A i \in 1 .. Len(s) - n : r[i] = s[n + i]
  BY LeftOver
<1>2. DOMAIN s = 1 .. Len(s) /\ DOMAIN r = 1 .. Len(s) - n
  BY <1>1, LenProperties
<1> HIDE DEF r
<1>3. \A i \in DOMAIN r : n + i \in DOMAIN s /\ r[i] = s[n + i] /\ i \in Nat /\ 0 < i
  <2> SUFFICES ASSUME NEW i \in DOMAIN r
               PROVE  n + i \in DOMAIN s /\ r[i] = s[n + i] /\ i \in Nat /\ 0 < i
    OBVIOUS
  <2>1. i \in 1 .. Len(s) - n
    BY ONLY <1>2, i \in DOMAIN r
  <2>2. n + i \in 1 .. Len(s) /\ i \in Nat /\ 0 < i
    BY ONLY <1>1, n \in 0 .. Len(s), <2>1
  <2>3. r[i] = s[n + i]
    BY ONLY <1>1, <2>1
  <2>4. n + i \in DOMAIN s
    BY ONLY <1>2, <2>2
  <2> QED BY ONLY <2>2, <2>3, <2>4
<1>4. Sorted(r)
  <2> SUFFICES ASSUME NEW i \in DOMAIN r, NEW j \in DOMAIN r, i < j PROVE r[i] < r[j]
    BY DEF Sorted
  <2>1. n + i \in DOMAIN s /\ n + j \in DOMAIN s /\ n + i < n + j
    BY <1>1, <1>3
  <2>2. s[n + i] < s[n + j]
    BY <2>1 DEF Sorted
  <2> QED BY <2>2, <1>3
<1>5. Range(r) \subseteq Range(s)
  BY <1>3 DEF Range
<1>6. ASSUME NEW i \in 1 .. n, NEW j \in DOMAIN r PROVE s[i] < r[j]
  <2>1. n + j \in DOMAIN s /\ j \in Nat /\ 0 < j
    BY <1>3
  <2>4. n \in Nat /\ n <= Len(s) /\ i \in Nat /\ 1 <= i /\ i <= n /\ Len(s) \in Nat
    BY <1>1
  <2>5. i \in 1 .. Len(s) /\ i < n + j
    BY ONLY <2>1, <2>4
  <2>3. i \in DOMAIN s /\ i < n + j
    BY ONLY <2>5, <1>2
  <2>2. s[i] < s[n + j]
    BY <2>1, <2>3 DEF Sorted
  <2> QED BY <2>2, <1>3
<1>7. Before(Firsts(s, n), Range(r))
  BY <1>6 DEF Before, Range, Firsts
<1> QED BY <1>4, <1>5, <1>7 DEF r

\* The counts given after a run.
LEMMA GivenAfter ==
    ASSUME NEW P, NEW Q, given \in Seq([at : P, shown : Q]), shown \in Q,
           NEW s \in Seq(P), NEW n \in 0 .. Len(s), given' = Gives(SubSeq(s, 1, n))
    PROVE  /\ GivenCounts' = GivenCounts \cup Firsts(s, n)
           /\ Len(given) \in Nat /\ Len(s) \in Nat /\ DOMAIN s = 1 .. Len(s)
           /\ DOMAIN given = 1 .. Len(given) /\ DOMAIN given' = 1 .. Len(given) + n
           /\ \A i \in 1 .. Len(given) : given'[i].at = given[i].at
           /\ \A i \in DOMAIN given' :
                 i \notin 1 .. Len(given) => /\ i - Len(given) \in 1 .. n
                                             /\ given'[i].at = s[i - Len(given)]
<1>1. /\ Len(given) \in Nat /\ Len(given') = Len(given) + n
      /\ given' \in Seq([at : P, shown : Q])
      /\ \A i \in 1 .. Len(given) : given'[i] = given[i]
      /\ \A i \in 1 .. n : given'[Len(given) + i] = [at |-> s[i], shown |-> shown]
  BY Gave
<1>2. Len(s) \in Nat /\ DOMAIN s = 1 .. Len(s)
  BY LenProperties
<1>3. DOMAIN given = 1 .. Len(given) /\ DOMAIN given' = 1 .. Len(given) + n
  BY ONLY <1>1, LenProperties, given \in Seq([at : P, shown : Q])
<1>4. \A i \in 1 .. Len(given) : given'[i].at = given[i].at
  BY ONLY <1>1
<1>5. \A i \in 1 .. n : given'[Len(given) + i].at = s[i]
  <2> SUFFICES ASSUME NEW i \in 1 .. n PROVE given'[Len(given) + i].at = s[i]
    OBVIOUS
  <2>1. given'[Len(given) + i] = [at |-> s[i], shown |-> shown]
    BY ONLY <1>1, i \in 1 .. n
  <2> QED BY ONLY <2>1
<1>6. \A i \in DOMAIN given' :
          i \notin 1 .. Len(given) => /\ i - Len(given) \in 1 .. n
                                      /\ given'[i].at = s[i - Len(given)]
  <2> SUFFICES ASSUME NEW i \in DOMAIN given', i \notin 1 .. Len(given)
               PROVE  i - Len(given) \in 1 .. n /\ given'[i].at = s[i - Len(given)]
    OBVIOUS
  <2>1. i - Len(given) \in 1 .. n /\ i = Len(given) + (i - Len(given))
    BY ONLY <1>1, <1>2, <1>3, i \in DOMAIN given', i \notin 1 .. Len(given), n \in 0 .. Len(s)
  <2> QED BY ONLY <2>1, <1>5
<1>8. GivenCounts' \subseteq GivenCounts \cup {s[i] : i \in 1 .. n}
  <2> SUFFICES ASSUME NEW i \in DOMAIN given'
               PROVE  given'[i].at \in GivenCounts \cup {s[j] : j \in 1 .. n}
    BY DEF GivenCounts
  <2>1. CASE i \in 1 .. Len(given)
    BY <2>1, <1>3, <1>4 DEF GivenCounts
  <2>2. CASE i \notin 1 .. Len(given)
    BY ONLY <2>2, <1>6, i \in DOMAIN given'
  <2> QED BY <2>1, <2>2
<1>9. GivenCounts \subseteq GivenCounts'
  <2> SUFFICES ASSUME NEW i \in DOMAIN given PROVE given[i].at \in GivenCounts'
    BY DEF GivenCounts
  <2>1. i \in DOMAIN given' /\ given'[i].at = given[i].at
    BY ONLY <1>1, <1>2, <1>3, <1>4, i \in DOMAIN given, n \in 0 .. Len(s)
  <2> QED BY <2>1 DEF GivenCounts
<1>10. {s[i] : i \in 1 .. n} \subseteq GivenCounts'
  <2> SUFFICES ASSUME NEW i \in 1 .. n PROVE s[i] \in GivenCounts'
    OBVIOUS
  <2>1. Len(given) + i \in DOMAIN given' /\ given'[Len(given) + i].at = s[i]
    BY ONLY <1>1, <1>2, <1>3, <1>5, i \in 1 .. n, n \in 0 .. Len(s)
  <2> QED BY <2>1 DEF GivenCounts
<1> QED BY <1>1, <1>2, <1>3, <1>4, <1>6, <1>8, <1>9, <1>10 DEF Firsts

\* A sorted run keeps the answers given in order.
LEMMA OrderGiven ==
    ASSUME NEW P, P \subseteq Int, NEW Q, given \in Seq([at : P, shown : Q]), shown \in Q,
           NEW s \in Seq(P), NEW n \in 0 .. Len(s), given' = Gives(SubSeq(s, 1, n)),
           Increasing, Sorted(s), Before(GivenCounts, Range(s))
    PROVE  Increasing'
<1>1. Len(given) \in Nat
  BY GivenAfter
<1>2. Len(s) \in Nat /\ DOMAIN s = 1 .. Len(s)
  BY LenProperties
<1>3. DOMAIN given = 1 .. Len(given) /\ DOMAIN given' = 1 .. Len(given) + n
  BY GivenAfter
<1>4. \A i \in 1 .. Len(given) : given'[i].at = given[i].at
  BY GivenAfter
<1>6. \A i \in DOMAIN given' :
          i \notin 1 .. Len(given) => /\ i - Len(given) \in 1 .. n
                                      /\ given'[i].at = s[i - Len(given)]
  BY GivenAfter
<1>7. Increasing'
  <2> SUFFICES ASSUME NEW i \in DOMAIN given', NEW j \in DOMAIN given', i < j
               PROVE  given'[i].at < given'[j].at
    BY DEF Increasing
  <2>1. CASE j \in 1 .. Len(given)
    <3>1. i \in DOMAIN given /\ j \in DOMAIN given
      BY ONLY <2>1, <1>1, <1>2, <1>3, i \in DOMAIN given', i < j, n \in 0 .. Len(s)
    <3>2. given[i].at < given[j].at
      BY <3>1 DEF Increasing
    <3> QED BY ONLY <3>1, <3>2, <1>3, <1>4
  <2>2. CASE i \in 1 .. Len(given) /\ j \notin 1 .. Len(given)
    <3>1. i \in DOMAIN given /\ given'[i].at = given[i].at
      BY ONLY <2>2, <1>3, <1>4
    <3>2. j - Len(given) \in 1 .. n /\ given'[j].at = s[j - Len(given)]
      BY ONLY <2>2, <1>6, j \in DOMAIN given'
    <3>3. j - Len(given) \in DOMAIN s
      BY ONLY <3>2, <1>2, n \in 0 .. Len(s)
    <3>4. given[i].at \in GivenCounts /\ s[j - Len(given)] \in Range(s)
      BY <3>1, <3>3 DEF GivenCounts, Range
    <3>5. given[i].at < s[j - Len(given)]
      BY <3>4 DEF Before
    <3> QED BY ONLY <3>1, <3>2, <3>5
  <2>3. CASE i \notin 1 .. Len(given)
    <3>1. j \notin 1 .. Len(given)
      BY ONLY <2>3, <1>1, <1>2, <1>3, i \in DOMAIN given', j \in DOMAIN given', i < j, n \in 0 .. Len(s)
    <3>2. i - Len(given) \in 1 .. n /\ given'[i].at = s[i - Len(given)]
      BY ONLY <2>3, <1>6, i \in DOMAIN given'
    <3>3. j - Len(given) \in 1 .. n /\ given'[j].at = s[j - Len(given)]
      BY ONLY <3>1, <1>6, j \in DOMAIN given'
    <3>4. i - Len(given) \in DOMAIN s /\ j - Len(given) \in DOMAIN s /\ i - Len(given) < j - Len(given)
      BY ONLY <3>2, <3>3, <1>1, <1>2, <1>3, i \in DOMAIN given', j \in DOMAIN given', i < j,
              n \in 0 .. Len(s)
    <3>5. s[i - Len(given)] < s[j - Len(given)]
      BY <3>4 DEF Sorted
    <3> QED BY ONLY <3>2, <3>3, <3>5
  <2> QED BY <2>1, <2>2, <2>3
<1> QED BY <1>7

-----------------------------------------------------------------------------
(***************************************************************************)
(* The order, while one thread dispatches.                                 *)
(***************************************************************************)
LEMMA OrderTypes ==
    ASSUME TypeInv
    PROVE  /\ clock \in Nat /\ clock # 0 /\ Past \subseteq Int /\ \A c \in Past : c < clock
           /\ Seq(Past) \subseteq Seq(Int) /\ Seq(Past) \subseteq Seq(1 .. MaxCount)
           /\ queue \in [Kinds -> Seq(Past)] /\ inbox \in [Kinds -> Seq(Past)]
           /\ mine \in [Passers -> [Kinds -> Seq(Past)]] /\ local \in Seq(Past)
           /\ mineLocal \in [Passers -> Seq(Past)]
           /\ hold \in [Writers -> {<<>>} \cup (Kinds \X Past)]
           /\ \A k \in Kinds : Held(k) \subseteq Past
           /\ GivenCounts \subseteq Past
           /\ \A p \in Passers : written[p] \in Int /\ written[p] <= clock
<1>1. WriteTypes /\ PassTypes
  BY DEF TypeInv
<1>2. /\ clock \in Nat /\ clock # 0 /\ Past \subseteq Int /\ Past \subseteq 1 .. MaxCount
      /\ \A c \in Past : c < clock
  BY <1>1, AnswerOrderAssumption DEF WriteTypes, Past
<1>3. Seq(Past) \subseteq Seq(Int) /\ Seq(Past) \subseteq Seq(1 .. MaxCount)
  BY ONLY <1>2, SeqWiden
<1>4. hold \in [Writers -> {<<>>} \cup (Kinds \X Past)]
  BY <1>1 DEF WriteTypes
<1>5. \A k \in Kinds : Held(k) \subseteq Past
  BY ONLY <1>4 DEF Held
<1>6. GivenCounts \subseteq Past
  <2> DEFINE R == [at : Past, shown : 0 .. state]
  <2>1. given \in Seq(R)
    BY <1>1 DEF PassTypes
  <2>2. \A i \in DOMAIN given : given[i] \in R
    <3> HIDE DEF R
    <3> QED BY ONLY <2>1, LenProperties
  <2> QED BY ONLY <2>2 DEF GivenCounts
<1>7. \A p \in Passers : written[p] \in Int /\ written[p] <= clock
  BY ONLY <1>1, <1>2 DEF PassTypes
<1> QED BY ONLY <1>1, <1>2, <1>3, <1>4, <1>5, <1>6, <1>7 DEF WriteTypes, PassTypes

LEMMA HeldCount ==
    ASSUME NEW w \in Writers, NEW k, NEW c, DOMAIN hold = Writers,
           hold' = [hold EXCEPT ![w] = <<k, c>>]
    PROVE  \A j \in Kinds : Held(j)' \subseteq Held(j) \cup (IF j = k THEN {c} ELSE {})
<1> SUFFICES ASSUME NEW j \in Kinds, NEW v \in Writers, hold'[v] # <<>>, hold'[v][1] = j
             PROVE  hold'[v][2] \in Held(j) \cup (IF j = k THEN {c} ELSE {})
  BY DEF Held
<1>1. CASE v = w
  BY <1>1
<1>2. CASE v # w
  <2>1. hold'[v] = hold[v]
    BY <1>2
  <2> QED BY <2>1 DEF Held
<1> QED BY <1>1, <1>2

LEMMA OrderCount ==
    ASSUME TypeInv, NEW p \in Passers, Ordered(p), NEW w \in Writers, NEW k \in Kinds, Count(w, k)
    PROVE  Ordered(p)'
<1>1. /\ hold' = [hold EXCEPT ![w] = <<k, clock>>] /\ ~Locked(k)
      /\ UNCHANGED <<queue, local, stamp, inbox, ppc, mine, mineAt, mineLocal, written, todo, given>>
  BY DEF Count, passVars
<1>2. /\ clock \in Nat /\ Past \subseteq Int /\ \A c \in Past : c < clock
      /\ queue \in [Kinds -> Seq(Past)] /\ inbox \in [Kinds -> Seq(Past)]
      /\ mine \in [Passers -> [Kinds -> Seq(Past)]]
      /\ hold \in [Writers -> {<<>>} \cup (Kinds \X Past)]
      /\ GivenCounts \subseteq Past /\ written[p] <= clock
  BY OrderTypes
<1>3. \A j \in Kinds : Held(j)' \subseteq Held(j) \cup (IF j = k THEN {clock} ELSE {})
  BY ONLY <1>1, <1>2, HeldCount, w \in Writers
<1>4. \A j \in Kinds : Range(queue[j]) \subseteq Past /\ Range(inbox[j]) \subseteq Past
                       /\ Range(mine[p][j]) \subseteq Past
  BY ONLY <1>2, RangeType, p \in Passers
<1>5. OneWriter'
  <2>1. \A v \in Writers : hold[v] # <<>> => hold[v][1] # k
    BY <1>1 DEF Locked
  <2>2. \A v \in Writers : v # w => hold'[v] = hold[v]
    BY ONLY <1>1, <1>2
  <2>3. hold'[w] = <<k, clock>>
    BY ONLY <1>1, <1>2, w \in Writers
  <2>4. OneWriter
    BY DEF Ordered
  <2> QED BY ONLY <2>1, <2>2, <2>3, <2>4 DEF OneWriter
<1>6. ASSUME NEW j \in Kinds PROVE KindInv(p, j)'
  <2>1. KindInv(p, j)
    BY DEF Ordered
  <2>2. /\ Before(Range(inbox[j]), Held(j)') /\ Before(Range(mine[p][j]), Held(j)')
        /\ Before(Range(queue[j]), Held(j)')
    BY ONLY <2>1, <1>2, <1>3, <1>4, j \in Kinds DEF KindInv, Before
  <2>3. From(written[p], Range(queue[j]) \cup Held(j)) =>
        From(written[p], Range(queue[j]) \cup Held(j)')
    BY ONLY <1>2, <1>3, j \in Kinds DEF From
  <2> QED BY ONLY <1>1, <2>1, <2>2, <2>3 DEF KindInv, Taken
<1>7. OwnInv(p)'
  BY ONLY <1>1, Ordered(p) DEF Ordered, OwnInv
<1>8. GivenInv(p)'
  <2>1. GivenInv(p)
    BY DEF Ordered
  <2>2. ASSUME NEW j \in Kinds PROVE Before(GivenCounts, Box(p, j)')
    <3>1. Box(p, j)' \subseteq Box(p, j) \cup {clock}
      BY ONLY <1>1, <1>3 DEF Box
    <3> QED BY ONLY <2>1, <3>1, <1>2, j \in Kinds DEF GivenInv, Before
  <2> QED BY ONLY <1>1, <2>1, <2>2 DEF GivenInv, GivenCounts, Increasing, Own
<1> QED BY ONLY <1>1, <1>5, <1>6, <1>7, <1>8, Ordered(p) DEF Ordered

LEMMA OrderPush ==
    ASSUME TypeInv, NEW p \in Passers, Ordered(p), NEW w \in Writers, Push(w)
    PROVE  Ordered(p)'
<1>1. /\ hold[w] # <<>>
      /\ queue' = [queue EXCEPT ![hold[w][1]] = Append(@, hold[w][2])]
      /\ hold' = [hold EXCEPT ![w] = <<>>]
      /\ UNCHANGED <<local, stamp, inbox, ppc, mine, mineAt, mineLocal, written, todo, given>>
  BY DEF Push, passVars
<1>2. /\ Past \subseteq Int /\ queue \in [Kinds -> Seq(Past)] /\ Seq(Past) \subseteq Seq(Int)
      /\ hold \in [Writers -> {<<>>} \cup (Kinds \X Past)]
  BY OrderTypes
<1>3. PICK k \in Kinds, c \in Past : hold[w] = <<k, c>>
  <2>1. hold[w] \in Kinds \X Past
    BY ONLY <1>1, <1>2, w \in Writers
  <2> QED BY ONLY <2>1
<1>4. /\ c \in Held(k)
      /\ \A j \in Kinds : Held(j)' \subseteq Held(j)
      /\ Held(k)' = {}
  <2>1. c \in Held(k)
    <3>1. hold[w] # <<>> /\ hold[w][1] = k /\ hold[w][2] = c
      BY ONLY <1>1, <1>3
    <3> QED BY ONLY <3>1, w \in Writers DEF Held
  <2>2. \A v \in Writers : hold'[v] # <<>> => v # w /\ hold'[v] = hold[v]
    BY ONLY <1>1, <1>2
  <2>3. \A j \in Kinds : Held(j)' \subseteq Held(j)
    BY ONLY <2>2 DEF Held
  <2>4. \A v \in Writers : hold'[v] # <<>> => hold'[v][1] # k
    <3>1. hold[w][1] = k
      BY ONLY <1>3
    <3> QED BY ONLY <2>2, <3>1, <1>1, Ordered(p), w \in Writers DEF Ordered, OneWriter
  <2>5. Held(k)' = {}
    BY ONLY <2>4 DEF Held
  <2> QED BY <2>1, <2>3, <2>5
<1>5. OneWriter'
  <2>1. \A v \in Writers : hold'[v] # <<>> => hold'[v] = hold[v]
    BY ONLY <1>1, <1>2
  <2>2. OneWriter
    BY DEF Ordered
  <2> QED BY ONLY <2>1, <2>2 DEF OneWriter
<1>6. queue'[k] = Append(queue[k], c) /\ \A j \in Kinds : j # k => queue'[j] = queue[j]
  BY ONLY <1>1, <1>2, <1>3
<1>7. Range(queue'[k]) = Range(queue[k]) \cup {c}
  BY ONLY <1>2, <1>3, <1>6, RangeAppend
<1>8. ASSUME NEW j \in Kinds PROVE KindInv(p, j)'
  <2>1. KindInv(p, j)
    BY DEF Ordered
  <2>2. CASE j # k
    <3>1. queue'[j] = queue[j] /\ Held(j)' \subseteq Held(j)
      BY ONLY <1>4, <1>6, <2>2, j \in Kinds
    <3>2. From(written[p], Range(queue[j]) \cup Held(j)) =>
          From(written[p], Range(queue[j]) \cup Held(j)')
      BY ONLY <3>1 DEF From
    <3> QED BY ONLY <1>1, <2>1, <3>1, <3>2 DEF KindInv, Taken, Before
  <2>3. CASE j = k
    <3>1. Sorted(queue'[j])
      <4>1. \A a \in Range(queue[j]) : a < c
        BY ONLY <2>1, <1>4, <2>3 DEF KindInv, Before
      <4>2. queue[j] \in Seq(Int) /\ c \in Int /\ Sorted(queue[j])
        BY ONLY <1>2, <1>3, <2>1, j \in Kinds DEF KindInv
      <4> QED BY ONLY <4>1, <4>2, <1>6, <2>3, SortedAppend
    <3>2. /\ Before(Range(inbox[j]), Range(queue'[j]))
          /\ Before(Range(mine[p][j]), Range(queue'[j]))
      BY ONLY <2>1, <1>4, <1>7, <2>3 DEF KindInv, Before
    <3>3. /\ Before(Range(inbox[j]), Held(j)') /\ Before(Range(mine[p][j]), Held(j)')
          /\ Before(Range(queue'[j]), Held(j)')
      BY ONLY <1>4, <2>3 DEF Before
    <3>4. From(written[p], Range(queue[j]) \cup Held(j)) =>
          From(written[p], Range(queue'[j]) \cup Held(j)')
      BY ONLY <1>4, <1>7, <2>3 DEF From
    <3> QED BY ONLY <1>1, <2>1, <3>1, <3>2, <3>3, <3>4 DEF KindInv, Taken
  <2> QED BY <2>2, <2>3
<1>9. OwnInv(p)'
  BY ONLY <1>1, Ordered(p) DEF Ordered, OwnInv
<1>10. GivenInv(p)'
  <2>1. GivenInv(p)
    BY DEF Ordered
  <2>2. ASSUME NEW j \in Kinds PROVE Before(GivenCounts, Box(p, j)')
    <3>1. Box(p, j)' \subseteq Box(p, j)
      <4>1. Range(queue'[j]) \subseteq Range(queue[j]) \cup Held(j)
        BY ONLY <1>4, <1>6, <1>7, j \in Kinds
      <4> QED BY ONLY <1>1, <1>4, <4>1, j \in Kinds DEF Box
    <3> QED BY ONLY <2>1, <3>1, j \in Kinds DEF GivenInv, Before
  <2> QED BY ONLY <1>1, <2>1, <2>2 DEF GivenInv, GivenCounts, Increasing, Own
<1> QED BY ONLY <1>1, <1>5, <1>8, <1>9, <1>10, Ordered(p) DEF Ordered

\* The pass makes an answer of its own: behind all that came before it.
LEMMA OrderLaterHere ==
    ASSUME TypeInv, NEW p \in Passers, Ordered(p), LaterHere(p)
    PROVE  Ordered(p)'
<1>1. /\ ppc[p] \in {"idle", "give"} /\ local' = Append(local, clock)
      /\ UNCHANGED <<queue, hold, stamp, inbox, ppc, mine, mineAt, mineLocal, written, todo, given>>
  BY DEF LaterHere, passVars
<1>2. /\ clock \in Nat /\ Past \subseteq Int /\ \A c \in Past : c < clock
      /\ Seq(Past) \subseteq Seq(Int) /\ local \in Seq(Past) /\ mineLocal[p] \in Seq(Past)
      /\ GivenCounts \subseteq Past /\ written[p] <= clock
  BY OrderTypes
<1>3. Range(local) \subseteq Past /\ Range(mineLocal[p]) \subseteq Past
  BY ONLY <1>2, RangeType
<1>4. Range(local') = Range(local) \cup {clock}
  BY ONLY <1>1, <1>2, RangeAppend
<1>5. Sorted(local')
  <2>1. Sorted(local)
    BY DEF Ordered, OwnInv
  <2>2. local \in Seq(Int) /\ clock \in Int /\ \A a \in Range(local) : a < clock
    <3>1. local \in Seq(Int) /\ \A a \in Range(local) : a < clock
      BY ONLY <1>2, <1>3, Zenon
    <3>2. clock \in Int
      BY ONLY <1>2
    <3> QED BY <3>1, <3>2
  <2> QED BY ONLY <2>1, <2>2, <1>1, SortedAppend
<1>6. OwnInv(p)'
  <2>1. OwnInv(p)
    BY DEF Ordered
  <2>2. Before(Range(mineLocal[p]), Range(local'))
    BY ONLY <2>1, <1>2, <1>3, <1>4 DEF OwnInv, Before
  <2>3. ppc[p] = "give" => From(written[p], Range(local'))
    BY ONLY <2>1, <1>2, <1>4 DEF OwnInv, From
  <2> QED BY ONLY <1>1, <2>1, <2>2, <2>3, <1>5 DEF OwnInv
<1>7. GivenInv(p)'
  <2>1. GivenInv(p)
    BY DEF Ordered
  <2>2. Own(p)' \subseteq Own(p) \cup {clock}
    BY ONLY <1>1, <1>4 DEF Own
  <2>3. Before(GivenCounts, Own(p)')
    BY ONLY <2>1, <2>2, <1>2 DEF GivenInv, Before
  <2> QED BY ONLY <1>1, <2>1, <2>3 DEF GivenInv, GivenCounts, Increasing, Box, Held
<1>8. ASSUME NEW k \in Kinds PROVE KindInv(p, k)'
  <2>1. KindInv(p, k)
    BY DEF Ordered
  <2>2. Held(k)' = Held(k) /\ (Taken(p, k)' <=> Taken(p, k))
    BY ONLY <1>1 DEF Held, Taken
  <2> QED BY ONLY <1>1, <2>1, <2>2 DEF KindInv
<1> QED BY ONLY <1>1, <1>6, <1>7, <1>8, Ordered(p) DEF Ordered, OneWriter

\* A step that moves no answer, and takes the pass on.
LEMMA OrderPlain ==
    ASSUME NEW p, Ordered(p),
           UNCHANGED <<queue, hold, local, stamp, inbox, mine, mineAt, mineLocal, written, todo, given>>,
           \/ ppc'[p] = ppc[p]
           \/ ppc[p] = "take" /\ todo[p] = {} /\ ppc'[p] = "give"
           \/ ppc[p] \in {"give", "read"} /\ ppc'[p] \in {"give", "read"}
           \/ ppc'[p] \in {"idle", "lastRead", "end", "close"}
    PROVE  Ordered(p)'
<1>1. ASSUME NEW k \in Kinds PROVE KindInv(p, k)'
  <2>1. KindInv(p, k)
    BY DEF Ordered
  <2>2. Held(k)' = Held(k)
    BY DEF Held
  <2>3. ppc'[p] \in {"clock", "take", "give", "read"} => ppc[p] \in {"clock", "take", "give", "read"}
    OBVIOUS
  <2>4. Taken(p, k)' => Taken(p, k)
    BY DEF Taken
  <2> QED BY <2>1, <2>2, <2>3, <2>4 DEF KindInv
<1>2. OwnInv(p)'
  <2>1. OwnInv(p)
    BY DEF Ordered
  <2>2. ppc'[p] \in {"inbox", "clock", "take"} => ppc'[p] = ppc[p]
    OBVIOUS
  <2>3. ppc'[p] \in {"give", "read"} => From(written[p], Range(local))
    <3>1. CASE ppc[p] = "take"
      <4>1. local = <<>>
        BY <3>1, <2>1 DEF OwnInv
      <4> QED BY <4>1, RangeEmpty DEF From
    <3>2. CASE ppc[p] # "take"
      BY <3>2, <2>1 DEF OwnInv
    <3> QED BY <3>1, <3>2
  <2> QED BY <2>1, <2>2, <2>3 DEF OwnInv
<1>3. GivenInv(p)' /\ OneWriter'
  BY DEF Ordered, GivenInv, GivenCounts, Increasing, Box, Held, Own, OneWriter
<1> QED BY <1>1, <1>2, <1>3 DEF Ordered

LEMMA OrderTakeLocal ==
    ASSUME TypeInv, NEW p \in Passers, Ordered(p), TakeLocal(p)
    PROVE  Ordered(p)'
<1>1. /\ UNCHANGED <<queue, hold, stamp, inbox, mine, mineAt, written, todo, given>>
      /\ mineLocal' = [mineLocal EXCEPT ![p] = local] /\ local' = <<>>
      /\ ppc' = [ppc EXCEPT ![p] = "inbox"] /\ ppc[p] = "idle"
  BY DEF TakeLocal
<1>2. mineLocal'[p] = local /\ ppc'[p] = "inbox"
  BY ONLY <1>1, TypeInv, p \in Passers DEF TypeInv, PassTypes
<1>3. ASSUME NEW k \in Kinds PROVE KindInv(p, k)'
  BY ONLY <1>1, <1>2, Ordered(p), k \in Kinds DEF Ordered, KindInv, Held, Taken
<1>4. OwnInv(p)'
  <2>1. OwnInv(p)
    BY DEF Ordered
  <2>2. Before(Range(mineLocal'[p]), Range(local'))
    BY ONLY <1>1, RangeEmpty DEF Before
  <2>3. Sorted(local') /\ Sorted(mineLocal'[p])
    BY ONLY <1>1, <1>2, <2>1, SortedEmpty DEF OwnInv
  <2> QED BY ONLY <1>1, <1>2, <2>2, <2>3 DEF OwnInv
<1>5. GivenInv(p)'
  <2>1. GivenInv(p)
    BY DEF Ordered
  <2>2. Own(p)' \subseteq Own(p)
    BY ONLY <1>1, <1>2, RangeEmpty DEF Own
  <2>3. Before(GivenCounts, Own(p)')
    BY ONLY <2>1, <2>2 DEF GivenInv, Before
  <2> QED BY ONLY <1>1, <2>1, <2>3 DEF GivenInv, GivenCounts, Increasing, Box, Held
<1> QED BY ONLY <1>1, <1>3, <1>4, <1>5, Ordered(p) DEF Ordered, OneWriter

LEMMA OrderTakeInbox ==
    ASSUME TypeInv, NEW p \in Passers, Ordered(p), TakeInbox(p)
    PROVE  Ordered(p)'
<1>1. /\ UNCHANGED <<queue, hold, local, stamp, mineLocal, written, todo, given>>
      /\ mine' = [mine EXCEPT ![p] = inbox] /\ inbox' = NoAnswers
      /\ mineAt' = [mineAt EXCEPT ![p] = takenAt]
      /\ ppc' = [ppc EXCEPT ![p] = "clock"] /\ ppc[p] = "inbox"
  BY DEF TakeInbox, writeVars
<1>2. mine'[p] = inbox /\ ppc'[p] = "clock" /\ mineAt'[p] = 0
  BY ONLY <1>1, TypeInv, p \in Passers DEF TypeInv, PassTypes
<1>3. \A k \in Kinds : inbox'[k] = <<>> /\ Range(inbox'[k]) = {}
  BY ONLY <1>1, RangeEmpty DEF NoAnswers
<1>4. ASSUME NEW k \in Kinds PROVE KindInv(p, k)'
  <2>1. KindInv(p, k)
    BY DEF Ordered
  <2>2. Sorted(inbox'[k]) /\ Sorted(mine'[p][k]) /\ mine'[p][k] = inbox[k]
    BY ONLY <1>2, <1>3, <2>1, SortedEmpty, k \in Kinds DEF KindInv
  <2>3. Held(k)' = Held(k) /\ queue'[k] = queue[k]
    BY ONLY <1>1 DEF Held
  <2>4. Before(Range(inbox'[k]), Range(queue[k])) /\ Before(Range(inbox'[k]), Held(k))
    BY ONLY <1>3, k \in Kinds DEF Before
  <2>5. ~Taken(p, k)'
    BY ONLY <1>2 DEF Taken
  <2> QED BY ONLY <2>1, <2>2, <2>3, <2>4, <2>5, <1>3, k \in Kinds DEF KindInv
<1>5. OwnInv(p)'
  BY ONLY <1>1, <1>2, Ordered(p) DEF Ordered, OwnInv
<1>6. GivenInv(p)'
  <2>1. GivenInv(p)
    BY DEF Ordered
  <2>2. ASSUME NEW k \in Kinds PROVE Before(GivenCounts, Box(p, k)')
    <3>1. Box(p, k)' \subseteq Box(p, k)
      BY ONLY <1>1, <1>2, <1>3, k \in Kinds DEF Box, Held
    <3> QED BY ONLY <2>1, <3>1, k \in Kinds DEF GivenInv, Before
  <2> QED BY ONLY <1>1, <2>1, <2>2 DEF GivenInv, GivenCounts, Increasing, Own
<1> QED BY ONLY <1>1, <1>4, <1>5, <1>6, Ordered(p) DEF Ordered, OneWriter

LEMMA OrderReadClock ==
    ASSUME TypeInv, NEW p \in Passers, Ordered(p), ReadClock(p)
    PROVE  Ordered(p)'
<1>1. /\ UNCHANGED <<queue, hold, local, stamp, inbox, mine, mineLocal, given>>
      /\ todo' = [todo EXCEPT ![p] = IF clock # mineAt[p] THEN Kinds ELSE {}]
      /\ ppc' = [ppc EXCEPT ![p] = "take"] /\ ppc[p] = "clock"
  BY DEF ReadClock, writeVars
<1>2. mineAt[p] = 0 /\ clock # 0
  BY <1>1, OrderTypes DEF Ordered, OwnInv
<1>3. todo'[p] = Kinds /\ ppc'[p] = "take"
  BY ONLY <1>1, <1>2, TypeInv, p \in Passers DEF TypeInv, PassTypes
<1>4. ASSUME NEW k \in Kinds PROVE KindInv(p, k)'
  <2>1. ~Taken(p, k)'
    BY ONLY <1>3, k \in Kinds DEF Taken
  <2> QED BY ONLY <1>1, <2>1, Ordered(p), k \in Kinds DEF Ordered, KindInv, Held
<1>5. OwnInv(p)'
  BY ONLY <1>1, <1>3, Ordered(p) DEF Ordered, OwnInv
<1> QED BY ONLY <1>1, <1>4, <1>5, Ordered(p)
        DEF Ordered, OneWriter, GivenInv, GivenCounts, Increasing, Box, Held, Own

LEMMA OrderTakeQueue ==
    ASSUME TypeInv, NEW p \in Passers, Ordered(p), NEW k \in Kinds, TakeQueue(p, k)
    PROVE  Ordered(p)'
<1>1. /\ UNCHANGED <<hold, local, stamp, inbox, ppc, mineAt, mineLocal, written, given>>
      /\ mine' = [mine EXCEPT ![p][k] = @ \o queue[k]]
      /\ queue' = [queue EXCEPT ![k] = <<>>]
      /\ todo' = [todo EXCEPT ![p] = @ \ {k}]
      /\ ppc[p] = "take" /\ ~Locked(k)
  BY DEF TakeQueue
<1>2. /\ queue \in [Kinds -> Seq(Past)] /\ mine \in [Passers -> [Kinds -> Seq(Past)]]
      /\ Seq(Past) \subseteq Seq(Int)
  BY OrderTypes
<1>3. /\ mine'[p][k] = mine[p][k] \o queue[k] /\ queue'[k] = <<>>
      /\ \A j \in Kinds : j # k => mine'[p][j] = mine[p][j] /\ queue'[j] = queue[j]
      /\ todo'[p] = todo[p] \ {k}
  BY ONLY <1>1, <1>2, TypeInv, p \in Passers, k \in Kinds DEF TypeInv, PassTypes
<1>4. /\ \A j \in Kinds : Held(j)' = Held(j)
      /\ Held(k) = {}
  BY ONLY <1>1 DEF Held, Locked
<1>5. Range(mine'[p][k]) = Range(mine[p][k]) \cup Range(queue[k]) /\ Range(queue'[k]) = {}
  BY ONLY <1>2, <1>3, RangeConcat, RangeEmpty, p \in Passers, k \in Kinds
<1>6. ASSUME NEW j \in Kinds PROVE KindInv(p, j)'
  <2>1. KindInv(p, j)
    BY DEF Ordered
  <2>2. CASE j # k
    <3>1. mine'[p][j] = mine[p][j] /\ queue'[j] = queue[j] /\ Held(j)' = Held(j)
      BY ONLY <1>3, <1>4, <2>2, j \in Kinds
    <3>2. Taken(p, j)' => Taken(p, j)
      BY ONLY <1>1, <1>3, <2>2 DEF Taken
    <3> QED BY ONLY <1>1, <2>1, <3>1, <3>2 DEF KindInv
  <2>3. CASE j = k
    <3>1. Sorted(mine'[p][j])
      <4>1. /\ Sorted(mine[p][j]) /\ Sorted(queue[j]) /\ Before(Range(mine[p][j]), Range(queue[j]))
            /\ mine[p][j] \in Seq(Int) /\ queue[j] \in Seq(Int)
        BY ONLY <2>1, <1>2, p \in Passers, j \in Kinds DEF KindInv
      <4>2. Sorted(mine[p][j] \o queue[j])
        BY ONLY <4>1, SortedConcat
      <4> QED BY ONLY <4>2, <1>3, <2>3
    <3>2. Sorted(queue'[j])
      BY ONLY <1>3, <2>3, SortedEmpty
    <3>3. /\ Before(Range(inbox[j]), Range(queue'[j]))
          /\ Before(Range(mine'[p][j]), Range(queue'[j]))
          /\ Before(Range(inbox[j]), Held(j)') /\ Before(Range(mine'[p][j]), Held(j)')
          /\ Before(Range(queue'[j]), Held(j)')
          /\ From(written[p], Range(queue'[j]) \cup Held(j)')
      BY ONLY <1>4, <1>5, <2>3, k \in Kinds DEF Before, From
    <3> QED BY ONLY <1>1, <2>1, <3>1, <3>2, <3>3 DEF KindInv
  <2> QED BY <2>2, <2>3
<1>7. OwnInv(p)'
  BY ONLY <1>1, Ordered(p) DEF Ordered, OwnInv
<1>8. GivenInv(p)'
  <2>1. GivenInv(p)
    BY DEF Ordered
  <2>2. ASSUME NEW j \in Kinds PROVE Before(GivenCounts, Box(p, j)')
    <3>1. Box(p, j)' \subseteq Box(p, j)
      <4>1. CASE j = k
        BY ONLY <4>1, <1>1, <1>4, <1>5, j \in Kinds DEF Box
      <4>2. CASE j # k
        BY ONLY <4>2, <1>1, <1>3, <1>4, j \in Kinds DEF Box
      <4> QED BY <4>1, <4>2
    <3> QED BY ONLY <2>1, <3>1, j \in Kinds DEF GivenInv, Before
  <2> QED BY ONLY <1>1, <2>1, <2>2 DEF GivenInv, GivenCounts, Increasing, Own
<1> QED BY ONLY <1>1, <1>6, <1>7, <1>8, Ordered(p) DEF Ordered, OneWriter

\* A run of a kind: what is left, of every kind and of the own answers, is
\* behind it.
LEMMA OrderGiveQueue ==
    ASSUME TypeInv, NEW p \in Passers, Ordered(p), NEW k \in Kinds, GiveQueue(p, k)
    PROVE  Ordered(p)'
<1>1. /\ UNCHANGED <<queue, hold, local, stamp, inbox, ppc, mineAt, mineLocal, written, todo, shown>>
      /\ ppc[p] = "give"
  BY DEF GiveQueue, writeVars
<1>2. TypeOK
  BY TypeInvImplies
<1>3. PICK n \in Nat : QueueRun(p, k, n)
  BY <1>2, QueueRuns
<1>4. /\ Past \subseteq Int /\ Seq(Past) \subseteq Seq(Int) /\ Seq(Past) \subseteq Seq(1 .. MaxCount)
      /\ mine \in [Passers -> [Kinds -> Seq(Past)]] /\ mineLocal[p] \in Seq(Past)
      /\ local \in Seq(Past) /\ queue \in [Kinds -> Seq(Past)]
      /\ \A j \in Kinds : Held(j) \subseteq Past
      /\ written[p] \in Int
  BY OrderTypes
<1> DEFINE s == mine[p][k]
           r == SubSeq(s, n + 1, Len(s))
           G == Firsts(s, n)
           u == QueueUntil(p, k)
<1>5. /\ n \in 0 .. Len(s) /\ \A i \in 1 .. n : s[i] < u
      /\ given' = Gives(SubSeq(s, 1, n))
      /\ mine' = [mine EXCEPT ![p][k] = r]
  BY <1>3 DEF QueueRun
<1>6. s \in Seq(Past) /\ s \in Seq(Int) /\ Sorted(s) /\ Before(GivenCounts, Range(s)) /\ Increasing
  BY <1>4 DEF Ordered, KindInv, GivenInv, Before, Box
<1>7. mine'[p][k] = r /\ \A j \in Kinds : j # k => mine'[p][j] = mine[p][j]
  BY ONLY <1>4, <1>5, p \in Passers, k \in Kinds
<1>8. Sorted(r) /\ Range(r) \subseteq Range(s) /\ Before(G, Range(r))
  BY ONLY <1>5, <1>6, RestSorted
<1>9. given \in Seq([at : Past, shown : 0 .. state]) /\ shown \in 0 .. state
  BY DEF TypeInv, PassTypes
<1>10. Increasing'
  BY ONLY <1>4, <1>5, <1>6, <1>9, OrderGiven
<1>11. GivenCounts' = GivenCounts \cup G
  BY ONLY <1>5, <1>6, <1>9, GivenAfter
<1>12. /\ u \in Nat /\ u <= FirstOf(p, Kinds \ {k}) /\ u <= First(mineLocal[p]) /\ u <= written[p]
       /\ FirstOf(p, Kinds \ {k}) \in Nat /\ First(mineLocal[p]) \in Nat
       /\ \A j \in Kinds \ {k} : /\ FirstOf(p, Kinds \ {k}) <= First(mine[p][j])
                                 /\ First(mine[p][j]) \in Nat
  <2>1. u \in Nat /\ u <= FirstOf(p, Kinds \ {k}) /\ u <= First(mineLocal[p]) /\ u <= written[p]
    BY <1>2, QueueUntilProps
  <2>2. /\ FirstOf(p, Kinds \ {k}) \in Nat
        /\ \A j \in Kinds \ {k} : FirstOf(p, Kinds \ {k}) <= First(mine[p][j])
    BY <1>2, FirstOfProps
  <2>3. First(mineLocal[p]) \in Nat /\ \A j \in Kinds \ {k} : First(mine[p][j]) \in Nat
    BY <1>4, FirstProps
  <2> QED BY <2>1, <2>2, <2>3
<1> HIDE DEF s, r, G, u
<1>13. \A g \in G : g \in Int /\ g < u
  <2>1. \A i \in 1 .. n : s[i] \in Int
    <3>1. Len(s) \in Nat /\ s \in [1 .. Len(s) -> Int]
      BY <1>6, LenProperties
    <3> QED BY ONLY <3>1, <1>5
  <2> QED BY <2>1, <1>5 DEF G, Firsts
<1>14. \A b \in Int : u <= b => \A g \in G : g < b
  BY ONLY <1>12, <1>13
<1>15. ASSUME NEW j \in Kinds, NEW b \in Box(p, j)', NEW g \in G PROVE g < b
  <2>1. KindInv(p, j)
    BY DEF Ordered
  <2>2. CASE b \in Range(queue[j]) \cup Held(j)
    <3>1. written[p] <= b
      BY ONLY <2>1, <2>2, <1>1 DEF KindInv, Taken, From
    <3>2. b \in Int
      BY ONLY <2>2, <1>4, RangeType, j \in Kinds
    <3> QED BY ONLY <3>1, <3>2, <1>4, <1>12, <1>14, g \in G
  <2>3. CASE b \in Range(mine'[p][j]) /\ j = k
    BY ONLY <2>3, <1>7, <1>8, g \in G DEF Before
  <2>4. CASE b \in Range(mine'[p][j]) /\ j # k
    <3>1. b \in Range(mine[p][j]) /\ mine[p][j] \in Seq(1 .. MaxCount) /\ mine[p][j] \in Seq(Int)
      BY ONLY <2>4, <1>7, <1>4, p \in Passers, j \in Kinds
    <3>2. First(mine[p][j]) <= b
      BY ONLY <3>1, <2>1, FirstLeast DEF KindInv
    <3>3. b \in Int
      BY ONLY <3>1, RangeType
    <3>4. u <= b
      BY ONLY <3>2, <3>3, <1>12, <2>4, j \in Kinds
    <3> QED BY ONLY <3>3, <3>4, <1>14, g \in G
  <2>5. inbox[j] = <<>>
    BY ONLY <2>1, <1>1 DEF KindInv
  <2>6. b \in Range(queue[j]) \cup Held(j) \cup Range(mine'[p][j])
    BY ONLY <2>5, <1>1, RangeEmpty, b \in Box(p, j)' DEF Box, Held
  <2> QED BY <2>2, <2>3, <2>4, <2>6
<1>16. ASSUME NEW b \in Own(p)', NEW g \in G PROVE g < b
  <2>1. OwnInv(p)
    BY DEF Ordered
  <2>2. CASE b \in Range(local)
    <3>1. written[p] <= b
      BY ONLY <2>1, <2>2, <1>1 DEF OwnInv, From
    <3>2. b \in Int
      BY ONLY <2>2, <1>4, RangeType
    <3> QED BY ONLY <3>1, <3>2, <1>4, <1>12, <1>14, g \in G
  <2>3. CASE b \in Range(mineLocal[p])
    <3>1. First(mineLocal[p]) <= b
      BY ONLY <2>1, <2>3, <1>4, FirstLeast DEF OwnInv
    <3>2. b \in Int
      BY ONLY <2>3, <1>4, RangeType
    <3>3. u <= b
      BY ONLY <3>1, <3>2, <1>12
    <3> QED BY ONLY <3>2, <3>3, <1>14, g \in G
  <2> QED BY ONLY <2>2, <2>3, <1>1, b \in Own(p)' DEF Own
<1>17. \A j \in Kinds : Range(mine'[p][j]) \subseteq Range(mine[p][j]) /\ Sorted(mine'[p][j])
  <2> SUFFICES ASSUME NEW j \in Kinds
               PROVE  Range(mine'[p][j]) \subseteq Range(mine[p][j]) /\ Sorted(mine'[p][j])
    OBVIOUS
  <2>1. CASE j = k
    BY ONLY <2>1, <1>7, <1>8 DEF s
  <2>2. CASE j # k
    BY <2>2, <1>7 DEF Ordered, KindInv
  <2> QED BY <2>1, <2>2
<1>18. ASSUME NEW j \in Kinds PROVE KindInv(p, j)'
  <2>1. KindInv(p, j)
    BY DEF Ordered
  <2>2. Held(j)' = Held(j) /\ (Taken(p, j)' <=> Taken(p, j))
    BY ONLY <1>1 DEF Held, Taken
  <2>3. Before(Range(mine'[p][j]), Range(queue[j])) /\ Before(Range(mine'[p][j]), Held(j))
    BY ONLY <2>1, <1>17, j \in Kinds DEF KindInv, Before
  <2> QED BY ONLY <1>1, <2>1, <2>2, <2>3, <1>17, j \in Kinds DEF KindInv
<1>19. GivenInv(p)'
  <2>1. GivenInv(p)
    BY DEF Ordered
  <2>2. ASSUME NEW j \in Kinds PROVE Before(GivenCounts', Box(p, j)')
    <3>1. Box(p, j)' \subseteq Box(p, j)
      BY ONLY <1>1, <1>17, j \in Kinds DEF Box, Held
    <3> QED BY ONLY <2>1, <3>1, <1>11, <1>15, j \in Kinds DEF GivenInv, Before
  <2>3. Before(GivenCounts', Own(p)')
    <3>1. Own(p)' = Own(p)
      BY ONLY <1>1 DEF Own
    <3> QED BY ONLY <2>1, <3>1, <1>11, <1>16 DEF GivenInv, Before
  <2> QED BY ONLY <2>2, <2>3, <1>10 DEF GivenInv
<1>20. OwnInv(p)'
  BY ONLY <1>1, Ordered(p) DEF Ordered, OwnInv
<1> QED BY ONLY <1>1, <1>18, <1>19, <1>20, Ordered(p) DEF Ordered, OneWriter

LEMMA OrderGiveLocal ==
    ASSUME TypeInv, NEW p \in Passers, Ordered(p), GiveLocal(p)
    PROVE  Ordered(p)'
<1>1. /\ UNCHANGED <<queue, hold, local, stamp, inbox, ppc, mine, mineAt, written, todo, shown>>
      /\ ppc[p] = "give"
  BY DEF GiveLocal, writeVars
<1>2. TypeOK
  BY TypeInvImplies
<1>3. PICK n \in Nat : OwnRun(p, n)
  BY <1>2, OwnRuns
<1>4. /\ Past \subseteq Int /\ Seq(Past) \subseteq Seq(Int) /\ Seq(Past) \subseteq Seq(1 .. MaxCount)
      /\ mine \in [Passers -> [Kinds -> Seq(Past)]] /\ mineLocal \in [Passers -> Seq(Past)]
      /\ local \in Seq(Past) /\ queue \in [Kinds -> Seq(Past)]
      /\ \A j \in Kinds : Held(j) \subseteq Past
      /\ written[p] \in Int
  BY OrderTypes
<1> DEFINE s == mineLocal[p]
           r == SubSeq(s, n + 1, Len(s))
           G == Firsts(s, n)
           u == OwnUntil(p)
<1>5. /\ n \in 0 .. Len(s) /\ \A i \in 1 .. n : s[i] < u
      /\ given' = Gives(SubSeq(s, 1, n))
      /\ mineLocal' = [mineLocal EXCEPT ![p] = r]
  BY <1>3 DEF OwnRun
<1>6. s \in Seq(Past) /\ s \in Seq(Int) /\ Sorted(s) /\ Before(GivenCounts, Range(s)) /\ Increasing
  BY <1>4 DEF Ordered, OwnInv, GivenInv, Before, Own
<1>7. mineLocal'[p] = r
  BY ONLY <1>4, <1>5, p \in Passers
<1>8. Sorted(r) /\ Range(r) \subseteq Range(s) /\ Before(G, Range(r))
  BY ONLY <1>5, <1>6, RestSorted
<1>9. given \in Seq([at : Past, shown : 0 .. state]) /\ shown \in 0 .. state
  BY DEF TypeInv, PassTypes
<1>10. Increasing'
  BY ONLY <1>4, <1>5, <1>6, <1>9, OrderGiven
<1>11. GivenCounts' = GivenCounts \cup G
  BY ONLY <1>5, <1>6, <1>9, GivenAfter
<1>12. /\ u \in Nat /\ u <= FirstOf(p, Kinds) /\ u <= written[p] /\ FirstOf(p, Kinds) \in Nat
       /\ \A j \in Kinds : FirstOf(p, Kinds) <= First(mine[p][j]) /\ First(mine[p][j]) \in Nat
  <2>1. u \in Nat /\ u <= FirstOf(p, Kinds) /\ u <= written[p]
    BY <1>2, OwnUntilProps
  <2>2. FirstOf(p, Kinds) \in Nat /\ \A j \in Kinds : FirstOf(p, Kinds) <= First(mine[p][j])
    BY <1>2, FirstOfProps
  <2>3. \A j \in Kinds : First(mine[p][j]) \in Nat
    BY <1>4, FirstProps
  <2> QED BY <2>1, <2>2, <2>3
<1> HIDE DEF s, r, G, u
<1>13. \A g \in G : g \in Int /\ g < u
  <2>1. \A i \in 1 .. n : s[i] \in Int
    <3>1. Len(s) \in Nat /\ s \in [1 .. Len(s) -> Int]
      BY <1>6, LenProperties
    <3> QED BY ONLY <3>1, <1>5
  <2> QED BY <2>1, <1>5 DEF G, Firsts
<1>14. \A b \in Int : u <= b => \A g \in G : g < b
  BY ONLY <1>12, <1>13
<1>15. ASSUME NEW j \in Kinds, NEW b \in Box(p, j)', NEW g \in G PROVE g < b
  <2>1. KindInv(p, j)
    BY DEF Ordered
  <2>2. CASE b \in Range(queue[j]) \cup Held(j)
    <3>1. written[p] <= b
      BY ONLY <2>1, <2>2, <1>1 DEF KindInv, Taken, From
    <3>2. b \in Int
      BY ONLY <2>2, <1>4, RangeType, j \in Kinds
    <3> QED BY ONLY <3>1, <3>2, <1>4, <1>12, <1>14, g \in G
  <2>3. CASE b \in Range(mine[p][j])
    <3>1. mine[p][j] \in Seq(1 .. MaxCount) /\ mine[p][j] \in Seq(Int)
      BY ONLY <1>4, p \in Passers, j \in Kinds
    <3>2. First(mine[p][j]) <= b
      BY ONLY <2>3, <3>1, <2>1, FirstLeast DEF KindInv
    <3>3. b \in Int
      BY ONLY <2>3, <3>1, RangeType
    <3>4. u <= b
      BY ONLY <3>2, <3>3, <1>12, j \in Kinds
    <3> QED BY ONLY <3>3, <3>4, <1>14, g \in G
  <2>4. inbox[j] = <<>>
    BY ONLY <2>1, <1>1 DEF KindInv
  <2>5. b \in Range(queue[j]) \cup Held(j) \cup Range(mine[p][j])
    BY ONLY <2>4, <1>1, RangeEmpty, b \in Box(p, j)' DEF Box, Held
  <2> QED BY <2>2, <2>3, <2>5
<1>16. ASSUME NEW b \in Own(p)', NEW g \in G PROVE g < b
  <2>1. OwnInv(p)
    BY DEF Ordered
  <2>2. CASE b \in Range(local)
    <3>1. written[p] <= b
      BY ONLY <2>1, <2>2, <1>1 DEF OwnInv, From
    <3>2. b \in Int
      BY ONLY <2>2, <1>4, RangeType
    <3> QED BY ONLY <3>1, <3>2, <1>4, <1>12, <1>14, g \in G
  <2>3. CASE b \in Range(mineLocal'[p])
    BY ONLY <2>3, <1>7, <1>8, g \in G DEF Before
  <2> QED BY ONLY <2>2, <2>3, <1>1, b \in Own(p)' DEF Own
<1>17. ASSUME NEW j \in Kinds PROVE KindInv(p, j)'
  <2>1. KindInv(p, j)
    BY DEF Ordered
  <2>2. Held(j)' = Held(j) /\ (Taken(p, j)' <=> Taken(p, j))
    BY ONLY <1>1 DEF Held, Taken
  <2> QED BY ONLY <1>1, <2>1, <2>2 DEF KindInv
<1>18. Range(mineLocal'[p]) \subseteq Range(mineLocal[p])
  BY ONLY <1>7, <1>8 DEF s
<1>19. GivenInv(p)'
  <2>1. GivenInv(p)
    BY DEF Ordered
  <2>2. ASSUME NEW j \in Kinds PROVE Before(GivenCounts', Box(p, j)')
    <3>1. Box(p, j)' = Box(p, j)
      BY ONLY <1>1 DEF Box, Held
    <3> QED BY ONLY <2>1, <3>1, <1>11, <1>15, j \in Kinds DEF GivenInv, Before
  <2>3. Before(GivenCounts', Own(p)')
    <3>1. Own(p)' \subseteq Own(p)
      BY ONLY <1>1, <1>18 DEF Own
    <3> QED BY ONLY <2>1, <3>1, <1>11, <1>16 DEF GivenInv, Before
  <2> QED BY ONLY <2>2, <2>3, <1>10 DEF GivenInv
<1>20. OwnInv(p)'
  <2>1. OwnInv(p)
    BY DEF Ordered
  <2>2. Before(Range(mineLocal'[p]), Range(local)) /\ Sorted(mineLocal'[p])
    BY ONLY <2>1, <1>7, <1>8, <1>18 DEF OwnInv, Before
  <2> QED BY ONLY <1>1, <2>1, <2>2 DEF OwnInv
<1> QED BY ONLY <1>1, <1>17, <1>19, <1>20, Ordered(p) DEF Ordered, OneWriter

\* What waits goes back into the inbox, which is empty: no other thread passes.
LEMMA OrderMerge ==
    ASSUME TypeInv, NEW p \in Passers, Ordered(p), MergeInbox(p)
    PROVE  Ordered(p)'
<1>1. /\ UNCHANGED <<queue, hold, local, stamp, mineAt, mineLocal, written, todo, given>>
      /\ mine' = [mine EXCEPT ![p] = NoAnswers]
      /\ ppc' = [ppc EXCEPT ![p] = "merge"] /\ ppc[p] = "give"
  BY DEF MergeInbox, writeVars
<1>2. inbox = NoAnswers
  <2>1. inbox \in [Kinds -> Seq(Past)]
    BY OrderTypes
  <2>2. \A k \in Kinds : inbox[k] = <<>>
    BY <1>1 DEF Ordered, KindInv
  <2> QED BY ONLY <2>1, <2>2 DEF NoAnswers
<1>3. inbox' = mine[p]
  BY <1>2 DEF MergeInbox
<1>4. mine'[p] = NoAnswers /\ ppc'[p] = "merge"
  BY ONLY <1>1, TypeInv, p \in Passers DEF TypeInv, PassTypes
<1>5. \A k \in Kinds : mine'[p][k] = <<>> /\ Range(mine'[p][k]) = {}
  BY ONLY <1>4, RangeEmpty DEF NoAnswers
<1>6. ASSUME NEW k \in Kinds PROVE KindInv(p, k)'
  <2>1. KindInv(p, k)
    BY DEF Ordered
  <2>2. Sorted(inbox'[k]) /\ Sorted(mine'[p][k]) /\ inbox'[k] = mine[p][k]
    BY ONLY <1>3, <1>5, <2>1, SortedEmpty, k \in Kinds DEF KindInv
  <2>3. Held(k)' = Held(k) /\ queue'[k] = queue[k]
    BY ONLY <1>1 DEF Held
  <2>4. Before(Range(mine'[p][k]), Range(queue[k])) /\ Before(Range(mine'[p][k]), Held(k))
    BY ONLY <1>5, k \in Kinds DEF Before
  <2>5. ~Taken(p, k)'
    BY ONLY <1>4 DEF Taken
  <2> QED BY ONLY <2>1, <2>2, <2>3, <2>4, <2>5, <1>4 DEF KindInv
<1>7. OwnInv(p)'
  BY ONLY <1>1, <1>4, Ordered(p) DEF Ordered, OwnInv
<1>8. GivenInv(p)'
  <2>1. GivenInv(p)
    BY DEF Ordered
  <2>2. ASSUME NEW k \in Kinds PROVE Before(GivenCounts, Box(p, k)')
    <3>1. Box(p, k)' \subseteq Box(p, k)
      BY ONLY <1>1, <1>3, <1>5, k \in Kinds DEF Box, Held
    <3> QED BY ONLY <2>1, <3>1, k \in Kinds DEF GivenInv, Before
  <2> QED BY ONLY <1>1, <2>1, <2>2 DEF GivenInv, GivenCounts, Increasing, Own
<1> QED BY ONLY <1>1, <1>6, <1>7, <1>8, Ordered(p) DEF Ordered, OneWriter

LEMMA OrderPutBack ==
    ASSUME TypeInv, NEW p \in Passers, Ordered(p), PutBackLocal(p)
    PROVE  Ordered(p)'
<1>1. /\ UNCHANGED <<queue, hold, stamp, inbox, mine, mineAt, written, todo, given>>
      /\ local' = mineLocal[p] \o local
      /\ mineLocal' = [mineLocal EXCEPT ![p] = <<>>]
      /\ ppc' = [ppc EXCEPT ![p] = "last"]
  BY DEF PutBackLocal
<1>2. mineLocal'[p] = <<>> /\ ppc'[p] = "last"
  BY ONLY <1>1, TypeInv, p \in Passers DEF TypeInv, PassTypes
<1>3. mineLocal[p] \in Seq(Int) /\ local \in Seq(Int)
  BY OrderTypes
<1>4. Range(local') = Range(mineLocal[p]) \cup Range(local)
  BY ONLY <1>1, <1>3, RangeConcat
<1>5. ASSUME NEW k \in Kinds PROVE KindInv(p, k)'
  <2>1. KindInv(p, k)
    BY DEF Ordered
  <2>2. Held(k)' = Held(k) /\ ~Taken(p, k)'
    BY ONLY <1>1, <1>2 DEF Held, Taken
  <2> QED BY ONLY <1>1, <1>2, <2>1, <2>2 DEF KindInv
<1>6. OwnInv(p)'
  <2>1. OwnInv(p)
    BY DEF Ordered
  <2>2. Sorted(local')
    BY ONLY <1>1, <1>3, <2>1, SortedConcat DEF OwnInv
  <2>3. Before(Range(mineLocal'[p]), Range(local')) /\ Sorted(mineLocal'[p])
    BY ONLY <1>2, RangeEmpty, SortedEmpty DEF Before
  <2> QED BY ONLY <1>2, <2>2, <2>3 DEF OwnInv
<1>7. GivenInv(p)'
  <2>1. GivenInv(p)
    BY DEF Ordered
  <2>2. Own(p)' \subseteq Own(p)
    BY ONLY <1>2, <1>4, RangeEmpty DEF Own
  <2>3. Before(GivenCounts, Own(p)')
    BY ONLY <2>1, <2>2 DEF GivenInv, Before
  <2> QED BY ONLY <1>1, <2>1, <2>3 DEF GivenInv, GivenCounts, Increasing, Box, Held
<1> QED BY ONLY <1>1, <1>5, <1>6, <1>7, Ordered(p) DEF Ordered, OneWriter

LEMMA OrderStep == TypeInv /\ OrderInv /\ [Next]_vars => OrderInv'
<1> SUFFICES ASSUME TypeInv, OrderInv, [Next]_vars, NEW p \in Passers,
                    program'.passers = {p}, program'.laters = {}
             PROVE  Ordered(p)'
  BY DEF OrderInv
<1>1. program' = program
  BY DEF Next, WriteStep, NoteStep, PushStep, LaterStep, PassStep, vars
<1>2. Ordered(p)
  BY <1>1 DEF OrderInv
<1>3. CASE \/ UNCHANGED vars \/ NoteStep \/ ChangeState \/ SetConnectionLost
  <2>1. UNCHANGED <<queue, hold, local, stamp, inbox, ppc, mine, mineAt, mineLocal, written, todo, given>>
    BY <1>3 DEF vars, writeVars, passVars, NoteStep, NoteLoad, NoteCount, NoteMark, ChangeState,
                SetConnectionLost
  <2> QED BY <2>1, <1>2, OrderPlain
<1>4. ASSUME NEW w \in Writers, NEW k \in Kinds, Count(w, k) PROVE Ordered(p)'
  BY <1>2, <1>4, OrderCount
<1>5. ASSUME NEW w \in Writers, PushStep(w) PROVE Ordered(p)'
  BY <1>2, <1>5, OrderPush DEF PushStep
<1>6. ASSUME NEW c \in Laters, LaterStep(c) PROVE FALSE
  BY <1>2, <1>6 DEF LaterStep, LaterPush, Ordered
<1>7. CASE \E q \in program.passers : LaterHere(q)
  BY <1>1, <1>2, <1>7, OrderLaterHere
<1>8. ASSUME NEW q \in Passers, PassStep(q) PROVE Ordered(p)'
  <2>1. q = p
    BY <1>8, <1>1 DEF PassStep
  <2>2. PassStep(p)
    BY <1>8, <2>1
  <2>3. ppc \in [Passers -> {"idle", "inbox", "clock", "take", "give", "read", "merge",
                             "last", "lastRead", "end", "close"}]
    BY DEF TypeInv, PassTypes
  <2>4. CASE \/ TakeDone(p) \/ GiveState(p) \/ ReadState(p) \/ LastState(p) \/ LastRead(p)
             \/ TakeLost(p) \/ Close(p)
    <3>1. UNCHANGED <<queue, hold, local, stamp, inbox, mine, mineAt, mineLocal, written, todo, given>>
      BY <2>4 DEF TakeDone, GiveState, ReadState, LastState, LastRead, TakeLost, Close, writeVars
    <3>2. \/ ppc[p] = "take" /\ todo[p] = {} /\ ppc'[p] = "give"
          \/ ppc[p] \in {"give", "read"} /\ ppc'[p] \in {"give", "read"}
          \/ ppc'[p] \in {"idle", "lastRead", "end", "close"}
      BY ONLY <2>3, <2>4, p \in Passers
         DEF TakeDone, GiveState, ReadState, LastState, LastRead, TakeLost, Close
    <3> QED BY <3>1, <3>2, <1>2, OrderPlain
  <2>5. CASE TakeLocal(p) \/ TakeInbox(p) \/ ReadClock(p) \/ MergeInbox(p) \/ PutBackLocal(p)
             \/ GiveLocal(p)
    BY <2>5, <1>2, OrderTakeLocal, OrderTakeInbox, OrderReadClock, OrderMerge, OrderPutBack,
       OrderGiveLocal
  <2>6. CASE \E k \in Kinds : TakeQueue(p, k) \/ GiveQueue(p, k)
    BY <2>6, <1>2, OrderTakeQueue, OrderGiveQueue
  <2> QED BY <2>2, <2>4, <2>5, <2>6 DEF PassStep
<1>9. ASSUME NEW c \in program.laters PROVE FALSE
  BY <1>1, <1>9
<1>10. program.callers \subseteq Callers
  BY AnswerOrderAssumption DEF TypeInv
<1>11. CASE WriteStep
  BY <1>3, <1>4, <1>7, <1>9, <1>10, <1>11 DEF WriteStep, Writers
<1> QED BY <1>3, <1>5, <1>6, <1>8, <1>11 DEF Next

LEMMA OrderInit == Init => OrderInv
<1> SUFFICES ASSUME Init, NEW p \in Passers PROVE Ordered(p)
  BY DEF OrderInv
<1>1. /\ queue = NoAnswers /\ inbox = NoAnswers /\ mine[p] = NoAnswers /\ local = <<>>
      /\ mineLocal[p] = <<>> /\ given = <<>> /\ ppc[p] = "idle"
      /\ stamp = [c \in Laters |-> 0] /\ \A w \in Writers : hold[w] = <<>>
  BY DEF Init
<1>2. \A k \in Kinds : Held(k) = {}
  BY ONLY <1>1 DEF Held
<1>3. \A k \in Kinds : queue[k] = <<>> /\ inbox[k] = <<>> /\ mine[p][k] = <<>>
  BY ONLY <1>1 DEF NoAnswers
<1>4. ASSUME NEW k \in Kinds PROVE KindInv(p, k)
  BY ONLY <1>1, <1>2, <1>3, RangeEmpty, SortedEmpty, k \in Kinds DEF KindInv, Before, Taken
<1>5. OwnInv(p)
  BY ONLY <1>1, RangeEmpty, SortedEmpty DEF OwnInv, Before
<1>6. GivenInv(p)
  <2>1. DOMAIN given = {}
    BY ONLY <1>1
  <2> QED BY ONLY <2>1 DEF GivenInv, Increasing, GivenCounts, Before
<1> QED BY ONLY <1>1, <1>4, <1>5, <1>6 DEF Ordered, OneWriter

\* While one thread dispatches and makes the client's own answers, the answers
\* are given in the order they took their counts, over all the kinds and the
\* client's own, whatever the engine and the callers write while a pass runs.
THEOREM AnswersInOrder == Spec => []GivenInOrder
<1>1. Init => TypeInv
  BY TypeInvInit
<1>2. Init => OrderInv
  BY OrderInit
<1>3. TypeInv /\ [Next]_vars => TypeInv'
  BY TypeStep
<1>4. TypeInv /\ OrderInv /\ [Next]_vars => OrderInv'
  BY OrderStep
<1>5. TypeInv /\ OrderInv => GivenInOrder
  <2> SUFFICES ASSUME TypeInv, OrderInv, Cardinality(program.passers) = 1, program.laters = {}
               PROVE  \A i, j \in DOMAIN given : i < j => given[i].at < given[j].at
    BY DEF GivenInOrder
  <2>1. PICK p \in Passers : program.passers = {p}
    BY OnePasser
  <2> QED BY <2>1 DEF OrderInv, Ordered, GivenInv, Increasing
<1> QED BY <1>1, <1>2, <1>3, <1>4, <1>5, PTL DEF Spec

-----------------------------------------------------------------------------
(***************************************************************************)
(* No answer is dropped, however many threads dispatch.                    *)
(***************************************************************************)
LEMMA HandsStep == TypeInv /\ HandsFree /\ [Next]_vars => HandsFree'
<1> SUFFICES ASSUME TypeInv, HandsFree, [Next]_vars, NEW p \in Passers
             PROVE  /\ ppc'[p] \in {"idle", "last", "lastRead", "end", "close"} => mineLocal'[p] = <<>>
                    /\ ppc'[p] \notin {"clock", "take", "give", "read"} => mine'[p] = NoAnswers
  BY DEF HandsFree
<1>1. /\ ppc[p] \in {"idle", "last", "lastRead", "end", "close"} => mineLocal[p] = <<>>
      /\ ppc[p] \notin {"clock", "take", "give", "read"} => mine[p] = NoAnswers
  BY DEF HandsFree
<1>2. CASE UNCHANGED <<ppc, mine, mineLocal>>
  BY <1>1, <1>2
<1>3. ASSUME NEW q \in Passers, PassStep(q)
      PROVE  /\ ppc'[p] \in {"idle", "last", "lastRead", "end", "close"} => mineLocal'[p] = <<>>
             /\ ppc'[p] \notin {"clock", "take", "give", "read"} => mine'[p] = NoAnswers
  <2>1. /\ ppc \in [Passers -> {"idle", "inbox", "clock", "take", "give", "read", "merge",
                                "last", "lastRead", "end", "close"}]
        /\ DOMAIN mine = Passers /\ DOMAIN mineLocal = Passers
    BY DEF TypeInv, PassTypes
  <2>2. CASE q # p
    <3>1. ppc'[p] = ppc[p] /\ mine'[p] = mine[p] /\ mineLocal'[p] = mineLocal[p]
      BY ONLY <2>1, <2>2, PassStep(q), p \in Passers, q \in Passers
         DEF PassStep, TakeLocal, TakeInbox, ReadClock, TakeDone, TakeQueue, GiveQueue, GiveState,
             ReadState, GiveLocal, MergeInbox, PutBackLocal, LastState, LastRead, TakeLost, Close
    <3> QED BY <3>1, <1>1
  <2>3. CASE q = p
    <3>1. PassStep(p)
      BY <1>3, <2>3
    <3>2. CASE TakeLocal(p) \/ ReadClock(p) \/ TakeDone(p) \/ GiveState(p) \/ ReadState(p)
               \/ LastState(p) \/ LastRead(p) \/ TakeLost(p) \/ Close(p)
      BY ONLY <3>2, <1>1, <2>1, p \in Passers
         DEF TakeLocal, ReadClock, TakeDone, GiveState, ReadState, LastState, LastRead, TakeLost, Close
    <3>3. CASE TakeInbox(p) \/ PutBackLocal(p) \/ MergeInbox(p)
      BY ONLY <3>3, <1>1, <2>1, p \in Passers DEF TakeInbox, PutBackLocal, MergeInbox
    <3>4. CASE GiveLocal(p) \/ \E k \in Kinds : TakeQueue(p, k) \/ GiveQueue(p, k)
      <4>1. ppc'[p] = ppc[p] /\ ppc[p] \in {"take", "give"}
        BY ONLY <3>4 DEF GiveLocal, TakeQueue, GiveQueue
      <4> QED BY ONLY <4>1
    <3> QED BY <3>1, <3>2, <3>3, <3>4 DEF PassStep
  <2> QED BY <2>2, <2>3
<1>4. CASE \/ UNCHANGED vars \/ WriteStep \/ NoteStep \/ \E w \in Writers : PushStep(w)
           \/ \E c \in Laters : LaterStep(c)
  <2>1. UNCHANGED <<ppc, mine, mineLocal>>
    BY <1>4 DEF vars, passVars, WriteStep, Count, LaterStamp, LaterHere, ChangeState, SetConnectionLost,
                NoteStep, NoteLoad, NoteCount, NoteMark, PushStep, Push, LaterStep, LaterPush
  <2> QED BY <2>1, <1>2
<1> QED BY <1>3, <1>4 DEF Next

\* A step moves no answer.
LEMMA KeptPlain ==
    ASSUME NEW c, Somewhere(c),
           UNCHANGED <<hold, stamp, local, queue, inbox, mine, mineLocal, given>>
    PROVE  Somewhere(c)'
BY DEF Somewhere, GivenCounts

\* A step that writes keeps every answer, the one it writes too.
LEMMA KeptCount ==
    ASSUME TypeInv, NEW w \in Writers, NEW k \in Kinds, Count(w, k),
           NEW c, Somewhere(c) \/ c = clock
    PROVE  Somewhere(c)'
<1>1. /\ hold' = [hold EXCEPT ![w] = <<k, clock>>] /\ hold[w] = <<>>
      /\ UNCHANGED <<stamp, local, queue, inbox, mine, mineLocal, given>>
  BY DEF Count, passVars
<1>2. DOMAIN hold = Writers
  BY DEF TypeInv, WriteTypes
<1>3. hold'[w] = <<k, clock>> /\ \A v \in Writers : v # w => hold'[v] = hold[v]
  BY ONLY <1>1, <1>2, w \in Writers
<1>4. CASE c = clock
  <2>1. hold'[w] # <<>> /\ hold'[w][2] = c
    BY ONLY <1>3, <1>4
  <2> QED BY <2>1 DEF Somewhere
<1>5. CASE \E v \in Writers : hold[v] # <<>> /\ hold[v][2] = c
  <2>1. PICK v \in Writers : hold[v] # <<>> /\ hold[v][2] = c
    BY <1>5
  <2>2. hold'[v] # <<>> /\ hold'[v][2] = c
    BY ONLY <1>1, <1>3, <2>1
  <2> QED BY <2>2 DEF Somewhere
<1> QED BY <1>1, <1>4, <1>5 DEF Somewhere, GivenCounts

LEMMA KeptPush ==
    ASSUME TypeInv, NEW w \in Writers, Push(w), NEW c, Somewhere(c)
    PROVE  Somewhere(c)'
<1>1. /\ hold[w] # <<>>
      /\ queue' = [queue EXCEPT ![hold[w][1]] = Append(@, hold[w][2])]
      /\ hold' = [hold EXCEPT ![w] = <<>>]
      /\ UNCHANGED <<local, stamp, inbox, mine, mineLocal, given>>
  BY DEF Push, passVars
<1>2. queue \in [Kinds -> Seq(Past)] /\ hold \in [Writers -> {<<>>} \cup (Kinds \X Past)]
  BY OrderTypes
<1>3. hold[w][1] \in Kinds /\ hold[w][2] \in Past
  BY ONLY <1>1, <1>2, w \in Writers
<1>4. Range(queue'[hold[w][1]]) = Range(queue[hold[w][1]]) \cup {hold[w][2]}
  <2>1. queue'[hold[w][1]] = Append(queue[hold[w][1]], hold[w][2])
    BY ONLY <1>1, <1>2, <1>3
  <2> QED BY ONLY <2>1, <1>2, <1>3, RangeAppend
<1>5. \A j \in Kinds : Range(queue[j]) \subseteq Range(queue'[j])
  <2> SUFFICES ASSUME NEW j \in Kinds PROVE Range(queue[j]) \subseteq Range(queue'[j])
    OBVIOUS
  <2>1. CASE j = hold[w][1]
    BY ONLY <1>4, <2>1
  <2>2. CASE j # hold[w][1]
    BY ONLY <1>1, <1>2, <1>3, <2>2, j \in Kinds
  <2> QED BY <2>1, <2>2
<1>6. CASE \E v \in Writers : hold[v] # <<>> /\ hold[v][2] = c
  <2>1. PICK v \in Writers : hold[v] # <<>> /\ hold[v][2] = c
    BY <1>6
  <2>2. CASE v = w
    BY <2>1, <2>2, <1>3, <1>4 DEF Somewhere
  <2>3. CASE v # w
    <3>1. hold'[v] = hold[v]
      BY ONLY <1>1, <1>2, <2>3, v \in Writers
    <3> QED BY <2>1, <3>1 DEF Somewhere
  <2> QED BY <2>2, <2>3
<1> QED BY <1>1, <1>5, <1>6 DEF Somewhere, GivenCounts

LEMMA KeptLater ==
    ASSUME TypeInv, NEW c, c # 0, Somewhere(c) \/ (c = clock /\ clock' # clock),
           \/ \E t \in Laters : LaterStamp(t) \/ LaterPush(t)
           \/ \E q \in Passers : LaterHere(q)
    PROVE  Somewhere(c)'
<1>1. /\ clock \in Int /\ local \in Seq(Int) /\ Past \subseteq Int
      /\ stamp \in [Laters -> {0} \cup Past]
  <2>1. stamp \in [Laters -> {0} \cup Past]
    BY DEF TypeInv, WriteTypes
  <2>2. clock \in Int /\ local \in Seq(Int) /\ Past \subseteq Int
    BY OrderTypes
  <2> QED BY <2>1, <2>2
<1>2. ASSUME NEW t \in Laters, LaterStamp(t) PROVE Somewhere(c)'
  <2>1. /\ stamp[t] = 0 /\ stamp' = [stamp EXCEPT ![t] = clock]
        /\ UNCHANGED <<hold, local, queue, inbox, mine, mineLocal, given>>
    BY <1>2 DEF LaterStamp, passVars
  <2>2. stamp'[t] = clock /\ \A v \in Laters : v # t => stamp'[v] = stamp[v]
    BY ONLY <1>1, <2>1, t \in Laters
  <2>3. CASE c = clock
    BY <2>2, <2>3 DEF Somewhere
  <2>4. CASE Somewhere(c)
    BY <2>1, <2>2, <2>4 DEF Somewhere, GivenCounts
  <2> QED BY <2>3, <2>4
<1>3. ASSUME NEW t \in Laters, LaterPush(t) PROVE Somewhere(c)'
  <2>1. /\ stamp[t] # 0 /\ stamp' = [stamp EXCEPT ![t] = 0] /\ local' = Append(local, stamp[t])
        /\ UNCHANGED <<clock, hold, queue, inbox, mine, mineLocal, given>>
    BY <1>3 DEF LaterPush, passVars
  <2>2. stamp[t] \in Int /\ \A v \in Laters : v # t => stamp'[v] = stamp[v]
    BY ONLY <1>1, <2>1, t \in Laters
  <2>3. Range(local') = Range(local) \cup {stamp[t]}
    BY ONLY <1>1, <2>1, <2>2, RangeAppend
  <2> QED BY <2>1, <2>2, <2>3 DEF Somewhere, GivenCounts
<1>4. ASSUME NEW q \in Passers, LaterHere(q) PROVE Somewhere(c)'
  <2>1. /\ local' = Append(local, clock)
        /\ UNCHANGED <<stamp, hold, queue, inbox, mine, mineLocal, given>>
    BY <1>4 DEF LaterHere, passVars
  <2>2. Range(local') = Range(local) \cup {clock}
    BY ONLY <1>1, <2>1, RangeAppend
  <2> QED BY <2>1, <2>2 DEF Somewhere, GivenCounts
<1> QED BY <1>2, <1>3, <1>4

\* The hands of the other threads stay as they are.
LEMMA KeptTake ==
    ASSUME TypeInv, HandsFree, NEW p \in Passers, NEW c, Somewhere(c),
           TakeLocal(p) \/ TakeInbox(p) \/ PutBackLocal(p) \/ \E k \in Kinds : TakeQueue(p, k)
    PROVE  Somewhere(c)'
<1>1. /\ queue \in [Kinds -> Seq(Past)] /\ inbox \in [Kinds -> Seq(Past)]
      /\ mine \in [Passers -> [Kinds -> Seq(Past)]] /\ local \in Seq(Past)
      /\ mineLocal \in [Passers -> Seq(Past)]
  BY OrderTypes
<1>2. CASE TakeLocal(p)
  <2>1. /\ UNCHANGED <<stamp, hold, queue, inbox, mine, given>>
        /\ mineLocal' = [mineLocal EXCEPT ![p] = local] /\ mineLocal[p] = <<>>
    BY <1>2 DEF TakeLocal, HandsFree
  <2>2. mineLocal'[p] = local /\ \A q \in Passers : q # p => mineLocal'[q] = mineLocal[q]
    BY ONLY <1>1, <2>1, p \in Passers
  <2>3. Range(mineLocal[p]) = {}
    BY ONLY <2>1, RangeEmpty
  <2> QED BY <2>1, <2>2, <2>3 DEF Somewhere, GivenCounts
<1>3. CASE TakeInbox(p)
  <2>1. /\ UNCHANGED <<stamp, hold, queue, local, mineLocal, given>>
        /\ mine' = [mine EXCEPT ![p] = inbox] /\ mine[p] = NoAnswers
    BY <1>3 DEF TakeInbox, HandsFree, writeVars
  <2>2. mine'[p] = inbox /\ \A q \in Passers : q # p => mine'[q] = mine[q]
    BY ONLY <1>1, <2>1, p \in Passers
  <2>3. \A k \in Kinds : Range(mine[p][k]) = {}
    BY ONLY <2>1, RangeEmpty DEF NoAnswers
  <2> QED BY <2>1, <2>2, <2>3 DEF Somewhere, GivenCounts
<1>4. CASE PutBackLocal(p)
  <2>1. /\ UNCHANGED <<stamp, hold, queue, inbox, mine, given>>
        /\ mineLocal' = [mineLocal EXCEPT ![p] = <<>>] /\ local' = mineLocal[p] \o local
    BY <1>4 DEF PutBackLocal
  <2>2. \A q \in Passers : q # p => mineLocal'[q] = mineLocal[q]
    BY ONLY <1>1, <2>1, p \in Passers
  <2>3. Range(local') = Range(mineLocal[p]) \cup Range(local)
    BY ONLY <1>1, <2>1, RangeConcat, p \in Passers
  <2> QED BY <2>1, <2>2, <2>3 DEF Somewhere, GivenCounts
<1>5. ASSUME NEW k \in Kinds, TakeQueue(p, k) PROVE Somewhere(c)'
  <2>1. /\ UNCHANGED <<stamp, hold, inbox, local, mineLocal, given>>
        /\ mine' = [mine EXCEPT ![p][k] = @ \o queue[k]]
        /\ queue' = [queue EXCEPT ![k] = <<>>]
    BY <1>5 DEF TakeQueue
  <2>2. /\ mine'[p][k] = mine[p][k] \o queue[k]
        /\ \A q \in Passers : \A j \in Kinds : q # p \/ j # k => mine'[q][j] = mine[q][j]
        /\ \A j \in Kinds : j # k => queue'[j] = queue[j]
    BY ONLY <1>1, <2>1, p \in Passers, k \in Kinds
  <2>3. Range(mine'[p][k]) = Range(mine[p][k]) \cup Range(queue[k])
    BY ONLY <1>1, <2>2, RangeConcat, p \in Passers, k \in Kinds
  <2> QED BY <2>1, <2>2, <2>3 DEF Somewhere, GivenCounts
<1> QED BY <1>2, <1>3, <1>4, <1>5

\* The counts of a run and of its rest are all there were.
LEMMA RunAndRest ==
    ASSUME NEW S, NEW s \in Seq(S), NEW n \in 0 .. Len(s), NEW c \in Range(s)
    PROVE  c \in Firsts(s, n) \/ c \in Range(SubSeq(s, n + 1, Len(s)))
<1> DEFINE r == SubSeq(s, n + 1, Len(s))
<1>1. /\ r \in Seq(S) /\ Len(s) \in Nat /\ Len(r) = Len(s) - n
      /\ \A i \in 1 .. Len(s) - n : r[i] = s[n + i]
  BY LeftOver
<1>2. DOMAIN s = 1 .. Len(s) /\ DOMAIN r = 1 .. Len(s) - n
  BY <1>1, LenProperties
<1> HIDE DEF r
<1>3. PICK i \in DOMAIN s : c = s[i]
  BY DEF Range
<1>4. CASE i <= n
  <2>1. i \in 1 .. n
    BY <1>1, <1>2, <1>4
  <2> QED BY <2>1, <1>3 DEF Firsts
<1>5. CASE ~(i <= n)
  <2>1. i - n \in 1 .. Len(s) - n /\ n + (i - n) = i
    BY <1>1, <1>2, <1>5
  <2>2. i - n \in DOMAIN r /\ r[i - n] = s[i]
    BY <2>1, <1>1, <1>2
  <2> QED BY <2>2, <1>3 DEF Range, r
<1> QED BY <1>4, <1>5

LEMMA KeptGive ==
    ASSUME TypeInv, NEW p \in Passers, NEW c, Somewhere(c),
           GiveLocal(p) \/ \E k \in Kinds : GiveQueue(p, k)
    PROVE  Somewhere(c)'
<1>1. TypeOK /\ given \in Seq([at : Past, shown : 0 .. state]) /\ shown \in 0 .. state
  BY TypeInvImplies DEF TypeInv, PassTypes
<1>2. mine \in [Passers -> [Kinds -> Seq(Past)]] /\ mineLocal \in [Passers -> Seq(Past)]
  BY OrderTypes
<1>3. CASE GiveLocal(p)
  <2>1. UNCHANGED <<stamp, hold, queue, inbox, local, mine>>
    BY <1>3 DEF GiveLocal, writeVars
  <2>2. PICK n \in Nat : OwnRun(p, n)
    BY <1>1, <1>3, OwnRuns
  <2> DEFINE s == mineLocal[p]
             r == SubSeq(s, n + 1, Len(s))
  <2>3. /\ n \in 0 .. Len(s) /\ given' = Gives(SubSeq(s, 1, n))
        /\ mineLocal' = [mineLocal EXCEPT ![p] = r] /\ s \in Seq(Past)
    BY <2>2, <1>2 DEF OwnRun
  <2>4. mineLocal'[p] = r /\ \A q \in Passers : q # p => mineLocal'[q] = mineLocal[q]
    BY ONLY <1>2, <2>3, p \in Passers
  <2>5. GivenCounts' = GivenCounts \cup Firsts(s, n)
    BY ONLY <1>1, <2>3, GivenAfter
  <2>6. c \in Range(s) => c \in Firsts(s, n) \/ c \in Range(r)
    BY ONLY <2>3, RunAndRest
  <2> HIDE DEF r
  <2> QED BY <2>1, <2>4, <2>5, <2>6 DEF Somewhere
<1>4. ASSUME NEW k \in Kinds, GiveQueue(p, k) PROVE Somewhere(c)'
  <2>1. UNCHANGED <<stamp, hold, queue, inbox, local, mineLocal>>
    BY <1>4 DEF GiveQueue, writeVars
  <2>2. PICK n \in Nat : QueueRun(p, k, n)
    BY <1>1, <1>4, QueueRuns
  <2> DEFINE s == mine[p][k]
             r == SubSeq(s, n + 1, Len(s))
  <2>3. /\ n \in 0 .. Len(s) /\ given' = Gives(SubSeq(s, 1, n))
        /\ mine' = [mine EXCEPT ![p][k] = r] /\ s \in Seq(Past)
    BY <2>2, <1>2 DEF QueueRun
  <2>4. /\ mine'[p][k] = r
        /\ \A q \in Passers : \A j \in Kinds : q # p \/ j # k => mine'[q][j] = mine[q][j]
    BY ONLY <1>2, <2>3, p \in Passers, k \in Kinds
  <2>5. GivenCounts' = GivenCounts \cup Firsts(s, n)
    BY ONLY <1>1, <2>3, GivenAfter
  <2>6. c \in Range(s) => c \in Firsts(s, n) \/ c \in Range(r)
    BY ONLY <2>3, RunAndRest
  <2> HIDE DEF r
  <2> QED BY <2>1, <2>4, <2>5, <2>6 DEF Somewhere
<1> QED BY <1>3, <1>4

\* What waits joins what was put back meanwhile.
LEMMA MergeRange ==
    ASSUME TypeInv, NEW p \in Passers, MergeInbox(p), NEW k \in Kinds
    PROVE  Range(inbox'[k]) = Range(inbox[k]) \cup Range(mine[p][k])
<1>1. mine \in [Passers -> [Kinds -> Seq(Past)]] /\ inbox \in [Kinds -> Seq(Past)]
  BY OrderTypes
<1>2. CASE inbox = NoAnswers
  <2>1. inbox' = mine[p]
    BY <1>2 DEF MergeInbox
  <2>2. Range(inbox[k]) = {}
    BY ONLY <1>2, RangeEmpty, k \in Kinds DEF NoAnswers
  <2> QED BY ONLY <2>1, <2>2
<1>3. CASE inbox # NoAnswers
  <2>1. inbox'[k] \in Merged(inbox[k], mine[p][k])
    BY <1>3 DEF MergeInbox
  <2>2. inbox[k] \in Seq(Past) /\ mine[p][k] \in Seq(Past)
    BY ONLY <1>1, p \in Passers, k \in Kinds
  <2> QED BY ONLY <2>1, <2>2, MergedProps
<1> QED BY <1>2, <1>3

\* What waits goes back behind nothing it replaces: a pass that put answers
\* back meanwhile loses none.
LEMMA KeptMerge ==
    ASSUME TypeInv, NEW p \in Passers, NEW c, Somewhere(c), MergeInbox(p)
    PROVE  Somewhere(c)'
<1>1. /\ UNCHANGED <<stamp, hold, queue, local, mineLocal, given>>
      /\ mine' = [mine EXCEPT ![p] = NoAnswers]
  BY DEF MergeInbox, writeVars
<1>2. mine \in [Passers -> [Kinds -> Seq(Past)]] /\ inbox \in [Kinds -> Seq(Past)]
  BY OrderTypes
<1>3. \A q \in Passers : q # p => mine'[q] = mine[q]
  BY ONLY <1>1, <1>2, p \in Passers
<1>4. \A k \in Kinds : Range(inbox'[k]) = Range(inbox[k]) \cup Range(mine[p][k])
  BY MergeRange
<1> QED BY <1>1, <1>3, <1>4 DEF Somewhere, GivenCounts

LEMMA PassClock ==
    ASSUME NEW p, PassStep(p)
    PROVE  clock' = clock /\ need' = need
<1>1. CASE TakeInbox(p) \/ ReadClock(p) \/ TakeDone(p) \/ ReadState(p) \/ GiveLocal(p) \/ MergeInbox(p)
           \/ LastRead(p) \/ TakeLost(p) \/ Close(p)
  <2>1. UNCHANGED writeVars
    BY <1>1 DEF TakeInbox, ReadClock, TakeDone, ReadState, GiveLocal, MergeInbox, LastRead, TakeLost,
                Close
  <2> QED BY <2>1 DEF writeVars
<1>2. CASE TakeLocal(p) \/ GiveState(p) \/ PutBackLocal(p) \/ LastState(p)
  BY <1>2 DEF TakeLocal, GiveState, PutBackLocal, LastState
<1>3. CASE \E k \in Kinds : TakeQueue(p, k) \/ GiveQueue(p, k)
  BY <1>3 DEF TakeQueue, GiveQueue, writeVars
<1> QED BY <1>1, <1>2, <1>3 DEF PassStep

LEMMA KeptStep == TypeInv /\ HandsFree /\ Kept /\ [Next]_vars => Kept'
<1> SUFFICES ASSUME TypeInv, HandsFree, Kept, [Next]_vars, NEW c \in Answers' PROVE Somewhere(c)'
  BY DEF Kept
<1>1. clock \in Nat /\ clock # 0 /\ clock \in 1 .. MaxCount /\ MaxCount \in Nat
      /\ need \in [1 .. MaxCount -> -2 .. MaxCount]
  BY OrderTypes, AnswerOrderAssumption DEF TypeInv, WriteTypes
<1>2. CASE clock' = clock /\ need' = need
  <2>1. Somewhere(c)
    BY ONLY <1>2, Kept, c \in Answers' DEF Kept, Answers
  <2>2. c # 0
    BY ONLY <1>1, <1>2, c \in Answers' DEF Answers
  <2>3. CASE UNCHANGED vars \/ WriteStep \/ NoteStep
    <3>1. UNCHANGED <<hold, stamp, local, queue, inbox, mine, mineLocal, given>>
      <4>1. clock' # clock + 1
        BY ONLY <1>1, <1>2
      <4> QED BY <2>3, <4>1
              DEF vars, writeVars, passVars, WriteStep, NoteStep, NoteLoad, NoteCount, NoteMark,
                  ChangeState, SetConnectionLost, Count, LaterStamp, LaterHere
    <3> QED BY <3>1, <2>1, KeptPlain
  <2>4. ASSUME NEW w \in Writers, PushStep(w) PROVE Somewhere(c)'
    BY <2>1, <2>4, KeptPush DEF PushStep
  <2>5. ASSUME NEW t \in Laters, LaterStep(t) PROVE Somewhere(c)'
    BY <2>1, <2>2, <2>5, KeptLater DEF LaterStep
  <2>6. ASSUME NEW p \in Passers, PassStep(p) PROVE Somewhere(c)'
    <3>1. CASE \/ ReadClock(p) \/ TakeDone(p) \/ GiveState(p) \/ ReadState(p) \/ LastState(p)
               \/ LastRead(p) \/ TakeLost(p) \/ Close(p)
      <4>1. UNCHANGED <<hold, stamp, local, queue, inbox, mine, mineLocal, given>>
        BY <3>1 DEF writeVars, ReadClock, TakeDone, GiveState, ReadState, LastState, LastRead,
                    TakeLost, Close
      <4> QED BY <4>1, <2>1, KeptPlain
    <3>2. CASE TakeLocal(p) \/ TakeInbox(p) \/ PutBackLocal(p) \/ \E k \in Kinds : TakeQueue(p, k)
      BY <3>2, <2>1, KeptTake
    <3>3. CASE GiveLocal(p) \/ \E k \in Kinds : GiveQueue(p, k)
      BY <3>3, <2>1, KeptGive
    <3>4. CASE MergeInbox(p)
      BY <3>4, <2>1, KeptMerge
    <3> QED BY <2>6, <3>1, <3>2, <3>3, <3>4 DEF PassStep
  <2> QED BY <2>3, <2>4, <2>5, <2>6 DEF Next
<1>3. CASE clock' = clock + 1
  <2>1. c \in 1 .. clock /\ need'[c] # -1 /\ c # 0
    BY ONLY <1>1, <1>3, c \in Answers' DEF Answers
  <2>2. ASSUME need' = need \/ \E n : need' = [need EXCEPT ![clock] = n]
        PROVE  Somewhere(c) \/ c = clock
    <3>1. c # clock => need'[c] = need[c]
      <4>1. c \in 1 .. MaxCount
        BY ONLY <2>1, <1>1
      <4>2. CASE need' = need
        BY <4>2
      <4>3. CASE \E n : need' = [need EXCEPT ![clock] = n]
        BY ONLY <4>1, <4>3, <1>1
      <4> QED BY <2>2, <4>2, <4>3
    <3>2. c # clock => c \in 1 .. clock - 1
      BY ONLY <2>1, <1>1
    <3>3. c # clock => c \in Answers
      BY ONLY <3>1, <3>2, <2>1 DEF Answers
    <3> QED BY ONLY <3>3, Kept DEF Kept
  <2>3. ASSUME NEW w \in Writers, NEW k \in Kinds, Count(w, k) PROVE Somewhere(c)'
    <3>1. Somewhere(c) \/ c = clock
      BY <2>2, <2>3 DEF Count
    <3> QED BY <3>1, <2>3, KeptCount
  <2>4. CASE (\E t \in Laters : LaterStamp(t)) \/ (\E q \in Passers : LaterHere(q))
    <3>1. Somewhere(c) \/ c = clock
      BY <2>2, <2>4 DEF LaterStamp, LaterHere
    <3>2. clock' # clock
      BY ONLY <1>1, <1>3
    <3> QED BY <3>1, <3>2, <2>1, <2>4, KeptLater
  <2>5. CASE NoteCount
    <3>1. need' = [need EXCEPT ![clock] = -1]
      BY <2>5 DEF NoteCount
    <3>2. need'[clock] = -1
      BY ONLY <3>1, <1>1
    <3>3. Somewhere(c)
      BY <3>1, <3>2, <2>1, <2>2
    <3>4. UNCHANGED <<hold, stamp, local, queue, inbox, mine, mineLocal, given>>
      BY <2>5 DEF NoteCount, passVars
    <3> QED BY <3>3, <3>4, KeptPlain
  <2>6. clock' # clock
    BY ONLY <1>1, <1>3
  <2>7. program.callers \subseteq Callers /\ program.laters \subseteq Laters
        /\ program.passers \subseteq Passers
    BY AnswerOrderAssumption DEF TypeInv
  <2>8. ~UNCHANGED vars /\ ~ChangeState /\ ~SetConnectionLost /\ ~NoteLoad /\ ~NoteMark
        /\ ~(\E w \in Writers : PushStep(w)) /\ ~(\E t \in Laters : LaterStep(t))
        /\ ~(\E p \in Passers : PassStep(p))
    BY <2>6, PassClock DEF vars, writeVars, ChangeState, SetConnectionLost, NoteLoad, NoteMark,
                           PushStep, Push, LaterStep, LaterPush
  <2> QED BY <2>3, <2>4, <2>5, <2>7, <2>8 DEF Next, WriteStep, NoteStep, Writers
<1>4. (clock' = clock /\ need' = need) \/ clock' = clock + 1
  <2>1. CASE WriteStep \/ NoteStep
    BY <2>1 DEF WriteStep, Count, LaterStamp, LaterHere, writeVars, ChangeState, SetConnectionLost,
                NoteStep, NoteLoad, NoteCount, NoteMark
  <2>2. CASE (\E w \in Writers : PushStep(w)) \/ (\E t \in Laters : LaterStep(t))
    BY <2>2 DEF PushStep, Push, LaterStep, LaterPush
  <2>3. CASE UNCHANGED vars
    BY <2>3 DEF vars, writeVars
  <2> QED BY <2>1, <2>2, <2>3, PassClock DEF Next
<1> QED BY <1>2, <1>3, <1>4

\* No answer is dropped, however many threads dispatch, answer themselves and
\* put back what waits.
LEMMA AnswersKept == Spec => []Kept
<1>1. Init => TypeInv
  BY TypeInvInit
<1>2. Init => HandsFree /\ Kept
  <2> SUFFICES ASSUME Init PROVE HandsFree /\ Kept
    OBVIOUS
  <2>1. HandsFree
    BY DEF Init, HandsFree
  <2>2. Answers = {}
    BY DEF Init, Answers
  <2> QED BY ONLY <2>1, <2>2 DEF Kept
<1>3. TypeInv /\ [Next]_vars => TypeInv'
  BY TypeStep
<1>4. TypeInv /\ HandsFree /\ [Next]_vars => HandsFree'
  BY HandsStep
<1>5. TypeInv /\ HandsFree /\ Kept /\ [Next]_vars => Kept'
  BY KeptStep
<1> QED BY <1>1, <1>2, <1>3, <1>4, <1>5, PTL DEF Spec

-----------------------------------------------------------------------------
(***************************************************************************)
(* No answer is in two places.                                             *)
(***************************************************************************)
\* Count c is in box l.
Has(l, c) ==
    \/ \E w \in Writers : l = <<"writer", w>> /\ hold[w] # <<>> /\ hold[w][2] = c
    \/ \E t \in Laters : l = <<"caller", t>> /\ stamp[t] = c
    \/ \E k \in Kinds : l = <<"queue", k>> /\ c \in Range(queue[k])
    \/ \E k \in Kinds : l = <<"inbox", k>> /\ c \in Range(inbox[k])
    \/ l = <<"own">> /\ c \in Range(local)
    \/ \E p \in Passers : \E k \in Kinds : l = <<"mine", p, k>> /\ c \in Range(mine[p][k])
    \/ \E p \in Passers : l = <<"mineLocal", p>> /\ c \in Range(mineLocal[p])
    \/ l = <<"given">> /\ c \in GivenCounts

\* It is in no other box,
Apart(c) == \A l, m : Has(l, c) /\ Has(m, c) => l = m

\* and once in this one.
Once(s) == \A i, j \in DOMAIN s : s[i] = s[j] => i = j

GivenOnce == \A i, j \in DOMAIN given : given[i].at = given[j].at => i = j

OnceInv ==
    /\ Once(local) /\ GivenOnce
    /\ \A k \in Kinds : Once(queue[k]) /\ Once(inbox[k])
    /\ \A p \in Passers : Once(mineLocal[p]) /\ \A k \in Kinds : Once(mine[p][k])

ApartInv == \A c \in Past : Apart(c)

LEMMA OnceEmpty == Once(<<>>)
<1>1. DOMAIN <<>> = {}
  OBVIOUS
<1> QED BY <1>1 DEF Once

LEMMA OnceConcat ==
    ASSUME NEW S, NEW s \in Seq(S), NEW t \in Seq(S), Once(s), Once(t),
           \A c \in Range(s) : c \notin Range(t)
    PROVE  Once(s \o t)
<1>1. /\ Len(s) \in Nat /\ Len(t) \in Nat /\ DOMAIN s = 1 .. Len(s) /\ DOMAIN t = 1 .. Len(t)
      /\ DOMAIN (s \o t) = 1 .. Len(s) + Len(t)
  BY LenProperties, ConcatProperties
<1>2. \A i \in 1 .. Len(s) + Len(t) : (s \o t)[i] = IF i <= Len(s) THEN s[i] ELSE t[i - Len(s)]
  BY ConcatProperties
<1>3. \A i \in DOMAIN (s \o t) :
         \/ i \in DOMAIN s /\ (s \o t)[i] = s[i] /\ s[i] \in Range(s)
         \/ i - Len(s) \in DOMAIN t /\ (s \o t)[i] = t[i - Len(s)] /\ t[i - Len(s)] \in Range(t)
  <2> SUFFICES ASSUME NEW i \in DOMAIN (s \o t)
               PROVE  \/ i \in DOMAIN s /\ (s \o t)[i] = s[i] /\ s[i] \in Range(s)
                      \/ /\ i - Len(s) \in DOMAIN t /\ (s \o t)[i] = t[i - Len(s)]
                         /\ t[i - Len(s)] \in Range(t)
    OBVIOUS
  <2>1. CASE i <= Len(s)
    <3>1. i \in DOMAIN s /\ (s \o t)[i] = s[i]
      BY ONLY <1>1, <1>2, <2>1, i \in DOMAIN (s \o t)
    <3> QED BY <3>1 DEF Range
  <2>2. CASE ~(i <= Len(s))
    <3>1. i - Len(s) \in DOMAIN t /\ (s \o t)[i] = t[i - Len(s)]
      BY ONLY <1>1, <1>2, <2>2, i \in DOMAIN (s \o t)
    <3> QED BY <3>1 DEF Range
  <2> QED BY <2>1, <2>2
<1> SUFFICES ASSUME NEW i \in DOMAIN (s \o t), NEW j \in DOMAIN (s \o t), (s \o t)[i] = (s \o t)[j]
             PROVE  i = j
  BY DEF Once
<1>4. i \in Int /\ j \in Int
  BY <1>1
<1>5. CASE i \in DOMAIN s /\ (s \o t)[i] = s[i] /\ s[i] \in Range(s)
  <2>1. j \in DOMAIN s /\ (s \o t)[j] = s[j]
    BY <1>3, <1>5
  <2> QED BY <1>5, <2>1 DEF Once
<1>6. CASE i - Len(s) \in DOMAIN t /\ (s \o t)[i] = t[i - Len(s)] /\ t[i - Len(s)] \in Range(t)
  <2>1. j - Len(s) \in DOMAIN t /\ (s \o t)[j] = t[j - Len(s)]
    BY <1>3, <1>6
  <2>2. i - Len(s) = j - Len(s)
    BY <1>6, <2>1 DEF Once
  <2> QED BY ONLY <1>1, <1>4, <2>2
<1> QED BY <1>3, <1>5, <1>6

LEMMA OnceAppend ==
    ASSUME NEW S, NEW s \in Seq(S), NEW e \in S, Once(s), e \notin Range(s)
    PROVE  Once(Append(s, e))
<1>1. /\ Len(s) \in Nat /\ DOMAIN s = 1 .. Len(s)
      /\ DOMAIN Append(s, e) = 1 .. Len(s) + 1
      /\ \A i \in 1 .. Len(s) : Append(s, e)[i] = s[i]
      /\ Append(s, e)[Len(s) + 1] = e
  BY LenProperties, AppendProperties
<1>2. \A i \in DOMAIN s : s[i] # e
  BY DEF Range
<1>3. \A i \in DOMAIN Append(s, e) : i = Len(s) + 1 \/ i \in DOMAIN s
  BY ONLY <1>1
<1> SUFFICES ASSUME NEW i \in DOMAIN Append(s, e), NEW j \in DOMAIN Append(s, e),
                    Append(s, e)[i] = Append(s, e)[j]
             PROVE  i = j
  BY DEF Once
<1> QED BY <1>1, <1>2, <1>3 DEF Once

\* A run and its rest share no count.
LEMMA OnceRest ==
    ASSUME NEW S, NEW s \in Seq(S), NEW n \in 0 .. Len(s), Once(s)
    PROVE  LET r == SubSeq(s, n + 1, Len(s))
           IN  Once(r) /\ Range(r) \subseteq Range(s) /\ \A c \in Firsts(s, n) : c \notin Range(r)
<1> DEFINE r == SubSeq(s, n + 1, Len(s))
<1>1. /\ r \in Seq(S) /\ Len(s) \in Nat /\ Len(r) = Len(s) - n
      /\ \A i \in 1 .. Len(s) - n : r[i] = s[n + i]
  BY LeftOver
<1>2. DOMAIN s = 1 .. Len(s) /\ DOMAIN r = 1 .. Len(s) - n
  BY <1>1, LenProperties
<1> HIDE DEF r
<1>3. \A i \in DOMAIN r : i \in 1 .. Len(s) - n /\ n + i \in 1 .. Len(s) /\ n < n + i
  BY ONLY <1>1, <1>2, n \in 0 .. Len(s)
<1>4. \A i \in DOMAIN r : n + i \in DOMAIN s /\ r[i] = s[n + i] /\ i \in Int
  BY ONLY <1>1, <1>2, <1>3
<1>5. Once(r)
  <2> SUFFICES ASSUME NEW i \in DOMAIN r, NEW j \in DOMAIN r, r[i] = r[j] PROVE i = j
    BY DEF Once
  <2>1. n + i = n + j
    BY <1>4 DEF Once
  <2> QED BY ONLY <2>1, <1>1, <1>4, i \in DOMAIN r, j \in DOMAIN r, n \in 0 .. Len(s)
<1>6. Range(r) \subseteq Range(s)
  BY <1>4 DEF Range
<1>7. ASSUME NEW i \in 1 .. n, NEW j \in DOMAIN r PROVE s[i] # r[j]
  <2>1. i \in 1 .. Len(s) /\ i # n + j
    BY ONLY <1>1, <1>3, <1>4, n \in 0 .. Len(s), i \in 1 .. n, j \in DOMAIN r
  <2>2. i \in DOMAIN s
    BY ONLY <2>1, <1>2
  <2> QED BY <1>4, <2>1, <2>2 DEF Once
<1>8. \A c \in Firsts(s, n) : c \notin Range(r)
  BY ONLY <1>7 DEF Firsts, Range
<1> QED BY <1>5, <1>6, <1>8 DEF r

LEMMA OnceMerged ==
    ASSUME NEW S, NEW s \in Seq(S), NEW t \in Seq(S), NEW u \in Merged(s, t), Once(s), Once(t),
           \A c \in Range(s) : c \notin Range(t)
    PROVE  Once(u)
<1> DEFINE st == s \o t
           D == DOMAIN st
<1>1. Once(st)
  BY OnceConcat
<1>2. PICK f \in Bijection(D, D) : u = [i \in D |-> st[f[i]]]
  BY DEF Merged
<1>3. f \in [D -> D] /\ \A i, j \in D : f[i] = f[j] => i = j
  BY <1>2 DEF Bijection, Injection, IsInjective
<1>4. \A i, j \in D : st[i] = st[j] => i = j
  BY <1>1 DEF Once
<1> HIDE DEF st, D
<1>5. DOMAIN u = D /\ \A i \in D : u[i] = st[f[i]] /\ f[i] \in D
  BY <1>2, <1>3
<1> SUFFICES ASSUME NEW i \in DOMAIN u, NEW j \in DOMAIN u, u[i] = u[j] PROVE i = j
  BY DEF Once
<1> QED BY ONLY <1>3, <1>4, <1>5, i \in DOMAIN u, j \in DOMAIN u, u[i] = u[j]

\* A run that was in no place of the counts given.
LEMMA OnceGiven ==
    ASSUME NEW P, NEW Q, given \in Seq([at : P, shown : Q]), shown \in Q,
           NEW s \in Seq(P), NEW n \in 0 .. Len(s), given' = Gives(SubSeq(s, 1, n)),
           GivenOnce, Once(s), \A c \in Range(s) : c \notin GivenCounts
    PROVE  GivenOnce'
<1>1. /\ Len(given) \in Nat /\ Len(s) \in Nat /\ DOMAIN s = 1 .. Len(s)
      /\ DOMAIN given = 1 .. Len(given) /\ DOMAIN given' = 1 .. Len(given) + n
      /\ \A i \in 1 .. Len(given) : given'[i].at = given[i].at
      /\ \A i \in DOMAIN given' :
            i \notin 1 .. Len(given) => /\ i - Len(given) \in 1 .. n
                                        /\ given'[i].at = s[i - Len(given)]
  BY GivenAfter
<1>2. \A i \in 1 .. n : i \in DOMAIN s
  BY ONLY <1>1, n \in 0 .. Len(s)
<1>3. \A i \in DOMAIN given : given[i].at \in GivenCounts
  BY DEF GivenCounts
<1>4. \A i \in DOMAIN s : s[i] \notin GivenCounts
  BY DEF Range
<1> SUFFICES ASSUME NEW i \in DOMAIN given', NEW j \in DOMAIN given', given'[i].at = given'[j].at
             PROVE  i = j
  BY DEF GivenOnce
<1>5. CASE i \in 1 .. Len(given)
  <2>1. j \in 1 .. Len(given)
    BY <1>1, <1>2, <1>3, <1>4, <1>5
  <2> QED BY <1>1, <1>5, <2>1 DEF GivenOnce
<1>6. CASE i \notin 1 .. Len(given)
  <2>1. j \notin 1 .. Len(given)
    BY <1>1, <1>2, <1>3, <1>4, <1>6
  <2>2. i - Len(given) = j - Len(given)
    BY <1>1, <1>2, <1>6, <2>1 DEF Once
  <2> QED BY ONLY <2>2, <1>1, n \in 0 .. Len(s), i \in DOMAIN given', j \in DOMAIN given'
<1> QED BY <1>5, <1>6

-----------------------------------------------------------------------------
\* A count that changes its box, one that stays or goes, one that comes.
LEMMA ApartMove ==
    ASSUME NEW c, Apart(c), NEW src, NEW dst,
           \A l : Has(l, c)' => Has(l, c) \/ (l = dst /\ Has(src, c)),
           ~(Has(src, c)' /\ Has(dst, c)')
    PROVE  Apart(c)'
BY DEF Apart

LEMMA ApartStay ==
    ASSUME NEW c, Apart(c), \A l : Has(l, c)' => Has(l, c)
    PROVE  Apart(c)'
BY DEF Apart

LEMMA ApartNew ==
    ASSUME NEW c, NEW dst, \A l : Has(l, c)' => l = dst
    PROVE  Apart(c)'
BY DEF Apart

\* The next count is nowhere.
LEMMA NotYet ==
    ASSUME TypeInv, NEW l PROVE ~Has(l, clock)
<1>1. /\ \A c \in Past : c < clock
      /\ queue \in [Kinds -> Seq(Past)] /\ inbox \in [Kinds -> Seq(Past)]
      /\ mine \in [Passers -> [Kinds -> Seq(Past)]] /\ local \in Seq(Past)
      /\ mineLocal \in [Passers -> Seq(Past)]
      /\ hold \in [Writers -> {<<>>} \cup (Kinds \X Past)]
      /\ GivenCounts \subseteq Past /\ clock \in Nat /\ clock # 0
  BY OrderTypes
<1>2. stamp \in [Laters -> {0} \cup Past]
  BY DEF TypeInv, WriteTypes
<1>3. clock \notin Past /\ clock \notin {0} \cup Past
  BY ONLY <1>1
<1>4. \A s \in Seq(Past) : clock \notin Range(s)
  BY ONLY <1>3, RangeType
<1>5. \A w \in Writers : hold[w] # <<>> => hold[w][2] # clock
  BY ONLY <1>1, <1>3
<1>6. \A t \in Laters : stamp[t] # clock
  BY ONLY <1>2, <1>3
<1>7. /\ \A k \in Kinds : clock \notin Range(queue[k]) /\ clock \notin Range(inbox[k])
      /\ clock \notin Range(local)
      /\ \A p \in Passers : clock \notin Range(mineLocal[p])
                            /\ \A k \in Kinds : clock \notin Range(mine[p][k])
      /\ clock \notin GivenCounts
  BY ONLY <1>1, <1>3, <1>4
<1> QED BY ONLY <1>5, <1>6, <1>7 DEF Has

LEMMA ApartCount ==
    ASSUME TypeInv, NEW w \in Writers, NEW k \in Kinds, Count(w, k),
           NEW c, Apart(c)
    PROVE  Apart(c)'
<1>1. /\ hold' = [hold EXCEPT ![w] = <<k, clock>>] /\ hold[w] = <<>>
      /\ UNCHANGED <<stamp, local, queue, inbox, mine, mineLocal, given>>
  BY DEF Count, passVars
<1>2. DOMAIN hold = Writers
  BY DEF TypeInv, WriteTypes
<1>3. hold'[w] = <<k, clock>> /\ \A v \in Writers : v # w => hold'[v] = hold[v]
  BY ONLY <1>1, <1>2, w \in Writers
<1>4. hold'[w][2] = clock
  BY <1>3
<1>5. \A l : Has(l, c)' => Has(l, c) \/ (c = clock /\ l = <<"writer", w>>)
  BY ONLY <1>1, <1>3, <1>4 DEF Has, GivenCounts
<1>6. CASE c = clock
  BY <1>5, <1>6, NotYet, ApartNew
<1>7. CASE c # clock
  BY <1>5, <1>7, ApartStay
<1> QED BY <1>6, <1>7

LEMMA ApartPush ==
    ASSUME TypeInv, NEW w \in Writers, Push(w), NEW c, Apart(c)
    PROVE  Apart(c)'
<1>1. /\ hold[w] # <<>>
      /\ queue' = [queue EXCEPT ![hold[w][1]] = Append(@, hold[w][2])]
      /\ hold' = [hold EXCEPT ![w] = <<>>]
      /\ UNCHANGED <<local, stamp, inbox, mine, mineLocal, given>>
  BY DEF Push, passVars
<1>2. queue \in [Kinds -> Seq(Past)] /\ hold \in [Writers -> {<<>>} \cup (Kinds \X Past)]
  BY OrderTypes
<1>3. hold[w][1] \in Kinds /\ hold[w][2] \in Past
  BY ONLY <1>1, <1>2, w \in Writers
<1>4. PICK k \in Kinds : k = hold[w][1]
  BY <1>3
<1>5. PICK a \in Past : a = hold[w][2]
  BY <1>3
<1>6. Range(queue'[k]) = Range(queue[k]) \cup {a}
  <2>1. queue'[k] = Append(queue[k], a)
    BY ONLY <1>1, <1>2, <1>4, <1>5
  <2> QED BY ONLY <2>1, <1>2, <1>4, <1>5, RangeAppend
<1>7. \A j \in Kinds : j # k => queue'[j] = queue[j]
  BY ONLY <1>1, <1>2, <1>4
<1>8. hold'[w] = <<>> /\ \A v \in Writers : v # w => hold'[v] = hold[v]
  BY ONLY <1>1, <1>2, w \in Writers
<1>9. \A l : Has(l, c)' => Has(l, c) \/ (l = <<"queue", k>> /\ c = a)
  <2>1. UNCHANGED <<local, stamp, inbox, mine, mineLocal, given>>
    BY <1>1
  <2> QED BY ONLY <2>1, <1>6, <1>7, <1>8 DEF Has, GivenCounts
<1>10. Has(<<"writer", w>>, a)
  BY ONLY <1>1, <1>5, w \in Writers DEF Has
<1>11. ~Has(<<"writer", w>>, c)'
  BY ONLY <1>8 DEF Has
<1> QED BY <1>9, <1>10, <1>11, ApartMove

LEMMA ApartLater ==
    ASSUME TypeInv, NEW c, c # 0, Apart(c),
           \/ \E t \in Laters : LaterStamp(t) \/ LaterPush(t)
           \/ \E q \in Passers : LaterHere(q)
    PROVE  Apart(c)'
<1>1. /\ clock \in Int /\ local \in Seq(Int) /\ Past \subseteq Int
      /\ stamp \in [Laters -> {0} \cup Past]
  <2>1. stamp \in [Laters -> {0} \cup Past]
    BY DEF TypeInv, WriteTypes
  <2>2. clock \in Int /\ local \in Seq(Int) /\ Past \subseteq Int
    BY OrderTypes
  <2> QED BY <2>1, <2>2
<1>2. ASSUME NEW t \in Laters, LaterStamp(t) PROVE Apart(c)'
  <2>1. /\ stamp[t] = 0 /\ stamp' = [stamp EXCEPT ![t] = clock]
        /\ UNCHANGED <<hold, local, queue, inbox, mine, mineLocal, given>>
    BY <1>2 DEF LaterStamp, passVars
  <2>2. stamp'[t] = clock /\ \A v \in Laters : v # t => stamp'[v] = stamp[v]
    BY ONLY <1>1, <2>1, t \in Laters
  <2>3. \A l : Has(l, c)' => Has(l, c) \/ (c = clock /\ l = <<"caller", t>>)
    BY ONLY <2>1, <2>2 DEF Has, GivenCounts
  <2> QED BY <2>3, NotYet, ApartNew, ApartStay
<1>3. ASSUME NEW t \in Laters, LaterPush(t) PROVE Apart(c)'
  <2>1. /\ stamp[t] # 0 /\ stamp' = [stamp EXCEPT ![t] = 0] /\ local' = Append(local, stamp[t])
        /\ UNCHANGED <<clock, hold, queue, inbox, mine, mineLocal, given>>
    BY <1>3 DEF LaterPush, passVars
  <2>2. stamp[t] \in Int /\ stamp'[t] = 0 /\ \A v \in Laters : v # t => stamp'[v] = stamp[v]
    BY ONLY <1>1, <2>1, t \in Laters
  <2>3. Range(local') = Range(local) \cup {stamp[t]}
    BY ONLY <1>1, <2>1, <2>2, RangeAppend
  <2>5. \A l : Has(l, c)' => Has(l, c) \/ (l = <<"own">> /\ c = stamp[t])
    BY ONLY <2>1, <2>2, <2>3, c # 0 DEF Has, GivenCounts
  <2>6. c = stamp[t] => Has(<<"caller", t>>, c)
    BY ONLY t \in Laters DEF Has
  <2>7. ~Has(<<"caller", t>>, c)'
    BY ONLY <2>2, c # 0 DEF Has
  <2> QED BY <2>5, <2>6, <2>7, ApartMove
<1>4. ASSUME NEW q \in Passers, LaterHere(q) PROVE Apart(c)'
  <2>1. /\ local' = Append(local, clock)
        /\ UNCHANGED <<stamp, hold, queue, inbox, mine, mineLocal, given>>
    BY <1>4 DEF LaterHere, passVars
  <2>2. Range(local') = Range(local) \cup {clock}
    BY ONLY <1>1, <2>1, RangeAppend
  <2>3. \A l : Has(l, c)' => Has(l, c) \/ (c = clock /\ l = <<"own">>)
    BY ONLY <2>1, <2>2 DEF Has, GivenCounts
  <2> QED BY <2>3, NotYet, ApartNew, ApartStay
<1> QED BY <1>2, <1>3, <1>4

LEMMA ApartTake ==
    ASSUME TypeInv, NEW p \in Passers, NEW c, Apart(c),
           TakeLocal(p) \/ PutBackLocal(p) \/ \E k \in Kinds : TakeQueue(p, k)
    PROVE  Apart(c)'
<1>1. /\ queue \in [Kinds -> Seq(Past)] /\ inbox \in [Kinds -> Seq(Past)]
      /\ mine \in [Passers -> [Kinds -> Seq(Past)]] /\ local \in Seq(Past)
      /\ mineLocal \in [Passers -> Seq(Past)]
  BY OrderTypes
<1>2. CASE TakeLocal(p)
  <2>1. /\ UNCHANGED <<stamp, hold, queue, inbox, mine, given>> /\ local' = <<>>
        /\ mineLocal' = [mineLocal EXCEPT ![p] = local]
    BY <1>2 DEF TakeLocal
  <2>2. mineLocal'[p] = local /\ \A q \in Passers : q # p => mineLocal'[q] = mineLocal[q]
    BY ONLY <1>1, <2>1, p \in Passers
  <2>3. Range(local') = {}
    BY ONLY <2>1, RangeEmpty
  <2>4. \A l : Has(l, c)' => Has(l, c) \/ (l = <<"mineLocal", p>> /\ Has(<<"own">>, c))
    BY ONLY <2>1, <2>2, <2>3 DEF Has, GivenCounts
  <2>5. ~Has(<<"own">>, c)'
    BY ONLY <2>3 DEF Has
  <2> QED BY <2>4, <2>5, ApartMove
<1>3. CASE PutBackLocal(p)
  <2>1. /\ UNCHANGED <<stamp, hold, queue, inbox, mine, given>>
        /\ mineLocal' = [mineLocal EXCEPT ![p] = <<>>] /\ local' = mineLocal[p] \o local
    BY <1>3 DEF PutBackLocal
  <2>2. mineLocal'[p] = <<>> /\ \A q \in Passers : q # p => mineLocal'[q] = mineLocal[q]
    BY ONLY <1>1, <2>1, p \in Passers
  <2>3. Range(local') = Range(mineLocal[p]) \cup Range(local) /\ Range(mineLocal'[p]) = {}
    BY ONLY <1>1, <2>1, <2>2, RangeConcat, RangeEmpty, p \in Passers
  <2>4. \A l : Has(l, c)' => Has(l, c) \/ (l = <<"own">> /\ Has(<<"mineLocal", p>>, c))
    BY ONLY <2>1, <2>2, <2>3, p \in Passers DEF Has, GivenCounts
  <2>5. ~Has(<<"mineLocal", p>>, c)'
    BY ONLY <2>3 DEF Has
  <2> QED BY <2>4, <2>5, ApartMove
<1>4. ASSUME NEW k \in Kinds, TakeQueue(p, k) PROVE Apart(c)'
  <2>1. /\ UNCHANGED <<stamp, hold, inbox, local, mineLocal, given>>
        /\ mine' = [mine EXCEPT ![p][k] = @ \o queue[k]]
        /\ queue' = [queue EXCEPT ![k] = <<>>]
    BY <1>4 DEF TakeQueue
  <2>2. /\ mine'[p][k] = mine[p][k] \o queue[k] /\ queue'[k] = <<>>
        /\ \A q \in Passers : \A j \in Kinds : q # p \/ j # k => mine'[q][j] = mine[q][j]
        /\ \A j \in Kinds : j # k => queue'[j] = queue[j]
    BY ONLY <1>1, <2>1, p \in Passers, k \in Kinds
  <2>3. Range(mine'[p][k]) = Range(mine[p][k]) \cup Range(queue[k]) /\ Range(queue'[k]) = {}
    BY ONLY <1>1, <2>2, RangeConcat, RangeEmpty, p \in Passers, k \in Kinds
  <2>4. \A l : Has(l, c)' => Has(l, c) \/ (l = <<"mine", p, k>> /\ Has(<<"queue", k>>, c))
    <3>1. UNCHANGED <<stamp, hold, inbox, local, mineLocal, given>>
      BY <2>1
    <3>2. \A q \in Passers : \A j \in Kinds : c \in Range(mine'[q][j]) =>
             c \in Range(mine[q][j]) \/ (q = p /\ j = k /\ c \in Range(queue[k]))
      BY ONLY <2>2, <2>3
    <3>3. \A j \in Kinds : c \in Range(queue'[j]) => c \in Range(queue[j])
      BY ONLY <2>2, <2>3
    <3> QED BY ONLY <3>1, <3>2, <3>3, k \in Kinds DEF Has, GivenCounts
  <2>5. ~Has(<<"queue", k>>, c)'
    BY ONLY <2>3 DEF Has
  <2> QED BY <2>4, <2>5, ApartMove
<1> QED BY <1>2, <1>3, <1>4

LEMMA ApartInbox ==
    ASSUME TypeInv, NEW p \in Passers, NEW c, Apart(c), TakeInbox(p) \/ MergeInbox(p)
    PROVE  Apart(c)'
<1>1. mine \in [Passers -> [Kinds -> Seq(Past)]] /\ inbox \in [Kinds -> Seq(Past)]
  BY OrderTypes
<1>2. \A k \in Kinds : Range(NoAnswers[k]) = {}
  BY ONLY RangeEmpty DEF NoAnswers
<1>3. CASE TakeInbox(p)
  <2>1. /\ UNCHANGED <<stamp, hold, queue, local, mineLocal, given>>
        /\ mine' = [mine EXCEPT ![p] = inbox] /\ inbox' = NoAnswers
    BY <1>3 DEF TakeInbox, writeVars
  <2>2. mine'[p] = inbox /\ \A q \in Passers : q # p => mine'[q] = mine[q]
    BY ONLY <1>1, <2>1, p \in Passers
  <2>3. \A k \in Kinds : Range(inbox'[k]) = {}
    BY ONLY <2>1, <1>2
  <2>4. ASSUME NEW k \in Kinds, c \in Range(inbox[k]) PROVE Apart(c)'
    <3>1. Has(<<"inbox", k>>, c)
      BY ONLY <2>4 DEF Has
    <3>2. \A j \in Kinds : c \in Range(inbox[j]) => j = k
      <4> SUFFICES ASSUME NEW j \in Kinds, c \in Range(inbox[j]) PROVE j = k
        OBVIOUS
      <4>1. Has(<<"inbox", j>>, c)
        BY DEF Has
      <4>2. <<"inbox", j>> = <<"inbox", k>>
        BY ONLY <3>1, <4>1, Apart(c) DEF Apart
      <4> QED BY ONLY <4>2
    <3>3. \A l : Has(l, c)' => Has(l, c) \/ (l = <<"mine", p, k>> /\ Has(<<"inbox", k>>, c))
      BY ONLY <2>1, <2>2, <2>3, <3>1, <3>2 DEF Has, GivenCounts
    <3>4. ~Has(<<"inbox", k>>, c)'
      BY ONLY <2>3 DEF Has
    <3> QED BY ONLY <3>3, <3>4, Apart(c), ApartMove
  <2>5. CASE \A k \in Kinds : c \notin Range(inbox[k])
    <3>1. \A l : Has(l, c)' => Has(l, c)
      BY ONLY <2>1, <2>2, <2>3, <2>5 DEF Has, GivenCounts
    <3> QED BY <3>1, ApartStay
  <2> QED BY <2>4, <2>5
<1>4. CASE MergeInbox(p)
  <2>1. /\ UNCHANGED <<stamp, hold, queue, local, mineLocal, given>>
        /\ mine' = [mine EXCEPT ![p] = NoAnswers]
    BY <1>4 DEF MergeInbox, writeVars
  <2>2. mine'[p] = NoAnswers /\ \A q \in Passers : q # p => mine'[q] = mine[q]
    BY ONLY <1>1, <2>1, p \in Passers
  <2>3. \A k \in Kinds : Range(mine'[p][k]) = {}
    BY ONLY <2>2, <1>2
  <2>4. \A k \in Kinds : Range(inbox'[k]) = Range(inbox[k]) \cup Range(mine[p][k])
    BY <1>4, MergeRange
  <2>5. ASSUME NEW k \in Kinds, c \in Range(mine[p][k]) PROVE Apart(c)'
    <3>1. Has(<<"mine", p, k>>, c)
      BY ONLY <2>5, p \in Passers DEF Has
    <3>2. \A j \in Kinds : c \in Range(mine[p][j]) => j = k
      <4> SUFFICES ASSUME NEW j \in Kinds, c \in Range(mine[p][j]) PROVE j = k
        OBVIOUS
      <4>1. Has(<<"mine", p, j>>, c)
        BY DEF Has
      <4>2. <<"mine", p, j>> = <<"mine", p, k>>
        BY ONLY <3>1, <4>1, Apart(c) DEF Apart
      <4> QED BY ONLY <4>2
    <3>3. \A l : Has(l, c)' => Has(l, c) \/ (l = <<"inbox", k>> /\ Has(<<"mine", p, k>>, c))
      <4>1. UNCHANGED <<stamp, hold, queue, local, mineLocal, given>>
        BY <2>1
      <4>2. \A q \in Passers : \A j \in Kinds : c \in Range(mine'[q][j]) => c \in Range(mine[q][j])
        BY ONLY <2>2, <2>3
      <4>3. \A j \in Kinds : c \in Range(inbox'[j]) => c \in Range(inbox[j]) \/ j = k
        BY ONLY <2>4, <3>2
      <4> QED BY ONLY <4>1, <4>2, <4>3, <3>1 DEF Has, GivenCounts
    <3>4. ~Has(<<"mine", p, k>>, c)'
      BY ONLY <2>3 DEF Has
    <3> QED BY ONLY <3>3, <3>4, Apart(c), ApartMove
  <2>6. CASE \A k \in Kinds : c \notin Range(mine[p][k])
    <3>1. \A l : Has(l, c)' => Has(l, c)
      BY ONLY <2>1, <2>2, <2>3, <2>4, <2>6 DEF Has, GivenCounts
    <3> QED BY <3>1, ApartStay
  <2> QED BY <2>5, <2>6
<1> QED BY <1>3, <1>4

LEMMA ApartGive ==
    ASSUME TypeInv, OnceInv, NEW p \in Passers, NEW c, Apart(c),
           GiveLocal(p) \/ \E k \in Kinds : GiveQueue(p, k)
    PROVE  Apart(c)'
<1>1. TypeOK /\ given \in Seq([at : Past, shown : 0 .. state]) /\ shown \in 0 .. state
  BY TypeInvImplies DEF TypeInv, PassTypes
<1>2. mine \in [Passers -> [Kinds -> Seq(Past)]] /\ mineLocal \in [Passers -> Seq(Past)]
  BY OrderTypes
<1>3. CASE GiveLocal(p)
  <2>1. UNCHANGED <<stamp, hold, queue, inbox, local, mine>>
    BY <1>3 DEF GiveLocal, writeVars
  <2>2. PICK n \in Nat : OwnRun(p, n)
    BY <1>1, <1>3, OwnRuns
  <2> DEFINE s == mineLocal[p]
             r == SubSeq(s, n + 1, Len(s))
  <2>3. /\ n \in 0 .. Len(s) /\ given' = Gives(SubSeq(s, 1, n))
        /\ mineLocal' = [mineLocal EXCEPT ![p] = r] /\ s \in Seq(Past) /\ Once(s)
    BY <2>2, <1>2 DEF OwnRun, OnceInv
  <2>4. mineLocal'[p] = r /\ \A q \in Passers : q # p => mineLocal'[q] = mineLocal[q]
    BY ONLY <1>2, <2>3, p \in Passers
  <2>5. GivenCounts' = GivenCounts \cup Firsts(s, n)
    BY ONLY <1>1, <2>3, GivenAfter
  <2>6. Range(r) \subseteq Range(s) /\ \A b \in Firsts(s, n) : b \notin Range(r)
    BY ONLY <2>3, OnceRest
  <2>7. Firsts(s, n) \subseteq Range(s)
    BY ONLY <2>3, LenProperties DEF Firsts, Range
  <2> HIDE DEF r
  <2>8. \A l : Has(l, c)' => Has(l, c) \/ (l = <<"given">> /\ Has(<<"mineLocal", p>>, c))
    BY ONLY <2>1, <2>4, <2>5, <2>6, <2>7, p \in Passers DEF Has
  <2>9. ~(Has(<<"mineLocal", p>>, c)' /\ Has(<<"given">>, c)')
    <3> SUFFICES ASSUME Has(<<"mineLocal", p>>, c)', Has(<<"given">>, c)' PROVE FALSE
      OBVIOUS
    <3>1. c \in Range(r) /\ c \in GivenCounts'
      BY <2>4 DEF Has
    <3>2. c \in GivenCounts /\ c \in Range(s)
      BY ONLY <3>1, <2>5, <2>6
    <3>3. Has(<<"mineLocal", p>>, c) /\ Has(<<"given">>, c)
      BY ONLY <3>2, p \in Passers DEF Has
    <3>4. <<"mineLocal", p>> = <<"given">>
      BY ONLY <3>3, Apart(c) DEF Apart
    <3> QED BY ONLY <3>4
  <2> QED BY <2>8, <2>9, ApartMove
<1>4. ASSUME NEW k \in Kinds, GiveQueue(p, k) PROVE Apart(c)'
  <2>1. UNCHANGED <<stamp, hold, queue, inbox, local, mineLocal>>
    BY <1>4 DEF GiveQueue, writeVars
  <2>2. PICK n \in Nat : QueueRun(p, k, n)
    BY <1>1, <1>4, QueueRuns
  <2> DEFINE s == mine[p][k]
             r == SubSeq(s, n + 1, Len(s))
  <2>3. /\ n \in 0 .. Len(s) /\ given' = Gives(SubSeq(s, 1, n))
        /\ mine' = [mine EXCEPT ![p][k] = r] /\ s \in Seq(Past) /\ Once(s)
    BY <2>2, <1>2 DEF QueueRun, OnceInv
  <2>4. /\ mine'[p][k] = r
        /\ \A q \in Passers : \A j \in Kinds : q # p \/ j # k => mine'[q][j] = mine[q][j]
    BY ONLY <1>2, <2>3, p \in Passers, k \in Kinds
  <2>5. GivenCounts' = GivenCounts \cup Firsts(s, n)
    BY ONLY <1>1, <2>3, GivenAfter
  <2>6. Range(r) \subseteq Range(s) /\ \A b \in Firsts(s, n) : b \notin Range(r)
    BY ONLY <2>3, OnceRest
  <2>7. Firsts(s, n) \subseteq Range(s)
    BY ONLY <2>3, LenProperties DEF Firsts, Range
  <2> HIDE DEF r
  <2>8. \A l : Has(l, c)' => Has(l, c) \/ (l = <<"given">> /\ Has(<<"mine", p, k>>, c))
    BY ONLY <2>1, <2>4, <2>5, <2>6, <2>7, p \in Passers, k \in Kinds DEF Has
  <2>9. ~(Has(<<"mine", p, k>>, c)' /\ Has(<<"given">>, c)')
    <3> SUFFICES ASSUME Has(<<"mine", p, k>>, c)', Has(<<"given">>, c)' PROVE FALSE
      OBVIOUS
    <3>1. c \in Range(r) /\ c \in GivenCounts'
      BY <2>4 DEF Has
    <3>2. c \in GivenCounts /\ c \in Range(s)
      BY ONLY <3>1, <2>5, <2>6
    <3>3. Has(<<"mine", p, k>>, c) /\ Has(<<"given">>, c)
      BY ONLY <3>2, p \in Passers, k \in Kinds DEF Has
    <3>4. <<"mine", p, k>> = <<"given">>
      BY ONLY <3>3, Apart(c) DEF Apart
    <3> QED BY ONLY <3>4
  <2> QED BY <2>8, <2>9, ApartMove
<1> QED BY <1>3, <1>4

\* The boxes, and the steps that move a count between them.
boxes == <<hold, stamp, queue, inbox, local, mine, mineLocal, given>>

Move ==
    \/ UNCHANGED boxes
    \/ \E w \in Writers : Push(w) \/ \E k \in Kinds : Count(w, k)
    \/ \E t \in Laters : LaterStamp(t) \/ LaterPush(t)
    \/ \E p \in Passers :
          \/ LaterHere(p) \/ TakeLocal(p) \/ TakeInbox(p) \/ MergeInbox(p) \/ PutBackLocal(p)
          \/ GiveLocal(p) \/ \E k \in Kinds : TakeQueue(p, k) \/ GiveQueue(p, k)

LEMMA Moves == TypeInv /\ [Next]_vars => Move
<1> SUFFICES ASSUME TypeInv, [Next]_vars PROVE Move
  OBVIOUS
<1>1. program.callers \subseteq Callers /\ program.laters \subseteq Laters
      /\ program.passers \subseteq Passers
  BY AnswerOrderAssumption DEF TypeInv
<1>2. CASE UNCHANGED vars \/ ChangeState \/ SetConnectionLost \/ NoteStep
  <2>1. UNCHANGED boxes
    BY <1>2 DEF vars, writeVars, passVars, boxes, ChangeState, SetConnectionLost, NoteStep, NoteLoad,
                NoteCount, NoteMark
  <2> QED BY <2>1 DEF Move
<1>3. CASE WriteStep
  BY <1>1, <1>2, <1>3 DEF WriteStep, Move, Writers
<1>4. CASE (\E w \in Writers : PushStep(w)) \/ (\E t \in Laters : LaterStep(t))
  BY <1>4 DEF PushStep, LaterStep, Move
<1>5. ASSUME NEW p \in Passers, PassStep(p) PROVE Move
  <2>1. CASE \/ ReadClock(p) \/ TakeDone(p) \/ GiveState(p) \/ ReadState(p) \/ LastState(p)
             \/ LastRead(p) \/ TakeLost(p) \/ Close(p)
    <3>1. UNCHANGED boxes
      BY <2>1 DEF writeVars, boxes, ReadClock, TakeDone, GiveState, ReadState, LastState, LastRead,
                  TakeLost, Close
    <3> QED BY <3>1 DEF Move
  <2> QED BY <1>5, <2>1 DEF PassStep, Move
<1> QED BY <1>2, <1>3, <1>4, <1>5 DEF Next

LEMMA ClockStep == [Next]_vars => clock' = clock \/ clock' = clock + 1
<1> SUFFICES ASSUME [Next]_vars PROVE clock' = clock \/ clock' = clock + 1
  OBVIOUS
<1>1. CASE WriteStep \/ NoteStep
  BY <1>1 DEF WriteStep, Count, LaterStamp, LaterHere, writeVars, ChangeState, SetConnectionLost,
              NoteStep, NoteLoad, NoteCount, NoteMark
<1>2. CASE (\E w \in Writers : PushStep(w)) \/ (\E t \in Laters : LaterStep(t))
  BY <1>2 DEF PushStep, Push, LaterStep, LaterPush
<1>3. CASE UNCHANGED vars
  BY <1>3 DEF vars, writeVars
<1> QED BY <1>1, <1>2, <1>3, PassClock DEF Next

LEMMA ApartStep == TypeInv /\ OnceInv /\ ApartInv /\ [Next]_vars => ApartInv'
<1> SUFFICES ASSUME TypeInv, OnceInv, ApartInv, [Next]_vars, NEW c \in Past' PROVE Apart(c)'
  BY DEF ApartInv
<1>1. clock \in Nat /\ clock # 0
  BY OrderTypes
<1>2. clock' = clock \/ clock' = clock + 1
  BY ClockStep
<1>3. c \in Past \/ c = clock
  BY ONLY <1>1, <1>2, c \in Past' DEF Past
<1>4. Apart(c)
  BY <1>3, NotYet DEF ApartInv, Apart
<1>5. c # 0
  BY ONLY <1>1, <1>3 DEF Past
<1>6. CASE UNCHANGED boxes
  <2>1. \A l : Has(l, c)' => Has(l, c)
    BY ONLY <1>6 DEF boxes, Has, GivenCounts
  <2> QED BY <2>1, <1>4, ApartStay
<1>7. ASSUME NEW w \in Writers, NEW k \in Kinds, Count(w, k) PROVE Apart(c)'
  BY <1>4, <1>7, ApartCount
<1>8. CASE \/ \E t \in Laters : LaterStamp(t) \/ LaterPush(t)
           \/ \E q \in Passers : LaterHere(q)
  BY <1>4, <1>5, <1>8, ApartLater
<1>9. ASSUME NEW w \in Writers, Push(w) PROVE Apart(c)'
  BY <1>4, <1>9, ApartPush
<1>10. ASSUME NEW p \in Passers,
              TakeLocal(p) \/ PutBackLocal(p) \/ \E k \in Kinds : TakeQueue(p, k)
       PROVE  Apart(c)'
  BY <1>4, <1>10, ApartTake
<1>11. ASSUME NEW p \in Passers, TakeInbox(p) \/ MergeInbox(p) PROVE Apart(c)'
  BY <1>4, <1>11, ApartInbox
<1>12. ASSUME NEW p \in Passers, GiveLocal(p) \/ \E k \in Kinds : GiveQueue(p, k) PROVE Apart(c)'
  BY <1>4, <1>12, ApartGive
<1> QED BY <1>6, <1>7, <1>8, <1>9, <1>10, <1>11, <1>12, Moves DEF Move

-----------------------------------------------------------------------------
\* Boxes of the counts given out share none.
LEMMA BoxesApart ==
    ASSUME TypeInv, ApartInv, NEW l, NEW m, NEW c \in Past, Has(l, c), Has(m, c)
    PROVE  l = m
BY DEF ApartInv, Apart

LEMMA OnceWrites ==
    ASSUME TypeInv, ApartInv, OnceInv,
           \/ \E w \in Writers : Push(w)
           \/ \E t \in Laters : LaterPush(t)
           \/ \E q \in Passers : LaterHere(q)
    PROVE  OnceInv'
<1>1. /\ clock \in Int /\ local \in Seq(Int) /\ Past \subseteq Int /\ \A c \in Past : c < clock
      /\ queue \in [Kinds -> Seq(Past)] /\ hold \in [Writers -> {<<>>} \cup (Kinds \X Past)]
      /\ local \in Seq(Past)
  BY OrderTypes
<1>2. stamp \in [Laters -> {0} \cup Past]
  BY DEF TypeInv, WriteTypes
<1>3. ASSUME NEW w \in Writers, Push(w) PROVE OnceInv'
  <2>1. /\ hold[w] # <<>>
        /\ queue' = [queue EXCEPT ![hold[w][1]] = Append(@, hold[w][2])]
        /\ UNCHANGED <<local, inbox, mine, mineLocal, given>>
    BY <1>3 DEF Push, passVars
  <2>2. hold[w][1] \in Kinds /\ hold[w][2] \in Past
    BY ONLY <1>1, <2>1, w \in Writers
  <2>3. PICK k \in Kinds : k = hold[w][1]
    BY <2>2
  <2>4. PICK a \in Past : a = hold[w][2]
    BY <2>2
  <2>5. a \notin Range(queue[k])
    <3> SUFFICES ASSUME a \in Range(queue[k]) PROVE FALSE
      OBVIOUS
    <3>1. Has(<<"writer", w>>, a) /\ Has(<<"queue", k>>, a)
      BY <2>1, <2>4 DEF Has
    <3>2. <<"writer", w>> = <<"queue", k>>
      BY <3>1, BoxesApart
    <3> QED BY ONLY <3>2
  <2>6. Once(queue'[k])
    <3>1. queue'[k] = Append(queue[k], a) /\ queue[k] \in Seq(Past)
      BY ONLY <1>1, <2>1, <2>3, <2>4
    <3>2. Once(queue[k])
      BY DEF OnceInv
    <3> QED BY ONLY <3>1, <3>2, <2>5, OnceAppend, a \in Past
  <2>7. \A j \in Kinds : j # k => queue'[j] = queue[j]
    BY ONLY <1>1, <2>1, <2>3
  <2>8. \A j \in Kinds : Once(queue'[j])
    BY ONLY <2>6, <2>7, OnceInv DEF OnceInv
  <2>9. UNCHANGED <<local, inbox, mine, mineLocal, given>>
    BY <2>1
  <2> QED BY ONLY <2>8, <2>9, OnceInv DEF OnceInv, GivenOnce
<1>4. ASSUME NEW t \in Laters, LaterPush(t) PROVE OnceInv'
  <2>1. /\ stamp[t] # 0 /\ local' = Append(local, stamp[t])
        /\ UNCHANGED <<queue, inbox, mine, mineLocal, given>>
    BY <1>4 DEF LaterPush, passVars
  <2>2. stamp[t] \in Past
    BY ONLY <1>2, <2>1, t \in Laters
  <2>3. PICK a \in Past : a = stamp[t]
    BY <2>2
  <2>4. a \notin Range(local)
    <3> SUFFICES ASSUME a \in Range(local) PROVE FALSE
      OBVIOUS
    <3>1. Has(<<"caller", t>>, a) /\ Has(<<"own">>, a)
      BY <2>3 DEF Has
    <3>2. <<"caller", t>> = <<"own">>
      BY <3>1, BoxesApart
    <3> QED BY ONLY <3>2
  <2>5. Once(local)
    BY DEF OnceInv
  <2>6. Once(local')
    BY ONLY <1>1, <2>1, <2>3, <2>4, <2>5, OnceAppend
  <2> QED BY ONLY <2>1, <2>6, OnceInv DEF OnceInv, GivenOnce
<1>5. ASSUME NEW q \in Passers, LaterHere(q) PROVE OnceInv'
  <2>1. local' = Append(local, clock) /\ UNCHANGED <<queue, inbox, mine, mineLocal, given>>
    BY <1>5 DEF LaterHere, passVars
  <2>2. clock \notin Range(local)
    <3>1. clock \notin Past
      BY ONLY <1>1
    <3> QED BY ONLY <3>1, <1>1, RangeType
  <2>3. Once(local)
    BY DEF OnceInv
  <2>4. Once(local')
    BY ONLY <1>1, <2>1, <2>2, <2>3, OnceAppend
  <2> QED BY ONLY <2>1, <2>4, OnceInv DEF OnceInv, GivenOnce
<1> QED BY <1>3, <1>4, <1>5

LEMMA OnceTakes ==
    ASSUME TypeInv, ApartInv, OnceInv, NEW p \in Passers,
           TakeLocal(p) \/ PutBackLocal(p) \/ TakeInbox(p) \/ \E k \in Kinds : TakeQueue(p, k)
    PROVE  OnceInv'
<1>1. /\ queue \in [Kinds -> Seq(Past)] /\ inbox \in [Kinds -> Seq(Past)]
      /\ mine \in [Passers -> [Kinds -> Seq(Past)]] /\ local \in Seq(Past)
      /\ mineLocal \in [Passers -> Seq(Past)]
  BY OrderTypes
<1>2. /\ Once(local) /\ Once(mineLocal[p]) /\ \A k \in Kinds : Once(queue[k]) /\ Once(inbox[k])
      /\ \A k \in Kinds : Once(mine[p][k])
  BY DEF OnceInv
<1>3. CASE TakeLocal(p)
  <2>1. /\ UNCHANGED <<queue, inbox, mine, given>> /\ local' = <<>>
        /\ mineLocal' = [mineLocal EXCEPT ![p] = local]
    BY <1>3 DEF TakeLocal
  <2>2. mineLocal'[p] = local /\ \A q \in Passers : q # p => mineLocal'[q] = mineLocal[q]
    BY ONLY <1>1, <2>1, p \in Passers
  <2>3. \A q \in Passers : Once(mineLocal'[q])
    BY ONLY <1>2, <2>2, OnceInv DEF OnceInv
  <2> QED BY ONLY <2>1, <2>3, OnceInv, OnceEmpty DEF OnceInv, GivenOnce
<1>4. CASE PutBackLocal(p)
  <2>1. /\ UNCHANGED <<queue, inbox, mine, given>>
        /\ mineLocal' = [mineLocal EXCEPT ![p] = <<>>] /\ local' = mineLocal[p] \o local
    BY <1>4 DEF PutBackLocal
  <2>2. mineLocal'[p] = <<>> /\ \A q \in Passers : q # p => mineLocal'[q] = mineLocal[q]
    BY ONLY <1>1, <2>1, p \in Passers
  <2>3. \A q \in Passers : Once(mineLocal'[q])
    BY ONLY <2>2, OnceInv, OnceEmpty DEF OnceInv
  <2>4. ASSUME NEW c \in Range(mineLocal[p]), c \in Range(local) PROVE FALSE
    <3>1. c \in Past
      BY ONLY <1>1, <2>4, RangeType
    <3>2. Has(<<"mineLocal", p>>, c) /\ Has(<<"own">>, c)
      BY <2>4 DEF Has
    <3>3. <<"mineLocal", p>> = <<"own">>
      BY <3>1, <3>2, BoxesApart
    <3> QED BY ONLY <3>3
  <2>5. Once(local')
    BY ONLY <1>1, <1>2, <2>1, <2>4, OnceConcat, p \in Passers
  <2>6. UNCHANGED <<queue, inbox, mine, given>>
    BY <2>1
  <2> QED BY ONLY <2>3, <2>5, <2>6, OnceInv DEF OnceInv, GivenOnce
<1>5. CASE TakeInbox(p)
  <2>1. /\ UNCHANGED <<queue, local, mineLocal, given>>
        /\ mine' = [mine EXCEPT ![p] = inbox] /\ inbox' = NoAnswers
    BY <1>5 DEF TakeInbox, writeVars
  <2>2. mine'[p] = inbox /\ \A q \in Passers : q # p => mine'[q] = mine[q]
    BY ONLY <1>1, <2>1, p \in Passers
  <2>3. \A q \in Passers : \A k \in Kinds : Once(mine'[q][k])
    BY ONLY <1>2, <2>2, OnceInv DEF OnceInv
  <2>4. \A k \in Kinds : Once(inbox'[k])
    BY ONLY <2>1, OnceEmpty DEF NoAnswers
  <2> QED BY ONLY <2>1, <2>3, <2>4, OnceInv DEF OnceInv, GivenOnce
<1>6. ASSUME NEW k \in Kinds, TakeQueue(p, k) PROVE OnceInv'
  <2>1. /\ UNCHANGED <<inbox, local, mineLocal, given>>
        /\ mine' = [mine EXCEPT ![p][k] = @ \o queue[k]]
        /\ queue' = [queue EXCEPT ![k] = <<>>]
    BY <1>6 DEF TakeQueue
  <2>2. /\ mine'[p][k] = mine[p][k] \o queue[k] /\ queue'[k] = <<>>
        /\ \A q \in Passers : \A j \in Kinds : q # p \/ j # k => mine'[q][j] = mine[q][j]
        /\ \A j \in Kinds : j # k => queue'[j] = queue[j]
    BY ONLY <1>1, <2>1, p \in Passers, k \in Kinds
  <2>3. ASSUME NEW c \in Range(mine[p][k]), c \in Range(queue[k]) PROVE FALSE
    <3>1. c \in Past
      BY ONLY <1>1, <2>3, RangeType
    <3>2. Has(<<"mine", p, k>>, c) /\ Has(<<"queue", k>>, c)
      BY <2>3 DEF Has
    <3>3. <<"mine", p, k>> = <<"queue", k>>
      BY <3>1, <3>2, BoxesApart
    <3> QED BY ONLY <3>3
  <2>4. Once(mine'[p][k])
    <3>1. mine[p][k] \in Seq(Past) /\ queue[k] \in Seq(Past)
      BY ONLY <1>1, p \in Passers, k \in Kinds
    <3> QED BY ONLY <3>1, <1>2, <2>2, <2>3, OnceConcat, k \in Kinds
  <2>5. \A q \in Passers : \A j \in Kinds : Once(mine'[q][j])
    BY ONLY <2>2, <2>4, OnceInv DEF OnceInv
  <2>6. \A j \in Kinds : Once(queue'[j])
    BY ONLY <2>2, OnceInv, OnceEmpty DEF OnceInv
  <2>7. UNCHANGED <<inbox, local, mineLocal, given>>
    BY <2>1
  <2> QED BY ONLY <2>5, <2>6, <2>7, OnceInv DEF OnceInv, GivenOnce
<1> QED BY <1>3, <1>4, <1>5, <1>6

LEMMA OnceMerge ==
    ASSUME TypeInv, ApartInv, OnceInv, NEW p \in Passers, MergeInbox(p)
    PROVE  OnceInv'
<1>1. /\ UNCHANGED <<queue, local, mineLocal, given>>
      /\ mine' = [mine EXCEPT ![p] = NoAnswers]
  BY DEF MergeInbox, writeVars
<1>2. mine \in [Passers -> [Kinds -> Seq(Past)]] /\ inbox \in [Kinds -> Seq(Past)]
  BY OrderTypes
<1>3. mine'[p] = NoAnswers /\ \A q \in Passers : q # p => mine'[q] = mine[q]
  BY ONLY <1>1, <1>2, p \in Passers
<1>4. \A q \in Passers : \A k \in Kinds : Once(mine'[q][k])
  <2>1. \A k \in Kinds : Once(mine'[p][k])
    BY ONLY <1>3, OnceEmpty DEF NoAnswers
  <2> QED BY ONLY <1>3, <2>1, OnceInv DEF OnceInv
<1>5. ASSUME NEW k \in Kinds PROVE Once(inbox'[k])
  <2>1. Once(inbox[k]) /\ Once(mine[p][k])
    BY DEF OnceInv
  <2>2. CASE inbox = NoAnswers
    <3>1. inbox' = mine[p]
      BY <2>2 DEF MergeInbox
    <3> QED BY ONLY <3>1, <2>1
  <2>3. CASE inbox # NoAnswers
    <3>1. inbox'[k] \in Merged(inbox[k], mine[p][k])
      BY <2>3 DEF MergeInbox
    <3>2. inbox[k] \in Seq(Past) /\ mine[p][k] \in Seq(Past)
      BY ONLY <1>2, p \in Passers, k \in Kinds
    <3>3. ASSUME NEW c \in Range(inbox[k]), c \in Range(mine[p][k]) PROVE FALSE
      <4>1. c \in Past
        BY ONLY <3>2, <3>3, RangeType
      <4>2. Has(<<"inbox", k>>, c) /\ Has(<<"mine", p, k>>, c)
        BY <3>3 DEF Has
      <4>3. <<"inbox", k>> = <<"mine", p, k>>
        BY <4>1, <4>2, BoxesApart
      <4> QED BY ONLY <4>3
    <3> QED BY ONLY <2>1, <3>1, <3>2, <3>3, OnceMerged
  <2> QED BY <2>2, <2>3
<1>6. UNCHANGED <<queue, local, mineLocal, given>>
  BY <1>1
<1> QED BY ONLY <1>4, <1>5, <1>6, OnceInv DEF OnceInv, GivenOnce

LEMMA OnceGives ==
    ASSUME TypeInv, ApartInv, OnceInv, NEW p \in Passers,
           GiveLocal(p) \/ \E k \in Kinds : GiveQueue(p, k)
    PROVE  OnceInv'
<1>1. TypeOK /\ given \in Seq([at : Past, shown : 0 .. state]) /\ shown \in 0 .. state
  BY TypeInvImplies DEF TypeInv, PassTypes
<1>2. mine \in [Passers -> [Kinds -> Seq(Past)]] /\ mineLocal \in [Passers -> Seq(Past)]
  BY OrderTypes
<1>3. GivenOnce
  BY DEF OnceInv
<1>4. CASE GiveLocal(p)
  <2>1. UNCHANGED <<queue, inbox, local, mine>>
    BY <1>4 DEF GiveLocal, writeVars
  <2>2. PICK n \in Nat : OwnRun(p, n)
    BY <1>1, <1>4, OwnRuns
  <2> DEFINE s == mineLocal[p]
             r == SubSeq(s, n + 1, Len(s))
  <2>3. /\ n \in 0 .. Len(s) /\ given' = Gives(SubSeq(s, 1, n))
        /\ mineLocal' = [mineLocal EXCEPT ![p] = r] /\ s \in Seq(Past) /\ Once(s)
    BY <2>2, <1>2 DEF OwnRun, OnceInv
  <2>4. mineLocal'[p] = r /\ \A q \in Passers : q # p => mineLocal'[q] = mineLocal[q]
    BY ONLY <1>2, <2>3, p \in Passers
  <2>5. Once(r)
    BY ONLY <2>3, OnceRest
  <2>6. ASSUME NEW c \in Range(s), c \in GivenCounts PROVE FALSE
    <3>1. c \in Past
      BY ONLY <2>3, <2>6, RangeType
    <3>2. Has(<<"mineLocal", p>>, c) /\ Has(<<"given">>, c)
      BY <2>6 DEF Has
    <3>3. <<"mineLocal", p>> = <<"given">>
      BY <3>1, <3>2, BoxesApart
    <3> QED BY ONLY <3>3
  <2>7. GivenOnce'
    BY ONLY <1>1, <1>3, <2>3, <2>6, OnceGiven
  <2> HIDE DEF r
  <2>8. \A q \in Passers : Once(mineLocal'[q])
    BY ONLY <2>4, <2>5, OnceInv DEF OnceInv
  <2> QED BY ONLY <2>1, <2>7, <2>8, OnceInv DEF OnceInv
<1>5. ASSUME NEW k \in Kinds, GiveQueue(p, k) PROVE OnceInv'
  <2>1. UNCHANGED <<queue, inbox, local, mineLocal>>
    BY <1>5 DEF GiveQueue, writeVars
  <2>2. PICK n \in Nat : QueueRun(p, k, n)
    BY <1>1, <1>5, QueueRuns
  <2> DEFINE s == mine[p][k]
             r == SubSeq(s, n + 1, Len(s))
  <2>3. /\ n \in 0 .. Len(s) /\ given' = Gives(SubSeq(s, 1, n))
        /\ mine' = [mine EXCEPT ![p][k] = r] /\ s \in Seq(Past) /\ Once(s)
    BY <2>2, <1>2 DEF QueueRun, OnceInv
  <2>4. /\ mine'[p][k] = r
        /\ \A q \in Passers : \A j \in Kinds : q # p \/ j # k => mine'[q][j] = mine[q][j]
    BY ONLY <1>2, <2>3, p \in Passers, k \in Kinds
  <2>5. Once(r)
    BY ONLY <2>3, OnceRest
  <2>6. ASSUME NEW c \in Range(s), c \in GivenCounts PROVE FALSE
    <3>1. c \in Past
      BY ONLY <2>3, <2>6, RangeType
    <3>2. Has(<<"mine", p, k>>, c) /\ Has(<<"given">>, c)
      BY <2>6 DEF Has
    <3>3. <<"mine", p, k>> = <<"given">>
      BY <3>1, <3>2, BoxesApart
    <3> QED BY ONLY <3>3
  <2>7. GivenOnce'
    BY ONLY <1>1, <1>3, <2>3, <2>6, OnceGiven
  <2> HIDE DEF r
  <2>8. \A q \in Passers : \A j \in Kinds : Once(mine'[q][j])
    BY ONLY <2>4, <2>5, OnceInv DEF OnceInv
  <2> QED BY ONLY <2>1, <2>7, <2>8, OnceInv DEF OnceInv
<1> QED BY <1>4, <1>5

LEMMA OnceStep == TypeInv /\ ApartInv /\ OnceInv /\ [Next]_vars => OnceInv'
<1> SUFFICES ASSUME TypeInv, ApartInv, OnceInv, [Next]_vars PROVE OnceInv'
  OBVIOUS
<1>1. CASE \/ UNCHANGED boxes
           \/ \E w \in Writers : \E k \in Kinds : Count(w, k)
           \/ \E t \in Laters : LaterStamp(t)
  <2>1. UNCHANGED <<queue, inbox, local, mine, mineLocal, given>>
    BY <1>1 DEF boxes, Count, LaterStamp, passVars
  <2> QED BY <2>1 DEF OnceInv, GivenOnce
<1>2. CASE \/ \E w \in Writers : Push(w)
           \/ \E t \in Laters : LaterPush(t)
           \/ \E q \in Passers : LaterHere(q)
  BY <1>2, OnceWrites
<1>3. ASSUME NEW p \in Passers,
             TakeLocal(p) \/ PutBackLocal(p) \/ TakeInbox(p) \/ \E k \in Kinds : TakeQueue(p, k)
      PROVE  OnceInv'
  BY <1>3, OnceTakes
<1>4. ASSUME NEW p \in Passers, MergeInbox(p) PROVE OnceInv'
  BY <1>4, OnceMerge
<1>5. ASSUME NEW p \in Passers, GiveLocal(p) \/ \E k \in Kinds : GiveQueue(p, k) PROVE OnceInv'
  BY <1>5, OnceGives
<1> QED BY <1>1, <1>2, <1>3, <1>4, <1>5, Moves DEF Move

-----------------------------------------------------------------------------
\* What is at place x is count c.
At(x, c) ==
    \/ \E w \in Writers : x = <<<<"writer", w>>, 1>> /\ hold[w] # <<>> /\ hold[w][2] = c
    \/ \E t \in Laters : x = <<<<"caller", t>>, 1>> /\ stamp[t] = c
    \/ \E k \in Kinds : \E i \in DOMAIN queue[k] : x = <<<<"queue", k>>, i>> /\ queue[k][i] = c
    \/ \E k \in Kinds : \E i \in DOMAIN inbox[k] : x = <<<<"inbox", k>>, i>> /\ inbox[k][i] = c
    \/ \E i \in DOMAIN local : x = <<<<"own">>, i>> /\ local[i] = c
    \/ \E p \in Passers : \E k \in Kinds :
          \E i \in DOMAIN mine[p][k] : x = <<<<"mine", p, k>>, i>> /\ mine[p][k][i] = c
    \/ \E p \in Passers :
          \E i \in DOMAIN mineLocal[p] : x = <<<<"mineLocal", p>>, i>> /\ mineLocal[p][i] = c
    \/ \E i \in DOMAIN given : x = <<<<"given">>, i>> /\ given[i].at = c

LEMMA PlacesAt ==
    ASSUME NEW c, NEW x PROVE x \in Places(c) <=> At(x, c)
<1> DEFINE S1 == {<<<<"writer", w>>, 1>> : w \in {v \in Writers : hold[v] # <<>> /\ hold[v][2] = c}}
           S2 == {<<<<"caller", t>>, 1>> : t \in {u \in Laters : stamp[u] = c}}
           S3 == UNION {Entries(<<"queue", k>>, queue[k], c) : k \in Kinds}
           S4 == UNION {Entries(<<"inbox", k>>, inbox[k], c) : k \in Kinds}
           S5 == Entries(<<"own">>, local, c)
           S6 == UNION {UNION {Entries(<<"mine", p, k>>, mine[p][k], c) : k \in Kinds} : p \in Passers}
           S7 == UNION {Entries(<<"mineLocal", p>>, mineLocal[p], c) : p \in Passers}
           S8 == {<<<<"given">>, i>> : i \in {j \in DOMAIN given : given[j].at = c}}
<1>1. x \in S1 <=> \E w \in Writers : x = <<<<"writer", w>>, 1>> /\ hold[w] # <<>> /\ hold[w][2] = c
  OBVIOUS
<1>2. x \in S2 <=> \E t \in Laters : x = <<<<"caller", t>>, 1>> /\ stamp[t] = c
  OBVIOUS
<1>3. x \in S3 <=> \E k \in Kinds : \E i \in DOMAIN queue[k] : x = <<<<"queue", k>>, i>> /\ queue[k][i] = c
  BY DEF Entries
<1>4. x \in S4 <=> \E k \in Kinds : \E i \in DOMAIN inbox[k] : x = <<<<"inbox", k>>, i>> /\ inbox[k][i] = c
  BY DEF Entries
<1>5. x \in S5 <=> \E i \in DOMAIN local : x = <<<<"own">>, i>> /\ local[i] = c
  BY DEF Entries
<1>6. x \in S6 <=> \E p \in Passers : \E k \in Kinds :
          \E i \in DOMAIN mine[p][k] : x = <<<<"mine", p, k>>, i>> /\ mine[p][k][i] = c
  BY DEF Entries
<1>7. x \in S7 <=> \E p \in Passers :
          \E i \in DOMAIN mineLocal[p] : x = <<<<"mineLocal", p>>, i>> /\ mineLocal[p][i] = c
  BY DEF Entries
<1>8. x \in S8 <=> \E i \in DOMAIN given : x = <<<<"given">>, i>> /\ given[i].at = c
  OBVIOUS
<1>9. Places(c) = S1 \cup S2 \cup S3 \cup S4 \cup S5 \cup S6 \cup S7 \cup S8
  BY DEF Places
<1> HIDE DEF S1, S2, S3, S4, S5, S6, S7, S8
<1>10. x \in Places(c) <=> \/ x \in S1 \/ x \in S2 \/ x \in S3 \/ x \in S4
                          \/ x \in S5 \/ x \in S6 \/ x \in S7 \/ x \in S8
  BY ONLY <1>9
<1> QED BY ONLY <1>1, <1>2, <1>3, <1>4, <1>5, <1>6, <1>7, <1>8, <1>10 DEF At

\* A place is an entry of a box that has the count.
LEMMA PlaceOf ==
    ASSUME NEW c, NEW x, At(x, c)
    PROVE  \E l, i : x = <<l, i>> /\ Has(l, c)
BY DEF At, Has, Range, GivenCounts

\* Two entries of a box with the same count are the same.
LEMMA SamePlace ==
    ASSUME OnceInv, NEW c, NEW l, NEW i, NEW j, At(<<l, i>>, c), At(<<l, j>>, c)
    PROVE  i = j
BY DEF At, OnceInv, Once, GivenOnce

LEMMA SomePlace ==
    ASSUME NEW c, Somewhere(c)
    PROVE  \E x : At(x, c)
BY DEF Somewhere, At, Range, GivenCounts

LEMMA OnePlace ==
    ASSUME OnceInv, NEW c, Apart(c), Somewhere(c)
    PROVE  Cardinality(Places(c)) = 1
<1>1. PICK x : At(x, c)
  BY SomePlace
<1>2. ASSUME NEW y, At(y, c) PROVE y = x
  <2>1. PICK l, i : x = <<l, i>> /\ Has(l, c)
    BY <1>1, PlaceOf
  <2>2. PICK m, j : y = <<m, j>> /\ Has(m, c)
    BY <1>2, PlaceOf
  <2>3. l = m
    BY <2>1, <2>2 DEF Apart
  <2>4. i = j
    BY <1>1, <1>2, <2>1, <2>2, <2>3, SamePlace
  <2> QED BY <2>1, <2>2, <2>3, <2>4
<1>3. Places(c) = {x}
  BY ONLY <1>1, <1>2, PlacesAt
<1> QED BY <1>3, FS_Singleton

\* Every answer is in exactly one place, however many threads dispatch, answer
\* themselves and put back what waits: no pass drops what another one left, and
\* none gives an answer a second time.
THEOREM NoAnswerLost == Spec => []NothingLost
<1>1. Init => TypeInv
  BY TypeInvInit
<1>2. Init => OnceInv /\ ApartInv
  <2> SUFFICES ASSUME Init PROVE OnceInv /\ ApartInv
    OBVIOUS
  <2>1. OnceInv
    BY OnceEmpty, EmptySeq DEF Init, OnceInv, NoAnswers, GivenOnce
  <2>2. Past = {}
    BY DEF Init, Past
  <2> QED BY ONLY <2>1, <2>2 DEF ApartInv
<1>3. TypeInv /\ [Next]_vars => TypeInv'
  BY TypeStep
<1>4. TypeInv /\ ApartInv /\ OnceInv /\ [Next]_vars => OnceInv' /\ ApartInv'
  BY OnceStep, ApartStep
<1>5. TypeInv /\ OnceInv /\ ApartInv /\ Kept => NothingLost
  <2> SUFFICES ASSUME TypeInv, OnceInv, ApartInv, Kept, NEW c \in Answers
               PROVE  Cardinality(Places(c)) = 1
    BY DEF NothingLost
  <2>1. c \in Past
    BY DEF Answers, Past
  <2>2. Apart(c) /\ Somewhere(c)
    BY <2>1 DEF ApartInv, Kept
  <2> QED BY <2>2, OnePlace
<1> QED BY <1>1, <1>2, <1>3, <1>4, <1>5, AnswersKept, PTL DEF Spec
=============================================================================
