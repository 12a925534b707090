------------------------ MODULE CommandQueue_proofs -------------------------
(***************************************************************************)
(* Proofs about the commands on their way to the engine and their answers, *)
(* for every set of callers, the calls each makes and their number: the    *)
(* types, the order of the answers with and without the pacer, and where   *)
(* the engine puts the answers of the client itself.                       *)
(*                                                                         *)
(* The order of the answers is the last of a chain: the commands of a      *)
(* caller are in their order in the channel and in the queue, those of the *)
(* queue before those of the channel, and what was answered or waits for a *)
(* lookup before both.  With the pacer one lookup is on its way that no    *)
(* wait gave up; without it the counts bound what is ahead of an error.    *)
(* Where an answer is put follows from the ordinals: the queue need not be *)
(* in their order, but is about each count that some answer on its way has *)
(* taken down.                                                             *)
(***************************************************************************)
EXTENDS CommandQueue, Picks_proofs

\* Of one caller's commands of these kinds, those of A were made before those of B.
Below(A, B, K) ==
    \A x \in A, y \in B : x.by = y.by /\ x.kind \in K /\ y.kind \in K => x.n < y.n

\* They are in the sequence in the order they were made, those of the set aside.
Rises(s, K, L) ==
    \A i, j \in DOMAIN s :
        i < j /\ s[i].by = s[j].by /\ s[i].kind \in K /\ s[j].kind \in K
            /\ s[i] \notin L /\ s[j] \notin L => s[i].n < s[j].n

\* The kinds each property is about.
Sendable == {"request", "lookup", "order", "unpaced"}
Paced == {"request", "lookup"}
Further == {"request", "unpaced", "order"}
Unheld == {"request", "unpaced", "error"}

\* Where a command may be.
InQueue == ToSet(Commanded(queue))
Waiting == lookups \cup ToSet(resolved)
Apart == parked \cup ToSet(ready)
Passing == eng \in {"drain", "deferred", "handle"}

Listed == {d.cmd : d \in ToSet(deferred) \cup ToSet(taking)}
Given == ToSet(chan) \cup InQueue \cup Waiting \cup Apart \cup ToSet(answers) \cup Listed

\* Nothing is numbered beyond the calls of its caller, and a call that waits
\* for the commands before it is the last of its caller.
CallsMade ==
    /\ \A x \in Given : x.n <= calls[x.by]
    /\ \A c \in Callers : arg[c].by = c /\ arg[c].n = calls[c]
    /\ \A c \in Callers : calls[c] = 0 => pc[c] = "free"
    /\ \A c \in Callers : pc[c] \in {"target", "wait"} =>
        arg[c].kind = "error" /\ \A x \in Given : x.by = c => x.n < calls[c]

\* The order of the calls is kept from the channel to the answers.
OnTheWay ==
    /\ Rises(chan, Sendable, {})
    /\ Rises(Commanded(queue), Sendable, {})
    /\ Below(InQueue, ToSet(chan), Sendable)
    /\ Below(Waiting \cup Apart \cup ToSet(answers), InQueue \cup ToSet(chan), Sendable)
    /\ \A x \in Waiting : x.kind = "lookup"
    /\ Apart \subseteq late
    /\ \A x \in ToSet(chan) : x.kind \in SendKinds
    /\ Rises(answers, Further, late)

\* The list holds answers of the client itself.
Deferred ==
    /\ \A x \in Listed : x.kind \in LocalKinds
    /\ \A c \in Callers : pc[c] \in {"after", "push"} => arg[c].kind \in LocalKinds

Base ==
    /\ TypeOK
    /\ CallsMade
    /\ OnTheWay
    /\ Deferred

\* With the pacer: one lookup is on its way, and what is answered was sent
\* before it, those aside that a wait that ran out let go or that waited for a
\* definition.
OneAtATime ==
    paced =>
        /\ Rises(answers, Paced, late)
        /\ Passing =>
            /\ Below(ToSet(answers) \ late, Waiting \ late, Paced)
            /\ \A x, y \in lookups \ late : x = y
            /\ \A i, j \in DOMAIN resolved : resolved[i] \notin late /\ resolved[j] \notin late => i = j
            /\ (\E x \in ToSet(resolved) : x \notin late) => lookups \subseteq late
            /\ holdOver => lookups \subseteq late

\* Without: nothing goes by the list, and the queue holds what was sent.
Unpaced ==
    ~paced =>
        /\ deferred = <<>> /\ taking = <<>>
        /\ \A c \in Callers : pc[c] \notin {"after", "push", "turn"}
        /\ \A x \in InQueue : x.kind \in SendKinds
        /\ Passing => running

\* ... and the counts bound what is not handled yet.  A command is in the
\* channel before it is counted.
Counts ==
    ~paced /\ OneCaller =>
        /\ handled + Len(queue) + Len(chan) <= sent + 1
        /\ (\A c \in Callers : pc[c] # "count") => handled + Len(queue) + Len(chan) <= sent
        /\ \A c \in Callers : pc[c] = "wait" => mark[c] = sent
        /\ Rises(answers, Unheld, late)
        /\ Passing => Below(ToSet(answers) \ late, InQueue \cup ToSet(chan), Unheld)

\* The local answers on their way to the queue.
Pushed == {[after |-> mark[c], cmd |-> arg[c]] : c \in {d \in Callers : pc[d] = "push"}}
Pending == ToSet(taking) \cup ToSet(deferred) \cup Pushed

\* The place this answer will be put at is behind every command made before
\* it, and the search for it ends there.
PutBehind(d) ==
    /\ d.after <= sent
    /\ \A i \in DOMAIN queue :
        ~queue[i].channel \/ queue[i].cmd.n < d.cmd.n => queue[i].ordinal <= d.after
    /\ \A k \in DOMAIN chan : chan[k].n < d.cmd.n => received + k <= d.after
    /\ \A i, j \in DOMAIN queue :
        i < j /\ queue[i].ordinal > d.after => queue[j].ordinal > d.after

\* So it is for all of them, and those of the list come in the order of what
\* they follow.
Turns ==
    OneCaller =>
        /\ received + Len(chan) <= sent + 1
        /\ (\A c \in Callers : pc[c] # "count") => received + Len(chan) <= sent
        /\ \A i \in DOMAIN queue : queue[i].ordinal <= IF queue[i].channel THEN received ELSE sent
        /\ \A d \in Pending : PutBehind(d)
        /\ \A i, j \in DOMAIN taking : i < j => taking[i].after <= taking[j].after
        /\ \A i, j \in DOMAIN deferred : i < j => deferred[i].after <= deferred[j].after
        /\ \A d \in ToSet(taking), e \in ToSet(deferred) \cup Pushed : d.after <= e.after
        /\ \A d \in ToSet(deferred), e \in Pushed : d.after <= e.after

Inv ==
    /\ Base
    /\ OneAtATime
    /\ Unpaced
    /\ Counts
    /\ Turns

-----------------------------------------------------------------------------
(***************************************************************************)
(* Commands in their order.                                                *)
(***************************************************************************)
LEMMA RisesAppend ==
    ASSUME NEW s \in Seq(Commands), NEW e \in Commands, NEW K, NEW L,
           Rises(s, K, L), e \notin L => Below(ToSet(s) \ L, {e}, K)
    PROVE  Rises(Append(s, e), K, L)
<1> DEFINE t == Append(s, e)
<1>1. /\ t \in Seq(Commands) /\ DOMAIN t = 1 .. Len(s) + 1 /\ DOMAIN s = 1 .. Len(s)
      /\ \A k \in 1 .. Len(s) : t[k] = s[k]
      /\ t[Len(s) + 1] = e /\ Len(s) \in Nat
  OBVIOUS
<1> HIDE DEF t
<1>2. SUFFICES ASSUME NEW i \in DOMAIN t, NEW j \in DOMAIN t, i < j, t[i].by = t[j].by,
                      t[i].kind \in K, t[j].kind \in K, t[i] \notin L, t[j] \notin L
               PROVE  t[i].n < t[j].n
  BY DEF Rises, t
<1>3. i \in 1 .. Len(s) /\ t[i] = s[i]
  BY <1>1, <1>2
<1>4. CASE j = Len(s) + 1
  <2>1. t[j] = e
    BY <1>1, <1>4
  <2>2. s[i] \in ToSet(s) \ L
    BY <1>3, <1>2, InSet
  <2> QED
    BY ONLY <2>1, <2>2, <1>2, <1>3, e \notin L => Below(ToSet(s) \ L, {e}, K) DEF Below
<1>5. CASE j # Len(s) + 1
  <2>1. j \in 1 .. Len(s) /\ t[j] = s[j]
    BY <1>1, <1>5
  <2> QED
    BY <2>1, <1>1, <1>2, <1>3 DEF Rises
<1> QED
  BY <1>4, <1>5

LEMMA RisesConcat ==
    ASSUME NEW s \in Seq(Commands), NEW u \in Seq(Commands), NEW K, NEW L,
           Rises(s, K, L), Rises(u, K, L), Below(ToSet(s) \ L, ToSet(u) \ L, K)
    PROVE  Rises(s \o u, K, L)
<1> DEFINE t == s \o u
<1>1. /\ t \in Seq(Commands) /\ DOMAIN t = 1 .. Len(s) + Len(u) /\ DOMAIN s = 1 .. Len(s)
      /\ DOMAIN u = 1 .. Len(u)
      /\ \A k \in 1 .. Len(s) + Len(u) : t[k] = IF k <= Len(s) THEN s[k] ELSE u[k - Len(s)]
      /\ Len(s) \in Nat /\ Len(u) \in Nat
  OBVIOUS
<1> HIDE DEF t
<1>2. SUFFICES ASSUME NEW i \in DOMAIN t, NEW j \in DOMAIN t, i < j, t[i].by = t[j].by,
                      t[i].kind \in K, t[j].kind \in K, t[i] \notin L, t[j] \notin L
               PROVE  t[i].n < t[j].n
  BY DEF Rises, t
<1>3. CASE j <= Len(s)
  <2>1. i \in DOMAIN s /\ j \in DOMAIN s /\ t[i] = s[i] /\ t[j] = s[j]
    BY <1>1, <1>2, <1>3
  <2> QED
    BY ONLY <2>1, <1>2, Rises(s, K, L) DEF Rises
<1>4. CASE i > Len(s)
  <2>1. PICK a \in DOMAIN u, b \in DOMAIN u : a < b /\ t[i] = u[a] /\ t[j] = u[b]
    <3>1. /\ i - Len(s) \in DOMAIN u /\ j - Len(s) \in DOMAIN u /\ i - Len(s) < j - Len(s)
          /\ t[i] = u[i - Len(s)] /\ t[j] = u[j - Len(s)]
      BY <1>1, <1>2, <1>4
    <3> QED
      BY ONLY <3>1
  <2> QED
    BY ONLY <2>1, <1>2, Rises(u, K, L) DEF Rises
<1>5. CASE i <= Len(s) /\ j > Len(s)
  <2>1. PICK a \in DOMAIN s, b \in DOMAIN u : t[i] = s[a] /\ t[j] = u[b]
    <3>1. i \in DOMAIN s /\ j - Len(s) \in DOMAIN u /\ t[i] = s[i] /\ t[j] = u[j - Len(s)]
      BY <1>1, <1>2, <1>5
    <3> QED
      BY ONLY <3>1
  <2>2. t[i] \in ToSet(s) \ L /\ t[j] \in ToSet(u) \ L
    BY <2>1, <1>1, <1>2, InSet
  <2> QED
    BY ONLY <2>2, <1>2, Below(ToSet(s) \ L, ToSet(u) \ L, K) DEF Below
<1> QED
  BY <1>1, <1>2, <1>3, <1>4, <1>5

LEMMA RisesKept ==
    ASSUME NEW s \in Seq(Commands), NEW S, NEW K, NEW L, Rises(s, K, L)
    PROVE  Rises(Kept(s, S), K, L)
<1>1. PICK t \in Seq(Commands) : t = Kept(s, S)
  BY KeptOf
<1>2. PICK f : KeptAt(f, t, s, S)
  BY <1>1, KeptOf
<1>3. /\ f \in [1 .. Len(t) -> 1 .. Len(s)]
      /\ \A k \in 1 .. Len(t) : t[k] = s[f[k]]
      /\ \A k, l \in 1 .. Len(t) : k < l => f[k] < f[l]
      /\ DOMAIN t = 1 .. Len(t) /\ DOMAIN s = 1 .. Len(s)
  BY <1>2 DEF KeptAt
<1>4. SUFFICES ASSUME NEW i \in DOMAIN t, NEW j \in DOMAIN t, i < j, t[i].by = t[j].by,
                      t[i].kind \in K, t[j].kind \in K, t[i] \notin L, t[j] \notin L
               PROVE  t[i].n < t[j].n
  BY <1>1 DEF Rises
<1>5. PICK a \in DOMAIN s, b \in DOMAIN s : a < b /\ t[i] = s[a] /\ t[j] = s[b]
  <2>1. f[i] \in DOMAIN s /\ f[j] \in DOMAIN s /\ f[i] < f[j] /\ t[i] = s[f[i]] /\ t[j] = s[f[j]]
    BY ONLY <1>3, <1>4
  <2> QED
    BY ONLY <2>1
<1> QED
  BY ONLY <1>5, <1>4, Rises(s, K, L) DEF Rises

LEMMA RisesMore ==
    ASSUME NEW s, NEW K, NEW K1, NEW L, NEW L1, Rises(s, K, L), K1 \subseteq K, L \subseteq L1
    PROVE  Rises(s, K1, L1)
  BY DEF Rises

LEMMA BelowLess ==
    ASSUME NEW A, NEW B, NEW K, NEW A1, NEW B1, NEW K1, Below(A, B, K),
           A1 \subseteq A, B1 \subseteq B, K1 \subseteq K
    PROVE  Below(A1, B1, K1)
  BY DEF Below

LEMMA CommandedOf ==
    ASSUME NEW q \in Seq(Queued)
    PROVE  /\ Commanded(q) \in Seq(Commands) /\ Len(Commanded(q)) = Len(q)
           /\ DOMAIN Commanded(q) = 1 .. Len(q) /\ DOMAIN q = 1 .. Len(q)
           /\ \A i \in 1 .. Len(q) : Commanded(q)[i] = q[i].cmd /\ q[i] \in Queued
           /\ \A i \in 1 .. Len(q) : q[i].cmd \in ToSet(Commanded(q))
           /\ \A x : x \in ToSet(Commanded(q)) <=> \E i \in 1 .. Len(q) : q[i].cmd = x
<1>1. /\ DOMAIN q = 1 .. Len(q) /\ Len(q) \in Nat
      /\ \A i \in 1 .. Len(q) : q[i] \in Queued
  OBVIOUS
<1>2. \A i \in 1 .. Len(q) : q[i].cmd \in Commands
  BY <1>1 DEF Queued
<1>3. Commanded(q) = [i \in 1 .. Len(q) |-> q[i].cmd]
  BY <1>1 DEF Commanded
<1>4. /\ Commanded(q) \in Seq(Commands) /\ Len(Commanded(q)) = Len(q)
      /\ DOMAIN Commanded(q) = 1 .. Len(q)
      /\ \A i \in 1 .. Len(q) : Commanded(q)[i] = q[i].cmd
  BY ONLY <1>1, <1>2, <1>3
<1>5. \A x : x \in ToSet(Commanded(q)) <=> \E i \in 1 .. Len(q) : Commanded(q)[i] = x
  BY <1>4, InSet
<1> QED
  BY ONLY <1>1, <1>4, <1>5

-----------------------------------------------------------------------------
(***************************************************************************)
(* What the engine's steps do to the queue.                                *)
(***************************************************************************)
LEMMA SameSeq ==
    ASSUME NEW E, NEW s \in Seq(E), NEW t \in Seq(E), Len(s) = Len(t),
           \A i \in 1 .. Len(s) : s[i] = t[i]
    PROVE  s = t
<1>1. s = [i \in 1 .. Len(s) |-> s[i]] /\ t = [i \in 1 .. Len(t) |-> t[i]]
  OBVIOUS
<1> QED
  BY <1>1

LEMMA Drains ==
    ASSUME TypeOK, DrainChannel
    PROVE  /\ queue' \in Seq(Queued) /\ received' \in Nat
           /\ Len(queue') = Len(queue) + Len(chan)
           /\ Commanded(queue') = Commanded(queue) \o chan
           /\ \A i \in 1 .. Len(queue') :
                queue'[i] = IF i <= Len(queue) THEN queue[i]
                            ELSE [ordinal |-> received + (i - Len(queue)), channel |-> TRUE,
                                  cmd |-> chan[i - Len(queue)]]
<1>1. queue \in Seq(Queued) /\ chan \in Seq(Commands) /\ received \in Nat
  BY DEF TypeOK
<1> DEFINE new == [i \in 1 .. Len(chan) |-> [ordinal |-> received + i, channel |-> TRUE, cmd |-> chan[i]]]
<1>2. new \in Seq(Queued) /\ Len(new) = Len(chan)
  <2>1. \A i \in 1 .. Len(chan) : chan[i] \in Commands /\ received + i \in Nat
    BY <1>1
  <2>2. \A i \in 1 .. Len(chan) : new[i] \in Queued
    BY <2>1 DEF Queued
  <2> QED
    BY <1>1, <2>2
<1>3. queue' = queue \o new /\ received' = received + Len(chan)
  BY DEF DrainChannel
<1>4. \A i \in 1 .. Len(chan) : new[i] = [ordinal |-> received + i, channel |-> TRUE, cmd |-> chan[i]]
  OBVIOUS
<1> HIDE DEF new
<1>5. /\ queue' \in Seq(Queued) /\ received' \in Nat /\ Len(queue') = Len(queue) + Len(chan)
      /\ \A i \in 1 .. Len(queue') : queue'[i] = IF i <= Len(queue) THEN queue[i] ELSE new[i - Len(queue)]
      /\ Len(queue) \in Nat /\ Len(chan) \in Nat
  BY <1>1, <1>2, <1>3
<1>6. \A i \in 1 .. Len(queue') : i > Len(queue) => i - Len(queue) \in 1 .. Len(chan)
  BY <1>5
<1>7. \A i \in 1 .. Len(queue') :
        queue'[i] = IF i <= Len(queue) THEN queue[i]
                    ELSE [ordinal |-> received + (i - Len(queue)), channel |-> TRUE,
                          cmd |-> chan[i - Len(queue)]]
  <2> TAKE i \in 1 .. Len(queue')
  <2>1. CASE i <= Len(queue)
    BY <2>1, <1>5
  <2>2. CASE ~(i <= Len(queue))
    <3>1. PICK k \in 1 .. Len(chan) : k = i - Len(queue)
      BY <2>2, <1>5
    <3>2. queue'[i] = new[k]
      BY <2>2, <3>1, <1>5
    <3> QED
      BY ONLY <2>2, <3>1, <3>2, <1>4
  <2> QED
    BY <2>1, <2>2
<1>8. Commanded(queue') = Commanded(queue) \o chan
  <2>a. PICK c \in Seq(Commands) : c = Commanded(queue) /\ Len(c) = Len(queue)
    BY <1>1, CommandedOf
  <2>b. \A i \in 1 .. Len(queue) : c[i] = queue[i].cmd
    BY <2>a, <1>1, CommandedOf
  <2>c. Commanded(queue') \in Seq(Commands) /\ Len(Commanded(queue')) = Len(queue')
    BY <1>5, CommandedOf
  <2>d. /\ c \o chan \in Seq(Commands) /\ Len(c \o chan) = Len(queue) + Len(chan)
        /\ \A i \in 1 .. Len(queue) + Len(chan) :
            (c \o chan)[i] = IF i <= Len(queue) THEN c[i] ELSE chan[i - Len(queue)]
    BY ONLY <2>a, <1>1
  <2>1. PICK u \in Seq(Commands), v \in Seq(Commands) : u = Commanded(queue') /\ v = c \o chan
    BY ONLY <2>c, <2>d
  <2>2. Len(u) = Len(v) /\ Len(u) \in Nat
    BY ONLY <2>1, <2>c, <2>d, <1>5
  <2>3. ASSUME NEW i \in 1 .. Len(u)
        PROVE  u[i] = v[i]
    <3>1. i \in 1 .. Len(queue) + Len(chan) /\ i \in 1 .. Len(queue')
      BY <2>1, <1>5, CommandedOf
    <3>2. u[i] = queue'[i].cmd
      BY <2>1, <1>5, <3>1, CommandedOf
    <3>3. CASE i <= Len(queue)
      <4>1. v[i] = queue[i].cmd
        BY ONLY <2>1, <2>b, <2>d, <3>1, <3>3
      <4> QED
        BY <3>1, <3>2, <3>3, <4>1, <1>7
    <3>4. CASE i > Len(queue)
      <4>1. v[i] = chan[i - Len(queue)]
        BY ONLY <2>1, <2>d, <3>1, <3>4, <1>5
      <4> QED
        BY <3>1, <3>2, <3>4, <4>1, <1>7, <1>5
    <3> QED
      BY <3>1, <3>3, <3>4, <1>5
  <2> QED
    BY ONLY <2>1, <2>2, <2>3, <2>a, SameSeq
<1> QED
  BY <1>5, <1>7, <1>8

\* The head of the list is put in the queue behind place `at'.
PutAt(at, q, r, d) ==
    /\ at \in 0 .. Len(q)
    /\ at > 0 => q[at].ordinal <= d.after
    /\ at < Len(q) => q[at + 1].ordinal > d.after
    /\ r \in Seq(Queued) /\ Len(r) = Len(q) + 1
    /\ \A k \in 1 .. Len(q) + 1 :
        r[k] = IF k <= at THEN q[k]
               ELSE IF k = at + 1 THEN [ordinal |-> d.after, channel |-> FALSE, cmd |-> d.cmd]
               ELSE q[k - 1]

LEMMA Puts ==
    ASSUME TypeOK, InsertDeferred
    PROVE  /\ taking' \in Seq(Deferrals) /\ Head(taking) \in Deferrals
           /\ \E at : PutAt(at, queue, queue', Head(taking))
<1>1. queue \in Seq(Queued) /\ taking \in Seq(Deferrals) /\ taking # <<>> /\ taking' = Tail(taking)
  BY DEF TypeOK, InsertDeferred
<1>2. taking' \in Seq(Deferrals) /\ Head(taking) \in Deferrals
  BY <1>1, InTail
<1>3. PICK d \in Deferrals : d = Head(taking)
  BY <1>2
<1> DEFINE e == [ordinal |-> d.after, channel |-> FALSE, cmd |-> d.cmd]
<1>4. PICK at \in Places(queue, d.after) : queue' = InsertAt(queue, at + 1, e)
  BY <1>3 DEF InsertDeferred, Inserted
<1>5. e \in Queued
  BY DEF Deferrals, Queued
<1> HIDE DEF e
<1>6. /\ at \in 0 .. Len(queue)
      /\ at > 0 => queue[at].ordinal <= d.after
      /\ at < Len(queue) => queue[at + 1].ordinal > d.after
  BY <1>4 DEF Places
<1>7. queue' = SubSeq(queue, 1, at) \o <<e>> \o SubSeq(queue, at + 1, Len(queue))
  <2>1. (at + 1) - 1 = at
    BY <1>6
  <2> QED
    BY <1>4, <2>1 DEF InsertAt
<1>8. /\ SubSeq(queue, 1, at) \in Seq(Queued) /\ Len(SubSeq(queue, 1, at)) = at
      /\ \A k \in 1 .. at : SubSeq(queue, 1, at)[k] = queue[k]
      /\ SubSeq(queue, at + 1, Len(queue)) \in Seq(Queued)
      /\ Len(SubSeq(queue, at + 1, Len(queue))) = Len(queue) - at
      /\ \A k \in 1 .. Len(queue) - at : SubSeq(queue, at + 1, Len(queue))[k] = queue[at + k]
      /\ Len(queue) \in Nat
  <2>1. queue \in Seq(Queued) /\ at \in 0 .. Len(queue) /\ Len(queue) \in Nat
    BY ONLY <1>1, <1>6
  <2>2. /\ SubSeq(queue, 1, at) \in Seq(Queued) /\ Len(SubSeq(queue, 1, at)) = at
        /\ \A k \in 1 .. at : SubSeq(queue, 1, at)[k] = queue[k]
    BY ONLY <2>1
  <2>3. /\ SubSeq(queue, at + 1, Len(queue)) \in Seq(Queued)
        /\ Len(SubSeq(queue, at + 1, Len(queue))) = Len(queue) - at
        /\ \A k \in 1 .. Len(queue) - at : SubSeq(queue, at + 1, Len(queue))[k] = queue[at + k]
    BY ONLY <2>1
  <2> QED
    BY ONLY <2>1, <2>2, <2>3
<1>9. PICK A \in Seq(Queued), B \in Seq(Queued) : A = SubSeq(queue, 1, at) /\ B = SubSeq(queue, at + 1, Len(queue))
  BY <1>8
<1>10. /\ queue' \in Seq(Queued) /\ Len(queue') = Len(A) + 1 + Len(B)
       /\ \A k \in 1 .. Len(A) + 1 + Len(B) :
            queue'[k] = IF k <= Len(A) THEN A[k] ELSE IF k = Len(A) + 1 THEN e ELSE B[k - Len(A) - 1]
  <2>a. PICK E \in Seq(Queued) : E = <<e>> /\ Len(E) = 1 /\ E[1] = e
    <3>1. <<e>> \in Seq(Queued) /\ Len(<<e>>) = 1 /\ <<e>>[1] = e
      BY <1>5
    <3> QED
      BY ONLY <3>1
  <2>b. A \in Seq(Queued) /\ B \in Seq(Queued) /\ E \in Seq(Queued) /\ Len(A) \in Nat /\ Len(B) \in Nat
    OBVIOUS
  <2>1. PICK C \in Seq(Queued) : C = A \o E
    <3>1. A \o E \in Seq(Queued)
      BY ONLY <2>b
    <3> QED
      BY ONLY <3>1
  <2>2. Len(C) = Len(A) + 1 /\ \A k \in 1 .. Len(A) + 1 : C[k] = IF k <= Len(A) THEN A[k] ELSE e
    BY ONLY <2>1, <2>a, <2>b
  <2>3. queue' = C \o B
    BY ONLY <2>1, <2>a, <1>7, <1>9
  <2>4. /\ queue' \in Seq(Queued) /\ Len(queue') = Len(C) + Len(B)
        /\ \A k \in 1 .. Len(C) + Len(B) : queue'[k] = IF k <= Len(C) THEN C[k] ELSE B[k - Len(C)]
        /\ Len(A) \in Nat /\ Len(B) \in Nat
    <3>1. C \in Seq(Queued)
      OBVIOUS
    <3> QED
      BY ONLY <3>1, <2>b, <2>3
  <2>5. ASSUME NEW k \in 1 .. Len(A) + 1 + Len(B)
        PROVE  queue'[k] = IF k <= Len(A) THEN A[k] ELSE IF k = Len(A) + 1 THEN e ELSE B[k - Len(A) - 1]
    <3>1. k - (Len(A) + 1) = k - Len(A) - 1
      BY ONLY <2>4
    <3>2. queue'[k] = IF k <= Len(A) + 1 THEN C[k] ELSE B[k - (Len(A) + 1)]
      BY ONLY <2>4, <2>2
    <3> QED
      BY ONLY <2>2, <2>4, <3>1, <3>2
  <2> QED
    BY ONLY <2>2, <2>4, <2>5
<1>11. Len(queue') = Len(queue) + 1 /\ Len(A) = at /\ Len(B) = Len(queue) - at
  <2>1. Len(A) = at /\ Len(B) = Len(queue) - at
    BY ONLY <1>9, <1>8
  <2> QED
    BY ONLY <2>1, <1>10, <1>8, <1>6
<1>12. ASSUME NEW k \in 1 .. Len(queue) + 1
       PROVE  queue'[k] = IF k <= at THEN queue[k] ELSE IF k = at + 1 THEN e ELSE queue[k - 1]
  <2>1. queue'[k] = IF k <= at THEN A[k] ELSE IF k = at + 1 THEN e ELSE B[k - at - 1]
    BY ONLY <1>10, <1>11, <1>6, <1>8
  <2>2. k > at + 1 => k - at - 1 \in 1 .. Len(queue) - at /\ at + (k - at - 1) = k - 1
    <3>1. PICK n \in Nat : n = Len(queue)
      BY ONLY <1>8
    <3>2. at \in 0 .. n /\ k \in 1 .. n + 1
      BY ONLY <1>6, <3>1, k \in 1 .. Len(queue) + 1
    <3>3. k > at + 1 => k - at - 1 \in 1 .. n - at /\ at + (k - at - 1) = k - 1
      BY ONLY <3>2, n \in Nat
    <3> QED
      BY ONLY <3>1, <3>3
  <2>3. k > at + 1 => B[k - at - 1] = queue[k - 1]
    BY ONLY <2>2, <1>8, <1>9
  <2>4. k <= at => A[k] = queue[k]
    BY ONLY <1>8, <1>9
  <2> QED
    BY ONLY <2>1, <2>3, <2>4, <1>6, <1>8
<1>13. PutAt(at, queue, queue', d)
  BY ONLY <1>6, <1>10, <1>11, <1>12 DEF PutAt, e
<1> QED
  BY <1>2, <1>3, <1>13

\* The commands stay in their order: the one put in is the client's own.
LEMMA PutsInOrder ==
    ASSUME NEW q \in Seq(Queued), NEW r, NEW d \in Deferrals, NEW at, PutAt(at, q, r, d),
           d.cmd.kind \in LocalKinds, Rises(Commanded(q), Sendable, {})
    PROVE  /\ ToSet(Commanded(r)) = ToSet(Commanded(q)) \cup {d.cmd}
           /\ Rises(Commanded(r), Sendable, {})
<1>1. /\ at \in 0 .. Len(q) /\ r \in Seq(Queued) /\ Len(r) = Len(q) + 1 /\ Len(q) \in Nat
      /\ \A k \in 1 .. Len(q) + 1 :
            r[k].cmd = IF k <= at THEN q[k].cmd ELSE IF k = at + 1 THEN d.cmd ELSE q[k - 1].cmd
  <2>1. \A k \in 1 .. Len(q) + 1 :
        r[k] = IF k <= at THEN q[k]
               ELSE IF k = at + 1 THEN [ordinal |-> d.after, channel |-> FALSE, cmd |-> d.cmd]
               ELSE q[k - 1]
    BY DEF PutAt
  <2> QED
    BY <2>1 DEF PutAt
<1>2. PICK s \in Seq(Commands), t \in Seq(Commands) : s = Commanded(q) /\ t = Commanded(r)
  BY <1>1, CommandedOf
<1>3. Len(s) = Len(q) /\ Len(t) = Len(q) + 1 /\ DOMAIN s = 1 .. Len(q) /\ DOMAIN t = 1 .. Len(q) + 1
  BY <1>1, <1>2, CommandedOf
<1>4. \A k \in 1 .. Len(q) : s[k] = q[k].cmd
  BY <1>2, CommandedOf
<1>5. \A k \in 1 .. Len(q) + 1 : t[k] = r[k].cmd
  BY <1>1, <1>2, CommandedOf
<1>6. \A k \in 1 .. Len(q) + 1 : t[k] = IF k <= at THEN s[k] ELSE IF k = at + 1 THEN d.cmd ELSE s[k - 1]
  <2> TAKE k \in 1 .. Len(q) + 1
  <2>1. k <= at => k \in 1 .. Len(q)
    BY <1>1
  <2>2. k > at + 1 => k - 1 \in 1 .. Len(q)
    BY <1>1
  <2> QED
    BY ONLY <2>1, <2>2, <1>1, <1>4, <1>5
<1>7. ToSet(t) = ToSet(s) \cup {d.cmd}
  <2>1. ASSUME NEW x \in ToSet(t) PROVE x \in ToSet(s) \cup {d.cmd}
    <3>1. PICK k \in 1 .. Len(q) + 1 : t[k] = x
      BY <1>3, InSet
    <3>2. x = d.cmd \/ \E l \in 1 .. Len(q) : s[l] = x
      <4>1. k <= at => k \in 1 .. Len(q) /\ s[k] = x
        BY ONLY <3>1, <1>6, <1>1
      <4>2. k > at + 1 => k - 1 \in 1 .. Len(q) /\ s[k - 1] = x
        BY ONLY <3>1, <1>6, <1>1
      <4>3. k = at + 1 => x = d.cmd
        <5>1. \A l \in 1 .. Len(q) + 1 : l = at + 1 => t[l] = d.cmd
          BY ONLY <1>6, <1>1
        <5> QED
          BY ONLY <3>1, <5>1
      <4> QED
        BY ONLY <4>1, <4>2, <4>3, <1>1
    <3> QED
      BY <3>2, <1>3, InSet
  <2>2. ASSUME NEW x \in ToSet(s) PROVE x \in ToSet(t)
    <3>1. PICK k \in 1 .. Len(q) : s[k] = x
      BY <1>3, InSet
    <3>2. CASE k <= at
      <4>1. k \in 1 .. Len(q) + 1 /\ t[k] = x
        BY ONLY <3>1, <3>2, <1>6, <1>1
      <4> QED
        BY <4>1, <1>3, InSet
    <3>3. CASE k > at
      <4>1. k + 1 \in 1 .. Len(q) + 1 /\ ~(k + 1 <= at) /\ k + 1 # at + 1 /\ (k + 1) - 1 = k
        BY ONLY <3>1, <3>3, <1>1
      <4>2. t[k + 1] = x
        BY ONLY <3>1, <4>1, <1>6
      <4> QED
        BY <4>1, <4>2, <1>3, InSet
    <3> QED
      BY <3>2, <3>3, <1>1
  <2>3. d.cmd \in ToSet(t)
    <3>1. at + 1 \in 1 .. Len(q) + 1 /\ t[at + 1] = d.cmd
      BY <1>1, <1>6
    <3> QED
      BY <3>1, <1>3, InSet
  <2> QED
    BY <2>1, <2>2, <2>3
<1>8. Rises(t, Sendable, {})
  <2>1. d.cmd.kind \notin Sendable
    BY DEF LocalKinds, Sendable
  <2>2. SUFFICES ASSUME NEW i \in DOMAIN t, NEW j \in DOMAIN t, i < j, t[i].by = t[j].by,
                        t[i].kind \in Sendable, t[j].kind \in Sendable
                 PROVE  t[i].n < t[j].n
    BY DEF Rises
  <2>3. i # at + 1 /\ j # at + 1
    <3>a. at + 1 \in 1 .. Len(q) + 1 /\ ~(at + 1 <= at)
      BY ONLY <1>1
    <3>1. t[at + 1] = d.cmd
      BY ONLY <3>a, <1>6
    <3> QED
      BY ONLY <2>1, <2>2, <3>1
  <2>4. PICK a \in DOMAIN s, b \in DOMAIN s : a < b /\ t[i] = s[a] /\ t[j] = s[b]
    <3> DEFINE a == IF i <= at THEN i ELSE i - 1
               b == IF j <= at THEN j ELSE j - 1
    <3>1. a \in DOMAIN s /\ b \in DOMAIN s /\ a < b
      BY ONLY <2>2, <2>3, <1>3, <1>1
    <3>2. t[i] = s[a]
      BY ONLY <2>2, <2>3, <1>3, <1>6
    <3>3. t[j] = s[b]
      BY ONLY <2>2, <2>3, <1>3, <1>6
    <3> HIDE DEF a, b
    <3> QED
      BY ONLY <3>1, <3>2, <3>3
  <2>5. Rises(s, Sendable, {})
    BY <1>2
  <2> QED
    BY ONLY <2>2, <2>4, <2>5 DEF Rises
<1> QED
  BY <1>2, <1>7, <1>8

\* The commands a pass takes: the first m of the queue, and others aside of the
\* requests; and what it leaves, from behind place m.
TakenOf(m, taken) ==
    /\ m \in 0 .. Len(queue)
    /\ taken \in Seq(Queued) /\ m <= Len(taken)
    /\ m = Len(queue) => Len(taken) = m
    /\ \A k \in 1 .. m : taken[k] = queue[k]
    /\ \A k \in 1 .. Len(taken) :
        k > m => IsAside(taken[k].cmd) /\ \E i \in 1 .. Len(queue) : taken[k] = queue[i]

LeftOf(m, f, r) ==
    /\ r \in Seq(Queued)
    /\ f \in [1 .. Len(r) -> 1 .. Len(queue)]
    /\ \A k \in 1 .. Len(r) : f[k] > m /\ r[k] = queue[f[k]]
    /\ \A k, l \in 1 .. Len(r) : k < l => f[k] < f[l]

\* A pass that takes these commands and starts these lookups, and in which these
\* wait for a definition.
HandleStep(budget, m, taken, started, parks) ==
    /\ eng = "handle" /\ taking = <<>>
    /\ TakesFirst(m, budget)
    /\ TakenOf(m, taken)
    /\ \E f : LeftOf(m, f, queue')
    /\ started \subseteq {cmd \in ToSet(Commanded(taken)) : MayLookUp(cmd)}
    /\ parks \subseteq {cmd \in ToSet(Commanded(taken)) : MayPark(cmd)} \cup ToSet(resolved)
    /\ lookups' = lookups \cup started
    /\ parked' = parked \cup parks
    /\ late' = late \cup parks
    /\ answers' = answers \o (Kept(resolved, ToSet(resolved) \ parks) \o ready)
                         \o Kept(Commanded(taken), ToSet(Commanded(taken)) \ (started \cup parks))
    /\ holdOver' = (holdOver /\ {cmd \in ToSet(Commanded(taken)) : MayLookUp(cmd)} = {} /\ lookups # {})
    /\ resolved' = <<>> /\ ready' = <<>>
    /\ handled' = handled + Counted(taken)
    /\ pc' = [c \in Callers |-> IF pc[c] = "turn" /\ arg[c] \in ToSet(Commanded(taken))
                                THEN "free" ELSE pc[c]]
    /\ eng' = IF \E cmd \in ToSet(Commanded(taken)) : cmd.kind = "shutdown" THEN "stop" ELSE "drain"
    /\ UNCHANGED <<chan, sent, deferred, running, paced, received, taking, arg, mark, calls>>

LEMMA Handles ==
    ASSUME TypeOK, NEW budget, Handle(budget)
    PROVE  \E m, taken, started, parks : HandleStep(budget, m, taken, started, parks)
<1>1. queue \in Seq(Queued)
  BY DEF TypeOK
<1>2. PICK m \in 0 .. Len(queue) :
        LET rest == SubSeq(queue, m + 1, Len(queue))
            aside == {e \in ToSet(rest) : IsAside(e.cmd)}
            taken == SubSeq(queue, 1, m) \o Kept(rest, aside)
            cmds == Commanded(taken)
            turns == {c \in Callers : pc[c] = "turn" /\ arg[c] \in ToSet(cmds)}
            mayLookUp == {cmd \in ToSet(cmds) : MayLookUp(cmd)}
            mayPark == {cmd \in ToSet(cmds) : MayPark(cmd)}
            stops == \E cmd \in ToSet(cmds) : cmd.kind = "shutdown"
        IN
        /\ eng = "handle" /\ taking = <<>>
        /\ TakesFirst(m, budget)
        /\ queue' = Kept(rest, ToSet(rest) \ aside)
        /\ \E started \in SUBSET mayLookUp, parks \in SUBSET (mayPark \cup ToSet(resolved)) :
            /\ lookups' = lookups \cup started
            /\ parked' = parked \cup parks
            /\ late' = late \cup parks
            /\ answers' = answers \o (Kept(resolved, ToSet(resolved) \ parks) \o ready)
                                 \o Kept(cmds, ToSet(cmds) \ (started \cup parks))
        /\ holdOver' = (holdOver /\ mayLookUp = {} /\ lookups # {})
        /\ resolved' = <<>> /\ ready' = <<>>
        /\ handled' = handled + Counted(taken)
        /\ pc' = [c \in Callers |-> IF c \in turns THEN "free" ELSE pc[c]]
        /\ eng' = IF stops THEN "stop" ELSE "drain"
        /\ UNCHANGED <<chan, sent, deferred, running, paced, received, taking, arg, mark, calls>>
  BY Zenon DEF Handle
<1>3. PICK rest : rest = SubSeq(queue, m + 1, Len(queue))
  OBVIOUS
<1>4. PICK aside : aside = {e \in ToSet(rest) : IsAside(e.cmd)}
  OBVIOUS
<1>5. PICK taken : taken = SubSeq(queue, 1, m) \o Kept(rest, aside)
  OBVIOUS
<1>6. /\ eng = "handle" /\ taking = <<>>
      /\ TakesFirst(m, budget)
      /\ queue' = Kept(rest, ToSet(rest) \ aside)
      /\ \E started \in SUBSET {cmd \in ToSet(Commanded(taken)) : MayLookUp(cmd)},
            parks \in SUBSET ({cmd \in ToSet(Commanded(taken)) : MayPark(cmd)} \cup ToSet(resolved)) :
            /\ lookups' = lookups \cup started
            /\ parked' = parked \cup parks
            /\ late' = late \cup parks
            /\ answers' = answers \o (Kept(resolved, ToSet(resolved) \ parks) \o ready)
                                 \o Kept(Commanded(taken), ToSet(Commanded(taken)) \ (started \cup parks))
      /\ holdOver' = (holdOver /\ {cmd \in ToSet(Commanded(taken)) : MayLookUp(cmd)} = {} /\ lookups # {})
      /\ resolved' = <<>> /\ ready' = <<>>
      /\ handled' = handled + Counted(taken)
      /\ pc' = [c \in Callers |-> IF c \in {d \in Callers : pc[d] = "turn" /\ arg[d] \in ToSet(Commanded(taken))}
                                  THEN "free" ELSE pc[c]]
      /\ eng' = IF \E cmd \in ToSet(Commanded(taken)) : cmd.kind = "shutdown" THEN "stop" ELSE "drain"
      /\ UNCHANGED <<chan, sent, deferred, running, paced, received, taking, arg, mark, calls>>
  BY ONLY <1>2, <1>3, <1>4, <1>5, Zenon
<1>7. PICK started \in SUBSET {cmd \in ToSet(Commanded(taken)) : MayLookUp(cmd)},
            parks \in SUBSET ({cmd \in ToSet(Commanded(taken)) : MayPark(cmd)} \cup ToSet(resolved)) :
            /\ lookups' = lookups \cup started
            /\ parked' = parked \cup parks
            /\ late' = late \cup parks
            /\ answers' = answers \o (Kept(resolved, ToSet(resolved) \ parks) \o ready)
                                 \o Kept(Commanded(taken), ToSet(Commanded(taken)) \ (started \cup parks))
  BY ONLY <1>6, Zenon
<1>8. /\ rest \in Seq(Queued) /\ Len(rest) = Len(queue) - m /\ Len(queue) \in Nat
      /\ \A k \in 1 .. Len(queue) - m : rest[k] = queue[m + k]
  BY <1>1, <1>3
<1>9. TakenOf(m, taken)
  <2>1. PICK a \in Seq(Queued) : a = SubSeq(queue, 1, m) /\ Len(a) = m /\ \A k \in 1 .. m : a[k] = queue[k]
    <3>1. /\ SubSeq(queue, 1, m) \in Seq(Queued) /\ Len(SubSeq(queue, 1, m)) = m
          /\ \A k \in 1 .. m : SubSeq(queue, 1, m)[k] = queue[k]
      BY <1>1
    <3> QED
      BY ONLY <3>1
  <2>2. PICK b \in Seq(Queued) : b = Kept(rest, aside)
    BY <1>8, KeptOf
  <2>3. PICK g : KeptAt(g, b, rest, aside)
    BY <1>8, <2>2, KeptOf
  <2>4. /\ taken \in Seq(Queued) /\ Len(taken) = Len(a) + Len(b)
        /\ \A k \in 1 .. Len(a) + Len(b) : taken[k] = IF k <= Len(a) THEN a[k] ELSE b[k - Len(a)]
        /\ Len(b) \in Nat
    <3>1. a \in Seq(Queued) /\ b \in Seq(Queued) /\ taken = a \o b
      BY <2>1, <2>2, <1>5
    <3> QED
      BY ONLY <3>1
  <2>5. \A k \in 1 .. m : taken[k] = queue[k]
    <3> TAKE k \in 1 .. m
    <3>1. k \in 1 .. Len(a) + Len(b) /\ k <= Len(a)
      BY <2>1, <2>4, <1>8
    <3> QED
      BY ONLY <3>1, <2>1, <2>4
  <2>6. ASSUME NEW k \in 1 .. Len(taken), k > m
        PROVE  IsAside(taken[k].cmd) /\ \E i \in 1 .. Len(queue) : taken[k] = queue[i]
    <3>1. PICK l \in 1 .. Len(b) : taken[k] = b[l]
      <4>0. /\ Len(a) = m /\ Len(a) \in Nat /\ Len(b) \in Nat /\ Len(taken) = Len(a) + Len(b)
            /\ k \in 1 .. Len(taken) /\ k > m
        BY <2>1, <2>4, <2>6, <1>8
      <4>1. k \in 1 .. Len(a) + Len(b) /\ ~(k <= Len(a)) /\ k - Len(a) \in 1 .. Len(b)
        BY ONLY <4>0
      <4>2. k - m \in 1 .. Len(b) /\ taken[k] = b[k - m]
        BY ONLY <4>0, <4>1, <2>4
      <4> QED
        BY ONLY <4>2
    <3>2. PICK i \in 1 .. Len(rest) : b[l] = rest[i] /\ rest[i] \in aside
      BY <2>3 DEF KeptAt
    <3>3. m + i \in 1 .. Len(queue) /\ rest[i] = queue[m + i]
      <4>1. m \in 0 .. Len(queue) /\ i \in 1 .. Len(rest)
        OBVIOUS
      <4>2. i \in 1 .. Len(queue) - m /\ m + i \in 1 .. Len(queue)
        BY ONLY <4>1, <1>8
      <4> QED
        BY ONLY <4>2, <1>8
    <3>4. IsAside(rest[i].cmd)
      BY ONLY <3>2, <1>4
    <3> QED
      BY ONLY <3>1, <3>2, <3>3, <3>4
  <2>7. m = Len(queue) => Len(b) = 0
    <3>1. g \in [1 .. Len(b) -> 1 .. Len(rest)]
      BY <2>3 DEF KeptAt
    <3>2. ASSUME m = Len(queue), Len(b) # 0 PROVE FALSE
      <4>1. 1 \in 1 .. Len(b) /\ Len(rest) = 0
        BY <3>2, <2>4, <1>8
      <4> QED
        BY <4>1, <3>1
    <3> QED
      BY <3>2
  <2> QED
    BY <2>1, <2>4, <2>5, <2>6, <2>7 DEF TakenOf
<1>10. \E f : LeftOf(m, f, queue')
  <2>1. PICK r \in Seq(Queued) : r = Kept(rest, ToSet(rest) \ aside)
    BY <1>8, KeptOf
  <2>2. PICK g : KeptAt(g, r, rest, ToSet(rest) \ aside)
    BY <1>8, <2>1, KeptOf
  <2>3. /\ g \in [1 .. Len(r) -> 1 .. Len(rest)]
        /\ \A k \in 1 .. Len(r) : r[k] = rest[g[k]]
        /\ \A k, l \in 1 .. Len(r) : k < l => g[k] < g[l]
    BY <2>2 DEF KeptAt
  <2> DEFINE f == [k \in 1 .. Len(r) |-> m + g[k]]
  <2>4. \A k \in 1 .. Len(r) : f[k] = m + g[k] /\ g[k] \in 1 .. Len(queue) - m
    BY <2>3, <1>8
  <2>5. f \in [1 .. Len(r) -> 1 .. Len(queue)]
    BY <2>4, <1>8
  <2> HIDE DEF f
  <2>6. ASSUME NEW k \in 1 .. Len(r)
        PROVE  f[k] > m /\ r[k] = queue[f[k]]
    <3>1. PICK i \in 1 .. Len(queue) - m : i = g[k] /\ f[k] = m + i /\ r[k] = rest[i]
      BY ONLY <2>3, <2>4, k \in 1 .. Len(r)
    <3>2. m + i > m
      BY ONLY m \in 0 .. Len(queue), Len(queue) \in Nat, i \in 1 .. Len(queue) - m, <1>8
    <3> QED
      BY ONLY <3>1, <3>2, <1>8
  <2>7. \A k, l \in 1 .. Len(r) : k < l => f[k] < f[l]
    BY <2>3, <2>4, <1>8
  <2>8. LeftOf(m, f, r)
    BY <2>5, <2>6, <2>7 DEF LeftOf
  <2> QED
    BY <2>1, <2>8, <1>6
<1>11. pc' = [c \in Callers |-> IF pc[c] = "turn" /\ arg[c] \in ToSet(Commanded(taken)) THEN "free" ELSE pc[c]]
  BY ONLY <1>6, Zenon
<1>12. HandleStep(budget, m, taken, started, parks)
  BY ONLY <1>6, <1>7, <1>9, <1>10, <1>11, Zenon DEF HandleStep
<1> QED
  BY <1>12

\* What a pass takes and what it leaves are in their order, the one before the
\* other.
LEMMA HandlesInOrder ==
    ASSUME TypeOK, NEW budget, NEW m, NEW taken, NEW started, NEW parks,
           HandleStep(budget, m, taken, started, parks),
           Rises(Commanded(queue), Sendable, {})
    PROVE  /\ Commanded(taken) \in Seq(Commands)
           /\ ToSet(Commanded(taken)) \subseteq InQueue
           /\ InQueue' \subseteq InQueue
           /\ queue' \in Seq(Queued)
           /\ Rises(Commanded(taken), Sendable, {})
           /\ Rises(Commanded(queue'), Sendable, {})
           /\ Below(ToSet(Commanded(taken)), InQueue', Sendable)
<1>1. queue \in Seq(Queued) /\ Len(queue) \in Nat
  BY DEF TypeOK
<1>2. PICK f : LeftOf(m, f, queue')
  BY DEF HandleStep
<1>3. TakenOf(m, taken)
  BY DEF HandleStep
<1>4. /\ m \in 0 .. Len(queue)
      /\ taken \in Seq(Queued) /\ m <= Len(taken)
      /\ \A k \in 1 .. m : taken[k] = queue[k]
      /\ \A k \in 1 .. Len(taken) :
           k > m => IsAside(taken[k].cmd) /\ \E i \in 1 .. Len(queue) : taken[k] = queue[i]
  BY <1>3 DEF TakenOf
<1>5. PICK r \in Seq(Queued) : r = queue'
  BY <1>2 DEF LeftOf
<1>6. /\ f \in [1 .. Len(r) -> 1 .. Len(queue)]
      /\ \A k \in 1 .. Len(r) : f[k] > m /\ r[k] = queue[f[k]]
      /\ \A k, l \in 1 .. Len(r) : k < l => f[k] < f[l]
  BY <1>2, <1>5 DEF LeftOf
<1>7. InQueue' = ToSet(Commanded(r))
  BY <1>5 DEF InQueue
<1>8. ToSet(Commanded(taken)) \subseteq InQueue
  <2> SUFFICES ASSUME NEW x \in ToSet(Commanded(taken)) PROVE x \in InQueue
    OBVIOUS
  <2>1. PICK k \in 1 .. Len(taken) : taken[k].cmd = x
    BY <1>4, CommandedOf
  <2>2. PICK i \in 1 .. Len(queue) : taken[k] = queue[i]
    <3>1. k <= m => k \in 1 .. m /\ k \in 1 .. Len(queue)
      BY <1>4, <1>1
    <3>2. k > m \/ k <= m
      BY <1>4, <1>1
    <3> QED
      BY ONLY <3>1, <3>2, <1>4
  <2> QED
    BY <2>1, <2>2, <1>1, CommandedOf DEF InQueue
<1>9. InQueue' \subseteq InQueue
  <2> SUFFICES ASSUME NEW x \in ToSet(Commanded(r)) PROVE x \in InQueue
    BY <1>7
  <2>1. PICK k \in 1 .. Len(r) : r[k].cmd = x
    BY CommandedOf
  <2>2. f[k] \in 1 .. Len(queue) /\ r[k] = queue[f[k]]
    BY <1>6
  <2> QED
    BY <2>1, <2>2, <1>1, CommandedOf DEF InQueue
\* Two commands of the queue, by their places.
<1>10. \A i, j \in 1 .. Len(queue) :
          i < j /\ queue[i].cmd.by = queue[j].cmd.by /\ queue[i].cmd.kind \in Sendable
              /\ queue[j].cmd.kind \in Sendable => queue[i].cmd.n < queue[j].cmd.n
  <2>1. PICK s \in Seq(Commands) : s = Commanded(queue) /\ DOMAIN s = 1 .. Len(queue)
    BY <1>1, CommandedOf
  <2>2. \A i \in 1 .. Len(queue) : s[i] = queue[i].cmd
    BY <2>1, <1>1, CommandedOf
  <2>3. Rises(s, Sendable, {})
    BY <2>1
  <2> QED
    BY ONLY <2>1, <2>2, <2>3 DEF Rises
<1>11. \A cmd : cmd.kind \in Sendable => ~IsAside(cmd)
  BY DEF Sendable, IsAside
<1>12. \A k \in 1 .. Len(taken) : taken[k].cmd.kind \in Sendable => k <= m /\ k \in 1 .. Len(queue) /\ taken[k] = queue[k]
  <2> SUFFICES ASSUME NEW k \in 1 .. Len(taken), taken[k].cmd.kind \in Sendable
               PROVE  k <= m /\ k \in 1 .. Len(queue) /\ taken[k] = queue[k]
    OBVIOUS
  <2>1. ~(k > m)
    BY <1>4, <1>11
  <2>2. k \in 1 .. m /\ k \in 1 .. Len(queue) /\ k <= m
    BY <2>1, <1>4, <1>1
  <2> QED
    BY ONLY <2>2, <1>4
<1>13. Rises(Commanded(taken), Sendable, {})
  <2>1. PICK t \in Seq(Commands) : t = Commanded(taken) /\ DOMAIN t = 1 .. Len(taken)
    BY <1>4, CommandedOf
  <2>2. \A i \in 1 .. Len(taken) : t[i] = taken[i].cmd
    BY <2>1, <1>4, CommandedOf
  <2>3. SUFFICES ASSUME NEW i \in 1 .. Len(taken), NEW j \in 1 .. Len(taken), i < j, t[i].by = t[j].by,
                        t[i].kind \in Sendable, t[j].kind \in Sendable
                 PROVE  t[i].n < t[j].n
    BY <2>1 DEF Rises
  <2>4. i \in 1 .. Len(queue) /\ j \in 1 .. Len(queue) /\ t[i] = queue[i].cmd /\ t[j] = queue[j].cmd
    BY ONLY <2>2, <2>3, <1>12
  <2> QED
    BY ONLY <2>3, <2>4, <1>10
<1>14. Rises(Commanded(r), Sendable, {})
  <2>1. PICK t \in Seq(Commands) : t = Commanded(r) /\ DOMAIN t = 1 .. Len(r)
    BY CommandedOf
  <2>2. \A i \in 1 .. Len(r) : t[i] = r[i].cmd
    BY <2>1, CommandedOf
  <2>3. SUFFICES ASSUME NEW i \in 1 .. Len(r), NEW j \in 1 .. Len(r), i < j, t[i].by = t[j].by,
                        t[i].kind \in Sendable, t[j].kind \in Sendable
                 PROVE  t[i].n < t[j].n
    BY <2>1 DEF Rises
  <2>4. /\ f[i] \in 1 .. Len(queue) /\ f[j] \in 1 .. Len(queue) /\ f[i] < f[j]
        /\ t[i] = queue[f[i]].cmd /\ t[j] = queue[f[j]].cmd
    BY ONLY <2>2, <2>3, <1>6
  <2> QED
    BY ONLY <2>3, <2>4, <1>10
<1>15. Below(ToSet(Commanded(taken)), ToSet(Commanded(r)), Sendable)
  <2> SUFFICES ASSUME NEW x \in ToSet(Commanded(taken)), NEW y \in ToSet(Commanded(r)), x.by = y.by,
                      x.kind \in Sendable, y.kind \in Sendable
               PROVE  x.n < y.n
    BY DEF Below
  <2>1. PICK k \in 1 .. Len(taken) : taken[k].cmd = x
    BY <1>4, CommandedOf
  <2>2. PICK l \in 1 .. Len(r) : r[l].cmd = y
    BY CommandedOf
  <2>3. k <= m /\ k \in 1 .. Len(queue) /\ taken[k] = queue[k]
    BY <2>1, <1>12
  <2>4. PICK j \in 1 .. Len(queue) : j > m /\ r[l] = queue[j]
    <3>1. f[l] \in 1 .. Len(queue) /\ f[l] > m /\ r[l] = queue[f[l]]
      BY <1>6
    <3> QED
      BY ONLY <3>1
  <2>5. k < j
    BY <2>3, <2>4, <1>4
  <2> QED
    BY <2>1, <2>2, <2>3, <2>4, <2>5, <1>10
<1>16. Commanded(taken) \in Seq(Commands)
  BY <1>4, CommandedOf
<1> QED
  BY <1>5, <1>7, <1>8, <1>9, <1>13, <1>14, <1>15, <1>16

-----------------------------------------------------------------------------
(***************************************************************************)
(* The types.                                                              *)
(***************************************************************************)
\* A call is counted and is the caller's argument.
LEMMA Calls ==
    ASSUME TypeOK, NEW c \in Callers, NEW kind \in SendKinds \cup LocalKinds, Call(c, kind)
    PROVE  /\ pc[c] = "free"
           /\ calls' = [calls EXCEPT ![c] = @ + 1]
           /\ arg' = [arg EXCEPT ![c] = [by |-> c, n |-> calls[c] + 1, kind |-> kind]]
           /\ calls' \in [Callers -> Nat] /\ arg' \in [Callers -> Commands]
           /\ arg'[c] \in Commands
           /\ calls'[c] = calls[c] + 1 /\ \A d \in Callers \ {c} : calls'[d] = calls[d] /\ arg'[d] = arg[d]
           /\ arg'[c] = [by |-> c, n |-> calls[c] + 1, kind |-> kind]
<1>1. /\ pc[c] = "free"
      /\ calls' = [calls EXCEPT ![c] = @ + 1]
      /\ arg' = [arg EXCEPT ![c] = [by |-> c, n |-> calls[c] + 1, kind |-> kind]]
  BY Zenon DEF Call
<1>2. calls \in [Callers -> Nat] /\ arg \in [Callers -> Commands]
  BY DEF TypeOK
<1>3. [by |-> c, n |-> calls[c] + 1, kind |-> kind] \in Commands
  BY <1>2 DEF Commands
<1> QED
  BY ONLY <1>1, <1>2, <1>3, c \in Callers

LEMMA TypesStart ==
    ASSUME CommandQueueAssumption, Init
    PROVE  TypeOK
<1>1. \A c \in Callers : NoCall(c) \in Commands
  BY DEF NoCall, Commands, LocalKinds
<1>2. /\ chan \in Seq(Commands) /\ deferred \in Seq(Deferrals) /\ taking \in Seq(Deferrals)
      /\ queue \in Seq(Queued) /\ resolved \in Seq(Commands) /\ answers \in Seq(Commands)
      /\ ready \in Seq(Commands)
  BY DEF Init
<1>3. /\ sent \in Nat /\ handled \in Nat /\ received \in Nat
      /\ eng = "drain" /\ lookups = {} /\ late = {} /\ parked = {}
      /\ pc \in [Callers -> {"free"}] /\ arg \in [Callers -> Commands]
      /\ mark \in [Callers -> Nat] /\ calls \in [Callers -> Nat]
  BY <1>1 DEF Init
<1>4. running \in BOOLEAN /\ paced \in BOOLEAN /\ holdOver \in BOOLEAN
  BY Zenon DEF Init
<1> QED
  BY ONLY <1>2, <1>3, <1>4 DEF TypeOK

LEMMA TypesKept ==
    ASSUME CommandQueueAssumption, TypeOK, [Next]_vars
    PROVE  TypeOK'
<1> USE DEF clockVars, engineVars, callVars
<1>1. ASSUME NEW c \in Callers, Send(c)
      PROVE  TypeOK'
  <2>1. PICK kind \in KindsOf[c] \cap SendKinds : Call(c, kind)
    BY <1>1 DEF Send
  <2>2. calls' \in [Callers -> Nat] /\ arg' \in [Callers -> Commands] /\ arg'[c] \in Commands
    BY <2>1, Calls
  <2>3. chan' \in Seq(Commands)
    <3>1. chan' = chan \/ chan' = Append(chan, arg'[c])
      BY <1>1 DEF Send
    <3>2. chan \in Seq(Commands)
      BY DEF TypeOK
    <3>3. Append(chan, arg'[c]) \in Seq(Commands)
      BY <3>2, <2>2, InAppend
    <3> QED
      BY ONLY <3>1, <3>2, <3>3
  <2>4. pc' \in [Callers -> {"free", "count", "after", "push", "turn", "target", "wait"}]
    BY <1>1 DEF Send, TypeOK
  <2> QED
    BY ONLY TypeOK, <1>1, <2>2, <2>3, <2>4 DEF TypeOK, Send
<1>2. ASSUME NEW c \in Callers, Local(c)
      PROVE  TypeOK'
  <2>1. PICK kind \in KindsOf[c] \cap LocalKinds :
            /\ Call(c, kind)
            /\ pc' = [pc EXCEPT ![c] = IF paced /\ running THEN "after"
                                       ELSE IF kind = "error" THEN "target" ELSE "free"]
            /\ UNCHANGED <<chan, clockVars, engineVars, mark, answers, late>>
    BY <1>2 DEF Local
  <2>2. calls' \in [Callers -> Nat] /\ arg' \in [Callers -> Commands]
    BY <2>1, Calls
  <2>3. pc' \in [Callers -> {"free", "count", "after", "push", "turn", "target", "wait"}]
    BY <2>1 DEF TypeOK
  <2> QED
    BY ONLY TypeOK, <2>1, <2>2, <2>3 DEF TypeOK
<1>3. ASSUME NEW c \in Callers, CallerStep(c)
      PROVE  TypeOK'
  <2>1. CASE NoteSent(c)
    BY <2>1 DEF NoteSent, TypeOK
  <2>2. CASE DeferAfter(c)
    BY <2>2 DEF DeferAfter, TypeOK
  <2>3. CASE DeferPush(c)
    <3>1. [after |-> mark[c], cmd |-> arg[c]] \in Deferrals
      BY DEF TypeOK, Deferrals
    <3>2. deferred' \in Seq(Deferrals)
      BY <3>1, <2>3, InAppend DEF TypeOK, DeferPush
    <3> QED
      BY <3>2, <2>3 DEF DeferPush, TypeOK
  <2>4. CASE WaitTarget(c)
    BY <2>4 DEF WaitTarget, TypeOK
  <2>5. CASE WaitDone(c)
    BY <2>5 DEF WaitDone, TypeOK
  <2>6. CASE WaitExpires(c)
    BY <2>6 DEF WaitExpires, TypeOK
  <2>7. CASE TurnExpires(c)
    BY <2>7 DEF TurnExpires, TypeOK
  <2> QED
    BY <1>3, <2>1, <2>2, <2>3, <2>4, <2>5, <2>6, <2>7 DEF CallerStep
<1>4. CASE DrainChannel
  <2>1. queue' \in Seq(Queued) /\ received' \in Nat
    BY <1>4, Drains
  <2> QED
    BY ONLY TypeOK, <1>4, <2>1 DEF DrainChannel, TypeOK
<1>5. CASE TakeDeferred
  <2>1. taking' \in Seq(Deferrals) /\ deferred' \in Seq(Deferrals)
    <3>1. deferred \in Seq(Deferrals) /\ taking \in Seq(Deferrals) /\ <<>> \in Seq(Deferrals)
      BY DEF TypeOK
    <3>2. (taking' = deferred /\ deferred' = <<>>) \/ (taking' = taking /\ deferred' = deferred)
      BY <1>5, Zenon DEF TakeDeferred
    <3> QED
      BY ONLY <3>1, <3>2
  <2>2. eng' = "handle" /\ UNCHANGED <<chan, sent, handled, running, paced, queue, received, lookups,
                                       holdOver, resolved, parked, ready, callVars, answers, late>>
    BY <1>5 DEF TakeDeferred
  <2> QED
    BY ONLY TypeOK, <2>1, <2>2 DEF TypeOK, callVars
<1>6. CASE InsertDeferred
  <2>1. taking' \in Seq(Deferrals) /\ queue' \in Seq(Queued)
    BY <1>6, Puts DEF PutAt
  <2> QED
    BY ONLY TypeOK, <1>6, <2>1 DEF InsertDeferred, TypeOK
<1>7. ASSUME NEW budget, Handle(budget)
      PROVE  TypeOK'
  <2>1. PICK m, taken, started, parks : HandleStep(budget, m, taken, started, parks)
    BY <1>7, Handles
  <2>2. taken \in Seq(Queued) /\ queue' \in Seq(Queued)
    BY <2>1 DEF HandleStep, TakenOf, LeftOf
  <2>3. Counted(taken) \in Nat
    <3>1. IsFiniteSet(1 .. Len(taken)) /\ DOMAIN taken = 1 .. Len(taken)
      BY <2>2, FS_Interval
    <3>2. IsFiniteSet({i \in DOMAIN taken : taken[i].channel})
      BY <3>1, FS_Subset
    <3> QED
      BY <3>2, FS_CardinalityType DEF Counted
  <2>4. Commanded(taken) \in Seq(Commands) /\ ToSet(Commanded(taken)) \subseteq Commands
    BY <2>2, CommandedOf, InSet
  <2>5. PICK told \in Seq(Commands) : told = Kept(Commanded(taken), ToSet(Commanded(taken)) \ (started \cup parks))
    BY <2>4, KeptOf
  <2>a. PICK back \in Seq(Commands) : back = Kept(resolved, ToSet(resolved) \ parks)
    BY KeptOf DEF TypeOK
  <2>6. answers' \in Seq(Commands)
    <3>1. answers \in Seq(Commands) /\ back \in Seq(Commands) /\ ready \in Seq(Commands) /\ told \in Seq(Commands)
      BY DEF TypeOK
    <3>2. answers' = answers \o (back \o ready) \o told
      BY ONLY <2>1, <2>5, <2>a DEF HandleStep
    <3> QED
      BY ONLY <3>1, <3>2
  <2>7. lookups' \subseteq Commands /\ parked' \subseteq Commands /\ late' \subseteq Commands
    <3>1. ToSet(resolved) \subseteq Commands
      BY InSet DEF TypeOK
    <3> QED
      BY ONLY TypeOK, <2>1, <2>4, <3>1 DEF HandleStep, TypeOK
  <2>8. holdOver' \in BOOLEAN
    BY ONLY <2>1, Zenon DEF HandleStep
  <2>9. pc' \in [Callers -> {"free", "count", "after", "push", "turn", "target", "wait"}]
    BY ONLY TypeOK, <2>1 DEF HandleStep, TypeOK
  <2>10. eng' \in {"stop", "drain"} /\ resolved' = <<>> /\ ready' = <<>> /\ handled' \in Nat
    BY ONLY TypeOK, <2>1, <2>3 DEF HandleStep, TypeOK
  <2>11. UNCHANGED <<chan, sent, deferred, running, paced, received, taking, arg, mark, calls>>
    BY ONLY <2>1 DEF HandleStep
  <2> QED
    BY ONLY TypeOK, <2>2, <2>6, <2>7, <2>8, <2>9, <2>10, <2>11 DEF TypeOK
<1>8. CASE LookupAnswered
  <2>1. PICK cmd \in lookups : lookups' = lookups \ {cmd} /\ resolved' = Append(resolved, cmd)
    BY <1>8 DEF LookupAnswered
  <2>2. resolved' \in Seq(Commands) /\ lookups' \subseteq Commands
    BY <2>1 DEF TypeOK
  <2> QED
    BY ONLY TypeOK, <1>8, <2>2 DEF LookupAnswered, TypeOK
<1>b. CASE DefinitionCame
  <2>1. PICK cmd \in parked : parked' = parked \ {cmd} /\ ready' = Append(ready, cmd)
    BY <1>b DEF DefinitionCame
  <2>2. ready' \in Seq(Commands) /\ parked' \subseteq Commands
    BY <2>1 DEF TypeOK
  <2> QED
    BY ONLY TypeOK, <1>b, <2>2 DEF DefinitionCame, TypeOK
<1>9. CASE HoldLimit
  BY <1>9 DEF HoldLimit, TypeOK
<1>10. CASE StopRunning
  BY <1>10 DEF StopRunning, TypeOK
<1>11. CASE EndRun
  BY <1>11 DEF EndRun, TypeOK
<1>12. CASE UNCHANGED vars
  BY <1>12 DEF vars, TypeOK
<1> QED
  BY ONLY [Next]_vars, <1>1, <1>2, <1>3, <1>4, <1>5, <1>6, <1>7, <1>8, <1>9, <1>10, <1>11, <1>12, <1>b
     DEF Next, EngineStep

-----------------------------------------------------------------------------
(***************************************************************************)
(* The commands on their way.                                              *)
(***************************************************************************)
LEMMA GivenTyped ==
    ASSUME TypeOK
    PROVE  /\ Given \subseteq Commands
           /\ \A x \in Given : x.by \in Callers /\ x.n \in Nat
           /\ ToSet(chan) \subseteq Commands /\ ToSet(answers) \subseteq Commands
           /\ Waiting \subseteq Commands /\ Apart \subseteq Commands /\ InQueue \subseteq Commands
           /\ \A c \in Callers : calls[c] \in Nat /\ arg[c] \in Commands
<1>1. /\ chan \in Seq(Commands) /\ queue \in Seq(Queued) /\ resolved \in Seq(Commands)
      /\ answers \in Seq(Commands) /\ deferred \in Seq(Deferrals) /\ taking \in Seq(Deferrals)
      /\ lookups \subseteq Commands /\ parked \subseteq Commands /\ ready \in Seq(Commands)
  BY DEF TypeOK
<1>2. ToSet(ready) \subseteq Commands /\ ToSet(chan) \subseteq Commands /\ ToSet(resolved) \subseteq Commands /\ ToSet(answers) \subseteq Commands
  BY <1>1, InSet
<1>3. InQueue \subseteq Commands
  BY <1>1, CommandedOf, InSet DEF InQueue
<1>4. ToSet(deferred) \subseteq Deferrals /\ ToSet(taking) \subseteq Deferrals
  BY <1>1, InSet
<1>5. Listed \subseteq Commands
  BY <1>4 DEF Listed, Deferrals
<1>6. Given \subseteq Commands
  BY <1>1, <1>2, <1>3, <1>5 DEF Given, Waiting, Apart
<1>7. \A x \in Commands : x.by \in Callers /\ x.n \in Nat
  BY DEF Commands
<1>8. \A c \in Callers : calls[c] \in Nat /\ arg[c] \in Commands
  BY DEF TypeOK
<1> QED
  BY <1>1, <1>2, <1>3, <1>6, <1>7, <1>8 DEF Waiting, Apart

LEMMA NoneIn ==
    ToSet(<<>>) = {}
  BY DEF ToSet

\* A call made now comes behind all that were given.
LEMMA GivenBelow ==
    ASSUME Base, NEW x, NEW K, x.n = calls[x.by] + 1, x.by \in Callers
    PROVE  Below(Given, {x}, K)
<1> SUFFICES ASSUME NEW y \in Given, y.by = x.by PROVE y.n < x.n
  BY DEF Below
<1>1. y.n <= calls[y.by] /\ y.n \in Nat /\ calls[y.by] \in Nat
  BY GivenTyped DEF Base, CallsMade
<1> QED
  BY <1>1

BaseStep ==
    /\ UNCHANGED <<queue, answers, calls, arg>>
    /\ chan' \in {chan, <<>>}
    /\ Waiting' \subseteq Waiting /\ Apart' \subseteq Apart /\ late \subseteq late'
    /\ Listed' \subseteq Listed
    /\ \A c \in Callers : \/ pc'[c] \in {pc[c], "free"}
                          \/ pc[c] = "target" /\ pc'[c] = "wait"
                          \/ pc[c] = "after" /\ pc'[c] = "push"

\* Steps that give and answer nothing.
LEMMA BaseByStep ==
    ASSUME Base, TypeOK', BaseStep
    PROVE  Base'
<1>1. ToSet(chan)' \subseteq ToSet(chan) /\ (chan' = chan \/ chan' = <<>>)
  BY NoneIn DEF BaseStep
<1>2. InQueue' = InQueue /\ ToSet(answers)' = ToSet(answers)
  BY DEF BaseStep, InQueue
<1>3. Given' \subseteq Given
  BY <1>1, <1>2 DEF Given, BaseStep
<1>4. calls' = calls /\ arg' = arg /\ Commanded(queue)' = Commanded(queue) /\ answers' = answers
  BY DEF BaseStep
<1>5. CallsMade'
  <2>1. \A x \in Given' : x.n <= calls'[x.by]
    BY <1>3, <1>4 DEF Base, CallsMade
  <2>2. \A c \in Callers : arg'[c].by = c /\ arg'[c].n = calls'[c]
    BY <1>4 DEF Base, CallsMade
  <2>3. \A c \in Callers : calls'[c] = 0 => pc'[c] = "free"
    BY <1>4 DEF Base, CallsMade, BaseStep
  <2>4. ASSUME NEW c \in Callers, pc'[c] \in {"target", "wait"}
        PROVE  arg'[c].kind = "error" /\ \A x \in Given' : x.by = c => x.n < calls'[c]
    <3>1. pc[c] \in {"target", "wait"}
      BY <2>4 DEF BaseStep
    <3> QED
      BY ONLY <3>1, <1>3, <1>4, Base, c \in Callers DEF Base, CallsMade
  <2> QED
    BY ONLY <2>1, <2>2, <2>3, <2>4 DEF CallsMade
<1>6. OnTheWay'
  <2>1. Rises(chan', Sendable, {})
    BY <1>1 DEF Base, OnTheWay, Rises
  <2>2. Below(InQueue', ToSet(chan)', Sendable)
    BY <1>1, <1>2, BelowLess DEF Base, OnTheWay
  <2>3. Below((Waiting \cup Apart \cup ToSet(answers))', (InQueue \cup ToSet(chan))', Sendable)
    BY <1>1, <1>2, BelowLess DEF Base, OnTheWay, BaseStep
  <2>4. (\A x \in Waiting' : x.kind = "lookup") /\ \A x \in ToSet(chan)' : x.kind \in SendKinds
    BY <1>1 DEF Base, OnTheWay, BaseStep
  <2>5. Apart' \subseteq late' /\ Rises(answers', Further, late')
    BY <1>4, RisesMore DEF Base, OnTheWay, BaseStep
  <2> QED
    BY ONLY <2>1, <2>2, <2>3, <2>4, <2>5, <1>4, Base DEF Base, OnTheWay
<1>7. Deferred'
  <2>1. \A x \in Listed' : x.kind \in LocalKinds
    BY DEF Base, Deferred, BaseStep
  <2>2. ASSUME NEW c \in Callers, pc'[c] \in {"after", "push"}
        PROVE  arg'[c].kind \in LocalKinds
    <3>1. pc[c] \in {"after", "push"}
      BY <2>2 DEF BaseStep
    <3> QED
      BY <3>1, <1>4 DEF Base, Deferred
  <2> QED
    BY ONLY <2>1, <2>2 DEF Deferred
<1> QED
  BY <1>5, <1>6, <1>7 DEF Base

LEMMA SendBase ==
    ASSUME CommandQueueAssumption, Base, TypeOK', NEW c \in Callers, Send(c)
    PROVE  Base'
<1>1. PICK kind \in KindsOf[c] \cap SendKinds : Call(c, kind)
  BY DEF Send
<1>2. /\ pc[c] = "free" /\ arg'[c] \in Commands
      /\ calls'[c] = calls[c] + 1 /\ \A d \in Callers \ {c} : calls'[d] = calls[d] /\ arg'[d] = arg[d]
      /\ arg'[c] = [by |-> c, n |-> calls[c] + 1, kind |-> kind]
  BY <1>1, Calls DEF Base
<1>3. PICK x \in Commands : x = arg'[c] /\ x.by = c /\ x.n = calls[c] + 1 /\ x.kind \in SendKinds
  BY <1>1, <1>2
<1>4. chan' = chan \/ chan' = Append(chan, x)
  BY <1>3 DEF Send
<1>5. /\ UNCHANGED <<queue, lookups, resolved, parked, ready, late, answers, deferred, taking>>
      /\ pc' = pc \/ pc' = [pc EXCEPT ![c] = "count"]
  BY DEF Send, engineVars, clockVars
<1>6. chan \in Seq(Commands) /\ pc \in [Callers -> {"free", "count", "after", "push", "turn", "target", "wait"}]
  BY DEF Base, TypeOK
<1>7. ToSet(chan)' \subseteq ToSet(chan) \cup {x}
  <2>1. ToSet(Append(chan, x)) = ToSet(chan) \cup {x}
    BY <1>6, InAppend
  <2> QED
    BY ONLY <2>1, <1>4
<1>8. /\ InQueue' = InQueue /\ Waiting' = Waiting /\ Apart' = Apart /\ Listed' = Listed
      /\ ToSet(answers)' = ToSet(answers)
  BY <1>5 DEF InQueue, Waiting, Apart, Listed
<1>9. Given' \subseteq Given \cup {x}
  BY <1>7, <1>8 DEF Given
<1>10. \A d \in Callers : calls[d] \in Nat
  BY DEF Base, TypeOK
<1>11. CallsMade'
  <2>1. ASSUME NEW y \in Given' PROVE y.n <= calls'[y.by]
    <3>1. CASE y = x
      BY <3>1, <1>2, <1>3, <1>10
    <3>2. CASE y \in Given
      <4>1. y.n <= calls[y.by] /\ y.by \in Callers /\ y.n \in Nat
        BY <3>2, GivenTyped DEF Base, CallsMade
      <4>2. calls'[y.by] = calls[y.by] \/ calls'[y.by] = calls[y.by] + 1
        BY <4>1, <1>2
      <4> QED
        BY <4>1, <4>2, <1>10
    <3> QED
      BY <1>9, <3>1, <3>2
  <2>2. \A d \in Callers : arg'[d].by = d /\ arg'[d].n = calls'[d]
    BY <1>2, <1>3 DEF Base, CallsMade
  <2>3. \A d \in Callers \ {c} : pc'[d] = pc[d]
    BY <1>5, <1>6
  <2>4. pc'[c] \in {"free", "count"}
    BY <1>2, <1>5, <1>6
  <2>5. \A d \in Callers : calls'[d] = 0 => pc'[d] = "free"
    BY <1>2, <1>10, <2>3 DEF Base, CallsMade
  <2>6. ASSUME NEW d \in Callers, pc'[d] \in {"target", "wait"}
        PROVE  arg'[d].kind = "error" /\ \A y \in Given' : y.by = d => y.n < calls'[d]
    <3>1. d # c /\ pc[d] \in {"target", "wait"}
      BY <2>3, <2>4, <2>6
    <3>2. arg'[d] = arg[d] /\ calls'[d] = calls[d] /\ x.by # d
      BY <3>1, <1>2, <1>3
    <3> QED
      BY <3>1, <3>2, <1>9 DEF Base, CallsMade
  <2> QED
    BY ONLY <2>1, <2>2, <2>5, <2>6 DEF CallsMade
<1>12. Below(Given, {x}, Sendable)
  BY <1>3, GivenBelow
<1>13. OnTheWay'
  <2>1. Rises(chan', Sendable, {})
    <3>1. Rises(chan, Sendable, {})
      BY DEF Base, OnTheWay
    <3>2. Below(ToSet(chan) \ {}, {x}, Sendable)
      BY <1>12, BelowLess DEF Given
    <3>3. Rises(Append(chan, x), Sendable, {})
      BY <3>1, <3>2, <1>6, RisesAppend
    <3> QED
      BY <1>4, <3>1, <3>3
  <2>2. Below(InQueue', ToSet(chan)', Sendable)
    <3>1. Below(InQueue, {x}, Sendable) /\ Below(InQueue, ToSet(chan), Sendable)
      BY <1>12, BelowLess DEF Given, Base, OnTheWay
    <3> QED
      BY <3>1, <1>7, <1>8 DEF Below
  <2>3. Below((Waiting \cup Apart \cup ToSet(answers))', (InQueue \cup ToSet(chan))', Sendable)
    <3>1. /\ Below(Waiting \cup Apart \cup ToSet(answers), {x}, Sendable)
          /\ Below(Waiting \cup Apart \cup ToSet(answers), InQueue \cup ToSet(chan), Sendable)
      BY <1>12, BelowLess DEF Given, Base, OnTheWay
    <3> QED
      BY <3>1, <1>7, <1>8 DEF Below
  <2>4. (\A y \in Waiting' : y.kind = "lookup") /\ \A y \in ToSet(chan)' : y.kind \in SendKinds
    BY <1>3, <1>7, <1>8 DEF Base, OnTheWay
  <2> QED
    BY ONLY <2>1, <2>2, <2>3, <2>4, <1>5, <1>8, Base DEF Base, OnTheWay
<1>14. Deferred'
  BY <1>2, <1>5, <1>6, <1>8 DEF Base, Deferred
<1> QED
  BY <1>11, <1>13, <1>14 DEF Base

LEMMA LocalBase ==
    ASSUME CommandQueueAssumption, Base, TypeOK', NEW c \in Callers, Local(c)
    PROVE  Base'
<1>1. PICK kind \in KindsOf[c] \cap LocalKinds :
            /\ Call(c, kind)
            /\ pc' = [pc EXCEPT ![c] = IF paced /\ running THEN "after"
                                       ELSE IF kind = "error" THEN "target" ELSE "free"]
            /\ UNCHANGED <<chan, clockVars, engineVars, mark, answers, late>>
  BY DEF Local
<1>2. /\ pc[c] = "free"
      /\ calls'[c] = calls[c] + 1 /\ \A d \in Callers \ {c} : calls'[d] = calls[d] /\ arg'[d] = arg[d]
      /\ arg'[c] = [by |-> c, n |-> calls[c] + 1, kind |-> kind]
  BY <1>1, Calls DEF Base
<1>3. UNCHANGED <<chan, queue, lookups, resolved, parked, ready, late, answers, deferred, taking>>
  BY <1>1 DEF engineVars, clockVars
<1>4. pc \in [Callers -> {"free", "count", "after", "push", "turn", "target", "wait"}]
  BY DEF Base, TypeOK
<1>5. Given' = Given /\ Listed' = Listed
  BY <1>3 DEF Given, InQueue, Waiting, Apart, Listed
<1>6. \A d \in Callers : calls[d] \in Nat
  BY DEF Base, TypeOK
<1>7. \A d \in Callers \ {c} : pc'[d] = pc[d]
  BY <1>1, <1>4
<1>8. pc'[c] = "target" => kind = "error"
  BY <1>1, <1>4
<1>9. pc'[c] # "wait"
  BY <1>1, <1>4
<1>10. CallsMade'
  <2>1. ASSUME NEW y \in Given PROVE y.n <= calls'[y.by] /\ (y.by = c => y.n < calls'[y.by])
    <3>1. y.n <= calls[y.by] /\ y.by \in Callers /\ y.n \in Nat
      BY GivenTyped DEF Base, CallsMade
    <3>2. CASE y.by = c
      BY <3>1, <3>2, <1>2, <1>6
    <3>3. CASE y.by # c
      BY <3>1, <3>3, <1>2, <1>6
    <3> QED
      BY <3>2, <3>3
  <2>2. \A d \in Callers : arg'[d].by = d /\ arg'[d].n = calls'[d]
    BY <1>2 DEF Base, CallsMade
  <2>3. \A d \in Callers : calls'[d] = 0 => pc'[d] = "free"
    BY <1>2, <1>6, <1>7 DEF Base, CallsMade
  <2>4. ASSUME NEW d \in Callers, pc'[d] \in {"target", "wait"}
        PROVE  arg'[d].kind = "error" /\ \A y \in Given : y.by = d => y.n < calls'[d]
    <3>1. CASE d = c
      BY <3>1, <2>4, <1>8, <1>9, <1>2, <2>1
    <3>2. CASE d # c
      BY <3>2, <2>4, <1>7, <1>2 DEF Base, CallsMade
    <3> QED
      BY <3>1, <3>2
  <2> QED
    BY ONLY <2>1, <2>2, <2>3, <2>4, <1>5 DEF CallsMade
<1>11. OnTheWay'
  BY <1>3 DEF Base, OnTheWay, InQueue, Waiting, Apart
<1>12. Deferred'
  <2>1. ASSUME NEW d \in Callers, pc'[d] \in {"after", "push"}
        PROVE  arg'[d].kind \in LocalKinds
    <3>1. CASE d = c
      BY <3>1, <1>2
    <3>2. CASE d # c
      BY <3>2, <2>1, <1>7, <1>2 DEF Base, Deferred
    <3> QED
      BY <3>1, <3>2
  <2> QED
    BY <2>1, <1>5 DEF Base, Deferred
<1> QED
  BY <1>10, <1>11, <1>12 DEF Base

LEMMA PushBase ==
    ASSUME Base, TypeOK', NEW c \in Callers, DeferPush(c)
    PROVE  Base'
<1>1. /\ UNCHANGED <<chan, queue, lookups, resolved, parked, ready, late, answers, taking, calls, arg>>
      /\ pc[c] = "push"
      /\ pc' = [pc EXCEPT ![c] = IF arg[c].kind = "turn" THEN "turn" ELSE "free"]
      /\ deferred' = Append(deferred, [after |-> mark[c], cmd |-> arg[c]])
  BY DEF DeferPush, engineVars
<1>2. PICK d \in Deferrals : d = [after |-> mark[c], cmd |-> arg[c]]
  BY DEF Base, TypeOK, Deferrals
<1>3. deferred \in Seq(Deferrals) /\ pc \in [Callers -> {"free", "count", "after", "push", "turn", "target", "wait"}]
  BY DEF Base, TypeOK
<1>4. ToSet(deferred)' = ToSet(deferred) \cup {d}
  BY <1>1, <1>2, <1>3, InAppend
<1>5. d.cmd = arg[c] /\ arg[c].kind \in LocalKinds /\ arg[c].by = c /\ arg[c].n = calls[c]
  BY <1>1, <1>2 DEF Base, Deferred, CallsMade
<1>6. Listed' = Listed \cup {arg[c]}
  BY <1>1, <1>4, <1>5 DEF Listed
<1>7. /\ InQueue' = InQueue /\ Waiting' = Waiting /\ ToSet(chan)' = ToSet(chan) /\ ToSet(answers)' = ToSet(answers)
      /\ Given' = Given \cup {arg[c]}
  BY <1>1, <1>6 DEF Given, InQueue, Waiting, Apart
<1>8. pc'[c] \in {"turn", "free"} /\ \A e \in Callers \ {c} : pc'[e] = pc[e]
  BY <1>1, <1>3
<1>9. calls' = calls /\ arg' = arg /\ \A e \in Callers : calls[e] \in Nat
  BY <1>1 DEF Base, TypeOK
<1>10. CallsMade'
  <2>1. \A y \in Given' : y.n <= calls'[y.by]
    BY <1>7, <1>5, <1>9 DEF Base, CallsMade
  <2>2. \A e \in Callers : arg'[e].by = e /\ arg'[e].n = calls'[e]
    BY <1>9 DEF Base, CallsMade
  <2>3. calls[c] # 0
    BY <1>1 DEF Base, CallsMade
  <2>4. \A e \in Callers : calls'[e] = 0 => pc'[e] = "free"
    BY <1>8, <1>9, <2>3 DEF Base, CallsMade
  <2>5. ASSUME NEW e \in Callers, pc'[e] \in {"target", "wait"}
        PROVE  arg'[e].kind = "error" /\ \A y \in Given' : y.by = e => y.n < calls'[e]
    <3>1. e # c /\ pc[e] \in {"target", "wait"}
      BY <1>8, <2>5
    <3> QED
      BY <3>1, <1>5, <1>7, <1>9 DEF Base, CallsMade
  <2> QED
    BY ONLY <2>1, <2>2, <2>4, <2>5 DEF CallsMade
<1>11. OnTheWay'
  BY <1>1 DEF Base, OnTheWay, InQueue, Waiting, Apart
<1>12. Deferred'
  BY <1>5, <1>6, <1>8, <1>9 DEF Base, Deferred
<1> QED
  BY <1>10, <1>11, <1>12 DEF Base

\* The client writes its error.
LEMMA AnswerBase ==
    ASSUME Base, TypeOK', NEW c \in Callers, pc[c] = "wait",
           answers' = Append(answers, arg[c]), pc' = [pc EXCEPT ![c] = "free"],
           UNCHANGED <<chan, clockVars, engineVars, arg, mark, calls>>, late \subseteq late'
    PROVE  Base'
<1>1. UNCHANGED <<chan, queue, lookups, resolved, parked, ready, deferred, taking, calls, arg>>
  BY DEF engineVars, clockVars
<1>2. /\ answers \in Seq(Commands) /\ arg[c] \in Commands
      /\ pc \in [Callers -> {"free", "count", "after", "push", "turn", "target", "wait"}]
      /\ \A e \in Callers : calls[e] \in Nat
  BY DEF Base, TypeOK
<1>3. ToSet(answers)' = ToSet(answers) \cup {arg[c]}
  BY <1>2, InAppend
<1>4. arg[c].kind = "error" /\ arg[c].by = c /\ arg[c].n = calls[c]
  BY DEF Base, CallsMade
<1>5. /\ InQueue' = InQueue /\ Waiting' = Waiting /\ ToSet(chan)' = ToSet(chan) /\ Listed' = Listed
      /\ Apart' = Apart /\ Given' = Given \cup {arg[c]}
  BY <1>1, <1>3 DEF Given, InQueue, Waiting, Apart, Listed
<1>6. pc'[c] = "free" /\ \A e \in Callers \ {c} : pc'[e] = pc[e]
  BY <1>2
<1>7. calls' = calls /\ arg' = arg
  BY <1>1
<1>8. CallsMade'
  <2>1. \A y \in Given' : y.n <= calls'[y.by]
    BY <1>5, <1>4, <1>2, <1>7 DEF Base, CallsMade
  <2>2. \A e \in Callers : arg'[e].by = e /\ arg'[e].n = calls'[e]
    BY <1>7 DEF Base, CallsMade
  <2>3. \A e \in Callers : calls'[e] = 0 => pc'[e] = "free"
    BY <1>6, <1>7 DEF Base, CallsMade
  <2>4. ASSUME NEW e \in Callers, pc'[e] \in {"target", "wait"}
        PROVE  arg'[e].kind = "error" /\ \A y \in Given' : y.by = e => y.n < calls'[e]
    <3>1. e # c /\ pc[e] \in {"target", "wait"}
      BY <1>6, <2>4
    <3> QED
      BY <3>1, <1>4, <1>5, <1>7 DEF Base, CallsMade
  <2> QED
    BY ONLY <2>1, <2>2, <2>3, <2>4 DEF CallsMade
<1>9. OnTheWay'
  <2>1. Below((Waiting \cup Apart \cup ToSet(answers))', (InQueue \cup ToSet(chan))', Sendable)
    BY <1>3, <1>4, <1>5 DEF Base, OnTheWay, Below, Sendable
  <2>2. Rises(answers', Further, late')
    <3>1. Rises(answers, Further, late')
      BY RisesMore DEF Base, OnTheWay
    <3>2. Below(ToSet(answers) \ late', {arg[c]}, Further)
      BY <1>4 DEF Below, Further
    <3> QED
      BY <3>1, <3>2, <1>2, RisesAppend
  <2>3. Commanded(queue)' = Commanded(queue) /\ chan' = chan
    BY <1>1
  <2>4. Apart' \subseteq late'
    BY <1>5 DEF Base, OnTheWay
  <2> QED
    BY ONLY <2>1, <2>2, <2>3, <2>4, <1>5, Base DEF Base, OnTheWay
<1>10. Deferred'
  BY <1>5, <1>6, <1>7 DEF Base, Deferred
<1> QED
  BY <1>8, <1>9, <1>10 DEF Base

LEMMA DrainBase ==
    ASSUME Base, TypeOK', DrainChannel
    PROVE  Base'
<1>1. /\ UNCHANGED <<lookups, resolved, parked, ready, late, deferred, taking, answers, calls, arg, pc>>
      /\ chan' = <<>>
  BY DEF DrainChannel, clockVars, callVars
<1>2. TypeOK
  BY DEF Base
<1>3. Commanded(queue') = Commanded(queue) \o chan
  BY <1>2, Drains
<1>4. Commanded(queue) \in Seq(Commands) /\ chan \in Seq(Commands)
  BY <1>2, CommandedOf DEF TypeOK
<1>5. InQueue' = InQueue \cup ToSet(chan)
  BY <1>3, <1>4, InConcat DEF InQueue
<1>6. /\ ToSet(chan)' = {} /\ Waiting' = Waiting /\ Apart' = Apart /\ Listed' = Listed
      /\ ToSet(answers)' = ToSet(answers)
  BY <1>1, NoneIn DEF Waiting, Apart, Listed
<1>7. Given' = Given
  BY <1>5, <1>6 DEF Given
<1>8. CallsMade'
  BY <1>1, <1>7 DEF Base, CallsMade
<1>9. OnTheWay'
  <2>1. Rises(chan', Sendable, {})
    BY <1>1 DEF Rises
  <2>2. Rises(Commanded(queue'), Sendable, {})
    <3>1. Below(ToSet(Commanded(queue)) \ {}, ToSet(chan) \ {}, Sendable)
      BY DEF Base, OnTheWay, InQueue
    <3>2. Rises(Commanded(queue), Sendable, {}) /\ Rises(chan, Sendable, {})
      BY DEF Base, OnTheWay
    <3> QED
      BY <1>3, <1>4, <3>1, <3>2, RisesConcat
  <2>3. Below(InQueue', ToSet(chan)', Sendable)
    BY <1>6 DEF Below
  <2>4. Below((Waiting \cup Apart \cup ToSet(answers))', (InQueue \cup ToSet(chan))', Sendable)
    BY <1>5, <1>6 DEF Base, OnTheWay, Below
  <2>5. \A x \in ToSet(chan)' : x.kind \in SendKinds
    BY <1>6
  <2> QED
    BY ONLY <2>1, <2>2, <2>3, <2>4, <2>5, <1>1, <1>6, Base DEF Base, OnTheWay
<1>10. Deferred'
  BY <1>1, <1>6 DEF Base, Deferred
<1> QED
  BY <1>8, <1>9, <1>10 DEF Base

LEMMA InsertBase ==
    ASSUME Base, TypeOK', InsertDeferred
    PROVE  Base'
<1>1. /\ UNCHANGED <<chan, lookups, resolved, parked, ready, late, deferred, answers, calls, arg, pc>>
      /\ taking' = Tail(taking) /\ taking # <<>>
  BY DEF InsertDeferred, clockVars, callVars
<1>2. TypeOK /\ taking \in Seq(Deferrals) /\ queue \in Seq(Queued)
  BY DEF Base, TypeOK
<1>3. PICK d \in Deferrals : d = Head(taking)
  BY <1>2, Puts
<1>4. PICK at : PutAt(at, queue, queue', d)
  BY <1>2, <1>3, Puts
<1>5. ToSet(taking) = {d} \cup ToSet(taking')
  BY <1>1, <1>2, <1>3, InTail
<1>6. d.cmd \in Listed /\ Listed' \subseteq Listed
  BY <1>1, <1>5 DEF Listed
<1>7. d.cmd.kind \in LocalKinds
  BY <1>6 DEF Base, Deferred
<1>8. InQueue' = InQueue \cup {d.cmd} /\ Rises(Commanded(queue'), Sendable, {})
  BY <1>2, <1>4, <1>7, PutsInOrder DEF InQueue, Base, OnTheWay
<1>9. /\ ToSet(chan)' = ToSet(chan) /\ Waiting' = Waiting /\ Apart' = Apart
      /\ ToSet(answers)' = ToSet(answers)
  BY <1>1 DEF Waiting, Apart
<1>10. Given' \subseteq Given
  BY <1>6, <1>8, <1>9 DEF Given
<1>11. CallsMade'
  BY <1>1, <1>10 DEF Base, CallsMade
<1>12. OnTheWay'
  <2>1. d.cmd.kind \notin Sendable
    BY <1>7 DEF LocalKinds, Sendable
  <2>2. Below(InQueue', ToSet(chan)', Sendable)
    BY <1>8, <1>9, <2>1 DEF Below, Base, OnTheWay
  <2>3. Below((Waiting \cup Apart \cup ToSet(answers))', (InQueue \cup ToSet(chan))', Sendable)
    BY <1>8, <1>9, <2>1 DEF Base, OnTheWay, Below
  <2> QED
    BY ONLY <2>2, <2>3, <1>1, <1>8, <1>9, Base DEF Base, OnTheWay
<1>13. Deferred'
  BY <1>1, <1>6 DEF Base, Deferred
<1> QED
  BY <1>11, <1>12, <1>13 DEF Base

\* What the pass answers: the requests whose lookup answered and that need not
\* wait further, those whose definition came, then those taken.
Tells(taken, started, parks, back, told) ==
    /\ told = Kept(Commanded(taken), ToSet(Commanded(taken)) \ (started \cup parks))
    /\ ToSet(told) = ToSet(Commanded(taken)) \ (started \cup parks)
    /\ back \in Seq(Commands)
    /\ back = Kept(resolved, ToSet(resolved) \ parks) \o ready
    /\ ToSet(back) = (ToSet(resolved) \ parks) \cup ToSet(ready)
    /\ answers' = answers \o back \o told
    /\ answers \o back \in Seq(Commands)
    /\ ToSet(answers \o back) = ToSet(answers) \cup ToSet(back)
    /\ ToSet(answers)' = ToSet(answers) \cup ToSet(back) \cup ToSet(told)

LEMMA ToldOf ==
    ASSUME TypeOK, NEW budget, NEW m, NEW taken, NEW started, NEW parks,
           HandleStep(budget, m, taken, started, parks)
    PROVE  \E told, back \in Seq(Commands) : Tells(taken, started, parks, back, told)
<1>1. taken \in Seq(Queued)
  BY DEF HandleStep, TakenOf
<1>2. Commanded(taken) \in Seq(Commands)
  BY <1>1, CommandedOf
<1>3. PICK told \in Seq(Commands) :
        told = Kept(Commanded(taken), ToSet(Commanded(taken)) \ (started \cup parks))
  BY <1>2, KeptOf
<1>4. ToSet(told) = ToSet(Commanded(taken)) \ (started \cup parks)
  <2>1. ToSet(told) = ToSet(Commanded(taken)) \cap (ToSet(Commanded(taken)) \ (started \cup parks))
    BY <1>2, <1>3, InKept
  <2> QED
    BY <2>1
<1>5. answers \in Seq(Commands) /\ resolved \in Seq(Commands) /\ ready \in Seq(Commands)
  BY DEF TypeOK
<1>6. PICK kept \in Seq(Commands) : kept = Kept(resolved, ToSet(resolved) \ parks)
  BY <1>5, KeptOf
<1>7. ToSet(kept) = ToSet(resolved) \ parks
  <2>1. ToSet(kept) = ToSet(resolved) \cap (ToSet(resolved) \ parks)
    BY <1>5, <1>6, InKept
  <2> QED
    BY <2>1
<1>8. PICK back \in Seq(Commands) : back = kept \o ready
  <2>1. kept \in Seq(Commands) /\ ready \in Seq(Commands)
    BY <1>5
  <2>2. kept \o ready \in Seq(Commands)
    BY ONLY <2>1
  <2> QED
    BY ONLY <2>2
<1>9. ToSet(back) = (ToSet(resolved) \ parks) \cup ToSet(ready)
  BY <1>5, <1>7, <1>8, InConcat
<1>10. answers' = answers \o back \o told
  BY <1>3, <1>6, <1>8 DEF HandleStep
<1>11. answers \o back \in Seq(Commands) /\ ToSet(answers \o back) = ToSet(answers) \cup ToSet(back)
  BY <1>5, InConcat
<1>12. ToSet((answers \o back) \o told) = ToSet(answers \o back) \cup ToSet(told)
  <2>1. PICK s \in Seq(Commands) : s = answers \o back
    BY <1>11
  <2>2. ToSet(s \o told) = ToSet(s) \cup ToSet(told)
    BY InConcat
  <2> QED
    BY <2>1, <2>2
<1>13. ToSet(answers)' = ToSet(answers) \cup ToSet(back) \cup ToSet(told)
  BY ONLY <1>10, <1>11, <1>12
<1>14. Tells(taken, started, parks, back, told)
  BY ONLY <1>3, <1>4, <1>6, <1>8, <1>9, <1>10, <1>11, <1>13 DEF Tells
<1> QED
  BY <1>14

LEMMA HandleBase ==
    ASSUME Base, TypeOK', NEW budget, NEW m, NEW taken, NEW started, NEW parks,
           HandleStep(budget, m, taken, started, parks)
    PROVE  Base'
<1>1. /\ UNCHANGED <<chan, deferred, taking, calls, arg>>
      /\ resolved' = <<>> /\ ready' = <<>> /\ lookups' = lookups \cup started
      /\ parked' = parked \cup parks /\ late' = late \cup parks
      /\ parks \subseteq ToSet(Commanded(taken)) \cup ToSet(resolved)
      /\ started \subseteq {cmd \in ToSet(Commanded(taken)) : MayLookUp(cmd)}
  BY DEF HandleStep
<1>2. TypeOK /\ Rises(Commanded(queue), Sendable, {})
  BY DEF Base, OnTheWay
<1>a. PICK told \in Seq(Commands), back \in Seq(Commands) : Tells(taken, started, parks, back, told)
  BY <1>2, ToldOf
<1>3. /\ told = Kept(Commanded(taken), ToSet(Commanded(taken)) \ (started \cup parks))
      /\ ToSet(told) = ToSet(Commanded(taken)) \ (started \cup parks)
      /\ back \in Seq(Commands)
      /\ ToSet(back) = (ToSet(resolved) \ parks) \cup ToSet(ready)
      /\ answers' = answers \o back \o told
      /\ answers \o back \in Seq(Commands)
      /\ ToSet(answers \o back) = ToSet(answers) \cup ToSet(back)
      /\ ToSet(answers)' = ToSet(answers) \cup ToSet(back) \cup ToSet(told)
  BY <1>a DEF Tells
<1>4. PICK cmds \in Seq(Commands) : cmds = Commanded(taken)
  BY <1>2, HandlesInOrder
<1>5. /\ ToSet(cmds) \subseteq InQueue
      /\ InQueue' \subseteq InQueue
      /\ Rises(cmds, Sendable, {})
      /\ Rises(Commanded(queue'), Sendable, {})
      /\ Below(ToSet(cmds), InQueue', Sendable)
  BY <1>2, <1>4, HandlesInOrder
<1>6. Waiting' = lookups \cup started /\ Apart' = parked \cup parks
  BY <1>1, NoneIn DEF Waiting, Apart
<1>7. started \subseteq ToSet(cmds) /\ \A x \in started : x.kind = "lookup"
  BY <1>1, <1>4 DEF MayLookUp
<1>8. /\ Waiting' \subseteq Waiting \cup ToSet(cmds)
      /\ Apart' \subseteq Apart \cup Waiting \cup ToSet(cmds)
      /\ ToSet(answers)' \subseteq Waiting \cup Apart \cup ToSet(answers) \cup ToSet(cmds)
      /\ ToSet(chan)' = ToSet(chan) /\ Listed' = Listed
  BY <1>1, <1>3, <1>4, <1>6, <1>7 DEF Waiting, Apart, Listed
<1>9. Given' \subseteq Given
  BY <1>5, <1>8 DEF Given
<1>10. \A c \in Callers : pc'[c] = pc[c] \/ pc'[c] = "free"
  BY DEF HandleStep
<1>11. CallsMade'
  <2>1. calls' = calls /\ arg' = arg
    BY <1>1
  <2> QED
    BY ONLY <2>1, <1>9, <1>10, Base DEF Base, CallsMade
<1>12. OnTheWay'
  <2>1. Below(InQueue', ToSet(chan)', Sendable)
    BY <1>5, <1>8, BelowLess DEF Base, OnTheWay
  <2>2. Below((Waiting \cup Apart \cup ToSet(answers))', (InQueue \cup ToSet(chan))', Sendable)
    <3>1. Below(Waiting \cup Apart \cup ToSet(answers), InQueue \cup ToSet(chan), Sendable) /\ Below(InQueue, ToSet(chan), Sendable)
      BY DEF Base, OnTheWay
    <3> QED
      BY ONLY <3>1, <1>5, <1>8 DEF Below
  <2>3. \A x \in Waiting' : x.kind = "lookup"
    BY <1>6, <1>7 DEF Base, OnTheWay, Waiting
  <2>4. Rises(answers', Further, late')
    <3>1. Rises(answers, Further, late') /\ answers \in Seq(Commands)
      BY <1>1, <1>2, RisesMore DEF Base, OnTheWay, TypeOK
    <3>2. \A x \in ToSet(back) : x \in late' \/ x.kind \notin Further
      BY <1>1, <1>3 DEF Base, OnTheWay, Waiting, Apart, Further
    <3>3. Rises(back, Further, late')
      <4>1. \A i \in DOMAIN back : back[i] \in ToSet(back)
        BY <1>3, InSet
      <4> QED
        BY ONLY <3>2, <4>1 DEF Rises
    <3>4. Rises(answers \o back, Further, late')
      <4>1. Below(ToSet(answers) \ late', ToSet(back) \ late', Further)
        BY <3>2 DEF Below
      <4> QED
        BY <3>1, <3>3, <4>1, <1>3, RisesConcat
    <3>5. Rises(told, Further, late')
      <4>1. Rises(told, Sendable, {})
        BY <1>3, <1>4, <1>5, RisesKept
      <4> QED
        BY <4>1, RisesMore DEF Further, Sendable
    <3>6. Below(ToSet(answers \o back) \ late', ToSet(told) \ late', Further)
      <4>1. Below(Waiting \cup Apart \cup ToSet(answers), InQueue \cup ToSet(chan), Sendable)
        BY DEF Base, OnTheWay
      <4>2. ToSet(answers \o back) \ late' \subseteq Waiting \cup Apart \cup ToSet(answers)
        BY <1>3 DEF Waiting, Apart
      <4>3. ToSet(told) \ late' \subseteq InQueue \cup ToSet(chan)
        BY <1>3, <1>4, <1>5
      <4>4. Further \subseteq Sendable
        BY DEF Further, Sendable
      <4> QED
        BY <4>1, <4>2, <4>3, <4>4, BelowLess
    <3>7. Rises((answers \o back) \o told, Further, late')
      BY <3>4, <3>5, <3>6, <1>3, RisesConcat
    <3> QED
      BY ONLY <3>7, <1>3
  <2>6. Apart' \subseteq late'
    BY <1>1, <1>6 DEF Base, OnTheWay, Apart
  <2>5. chan' = chan
    BY <1>1
  <2> QED
    BY ONLY <2>1, <2>2, <2>3, <2>4, <2>5, <2>6, <1>5, <1>8, Base DEF Base, OnTheWay
<1>13. Deferred'
  BY ONLY <1>1, <1>8, <1>10, Base DEF Base, Deferred
<1> QED
  BY <1>11, <1>12, <1>13 DEF Base

LEMMA BaseStarts ==
    ASSUME CommandQueueAssumption, Init
    PROVE  Base
<1>1. TypeOK
  BY TypesStart
<1>2. /\ chan = <<>> /\ queue = <<>> /\ resolved = <<>> /\ answers = <<>> /\ deferred = <<>> /\ taking = <<>>
      /\ lookups = {} /\ parked = {} /\ ready = <<>>
      /\ \A c \in Callers : pc[c] = "free" /\ calls[c] = 0 /\ arg[c].by = c /\ arg[c].n = 0
  BY DEF Init, NoCall
<1>3. Commanded(queue) = <<>>
  BY <1>2 DEF Commanded
<1>4. /\ ToSet(chan) = {} /\ InQueue = {} /\ Waiting = {} /\ Apart = {} /\ ToSet(answers) = {} /\ Listed = {}
      /\ Given = {}
  BY <1>2, <1>3, NoneIn DEF InQueue, Waiting, Apart, Listed, Given
<1>5. CallsMade
  BY <1>2, <1>4 DEF CallsMade
<1>6. OnTheWay
  BY <1>2, <1>3, <1>4 DEF OnTheWay, Rises, Below
<1>7. Deferred
  BY <1>2, <1>4 DEF Deferred
<1> QED
  BY <1>1, <1>5, <1>6, <1>7 DEF Base

LEMMA BaseKept ==
    ASSUME CommandQueueAssumption, Base, [Next]_vars
    PROVE  Base'
<1>0. TypeOK' /\ TypeOK
  BY TypesKept DEF Base
<1>a. pc \in [Callers -> {"free", "count", "after", "push", "turn", "target", "wait"}]
  BY <1>0 DEF TypeOK
<1>1. ASSUME NEW c \in Callers, Send(c)
      PROVE  Base'
  BY <1>0, <1>1, SendBase
<1>2. ASSUME NEW c \in Callers, Local(c)
      PROVE  Base'
  BY <1>0, <1>2, LocalBase
<1>3. ASSUME NEW c \in Callers, CallerStep(c)
      PROVE  Base'
  <2>1. CASE NoteSent(c)
    <3>1. BaseStep
      BY <2>1, <1>a DEF NoteSent, BaseStep, engineVars, Waiting, Apart, Listed
    <3> QED
      BY <3>1, <1>0, BaseByStep
  <2>2. CASE DeferAfter(c)
    <3>1. BaseStep
      BY <2>2, <1>a DEF DeferAfter, BaseStep, engineVars, clockVars, Waiting, Apart, Listed
    <3> QED
      BY <3>1, <1>0, BaseByStep
  <2>3. CASE DeferPush(c)
    BY <2>3, <1>0, PushBase
  <2>4. CASE WaitTarget(c)
    <3>1. BaseStep
      BY <2>4, <1>a DEF WaitTarget, BaseStep, engineVars, clockVars, Waiting, Apart, Listed
    <3> QED
      BY <3>1, <1>0, BaseByStep
  <2>5. CASE WaitDone(c)
    BY <2>5, <1>0, AnswerBase DEF WaitDone
  <2>6. CASE WaitExpires(c)
    BY <2>6, <1>0, AnswerBase DEF WaitExpires
  <2>7. CASE TurnExpires(c)
    <3>1. BaseStep
      BY <2>7, <1>a DEF TurnExpires, BaseStep, engineVars, clockVars, Waiting, Apart, Listed
    <3> QED
      BY <3>1, <1>0, BaseByStep
  <2> QED
    BY <1>3, <2>1, <2>2, <2>3, <2>4, <2>5, <2>6, <2>7 DEF CallerStep
<1>4. CASE DrainChannel
  BY <1>0, <1>4, DrainBase
<1>5. CASE TakeDeferred
  <2>1. Listed' \subseteq Listed
    <3>1. (taking' = deferred /\ deferred' = <<>>) \/ (taking' = taking /\ deferred' = deferred)
      BY <1>5, Zenon DEF TakeDeferred
    <3>2. ToSet(deferred)' \cup ToSet(taking)' \subseteq ToSet(deferred) \cup ToSet(taking)
      BY <3>1, NoneIn
    <3> QED
      BY <3>2 DEF Listed
  <2>2. BaseStep
    BY <1>5, <2>1 DEF TakeDeferred, BaseStep, callVars, Waiting, Apart
  <2> QED
    BY <2>2, <1>0, BaseByStep
<1>6. CASE InsertDeferred
  BY <1>0, <1>6, InsertBase
<1>7. ASSUME NEW budget, Handle(budget)
      PROVE  Base'
  BY <1>0, <1>7, Handles, HandleBase
<1>8. CASE LookupAnswered
  <2>1. PICK cmd \in lookups : lookups' = lookups \ {cmd} /\ resolved' = Append(resolved, cmd)
    BY <1>8 DEF LookupAnswered
  <2>2. cmd \in Commands /\ resolved \in Seq(Commands)
    BY <1>0 DEF TypeOK
  <2>3. ToSet(resolved)' = ToSet(resolved) \cup {cmd}
    BY <2>1, <2>2, InAppend
  <2>4. Waiting' \subseteq Waiting
    BY <2>1, <2>3 DEF Waiting
  <2>5. BaseStep
    BY <1>8, <2>4 DEF LookupAnswered, BaseStep, callVars, clockVars, Apart, Listed
  <2> QED
    BY <2>5, <1>0, BaseByStep
<1>b. CASE DefinitionCame
  <2>1. PICK cmd \in parked : parked' = parked \ {cmd} /\ ready' = Append(ready, cmd)
    BY <1>b DEF DefinitionCame
  <2>2. cmd \in Commands /\ ready \in Seq(Commands)
    BY <1>0, <2>1 DEF TypeOK
  <2>3. ToSet(ready)' = ToSet(ready) \cup {cmd}
    BY <2>1, <2>2, InAppend
  <2>4. Apart' \subseteq Apart
    BY <2>1, <2>3 DEF Apart
  <2>5. BaseStep
    BY <1>b, <2>4 DEF DefinitionCame, BaseStep, callVars, clockVars, Waiting, Listed
  <2> QED
    BY <2>5, <1>0, BaseByStep
<1>9. CASE HoldLimit
  <2>1. BaseStep
    BY <1>9 DEF HoldLimit, BaseStep, callVars, clockVars, Waiting, Apart, Listed
  <2> QED
    BY <2>1, <1>0, BaseByStep
<1>10. CASE StopRunning
  <2>1. BaseStep
    BY <1>10 DEF StopRunning, BaseStep, callVars, Waiting, Apart, Listed
  <2> QED
    BY <2>1, <1>0, BaseByStep
<1>11. CASE EndRun
  <2>1. Listed' \subseteq Listed
    BY <1>11, NoneIn DEF EndRun, Listed
  <2>2. BaseStep
    BY <1>11, <1>a, <2>1 DEF EndRun, BaseStep, Waiting, Apart
  <2> QED
    BY <2>2, <1>0, BaseByStep
<1>12. CASE UNCHANGED vars
  <2>1. BaseStep
    BY <1>12 DEF vars, BaseStep, callVars, clockVars, engineVars, Waiting, Apart, Listed
  <2> QED
    BY <2>1, <1>0, BaseByStep
<1> QED
  BY ONLY [Next]_vars, <1>1, <1>2, <1>3, <1>4, <1>5, <1>6, <1>7, <1>8, <1>9, <1>10, <1>11, <1>12, <1>b
     DEF Next, EngineStep

-----------------------------------------------------------------------------
(***************************************************************************)
(* One request at a time, with the requests paced.                         *)
(***************************************************************************)
LEMMA HandlesOne ==
    ASSUME Base, paced, NEW budget, NEW m, NEW taken, NEW started, NEW parks,
           HandleStep(budget, m, taken, started, parks),
           \A cmd \in ToSet(Commanded(taken)) : cmd.kind # "shutdown"
    PROVE  /\ lookups # {} /\ ~holdOver => \A x \in ToSet(Commanded(taken)) : x.kind \notin Paced
           /\ \A x, y \in ToSet(Commanded(taken)) :
                x.kind = "lookup" /\ y.kind \in Paced => y = x \/ (y.by = x.by => y.n < x.n)
           /\ \A x, y \in ToSet(Commanded(taken)) : x.kind = "lookup" /\ y.kind = "lookup" => x = y
<1>1. queue \in Seq(Queued) /\ DOMAIN queue = 1 .. Len(queue) /\ Len(queue) \in Nat
  BY DEF Base, TypeOK
<1>2. TakenOf(m, taken) /\ TakesFirst(m, budget)
  BY DEF HandleStep
<1>3. /\ m \in 0 .. Len(queue)
      /\ taken \in Seq(Queued) /\ m <= Len(taken)
      /\ \A k \in 1 .. m : taken[k] = queue[k]
      /\ \A k \in 1 .. Len(taken) : k > m => IsAside(taken[k].cmd)
  BY <1>2 DEF TakenOf
<1>4. \A i \in 1 .. m : Admitted(i, budget)
  <2>1. ASSUME NEW i \in 1 .. Len(queue), queue[i].cmd.kind = "shutdown"
        PROVE  FALSE
    <3>1. m = Len(queue)
      BY <2>1, <1>1, <1>2 DEF TakesFirst
    <3>2. i \in 1 .. Len(taken) /\ taken[i] = queue[i]
      BY <3>1, <1>1, <1>3
    <3> QED
      BY <3>2, <2>1, <1>3, CommandedOf
  <2> QED
    BY <2>1, <1>1, <1>2 DEF TakesFirst
<1>5. ASSUME NEW x \in ToSet(Commanded(taken)), x.kind \in Paced
      PROVE  \E i \in 1 .. m : queue[i].cmd = x
  <2>1. PICK k \in 1 .. Len(taken) : taken[k].cmd = x
    BY <1>3, CommandedOf
  <2>2. ~(k > m)
    BY <2>1, <1>3, <1>5 DEF Paced, IsAside
  <2>3. k \in 1 .. m /\ taken[k] = queue[k]
    BY <2>2, <1>3, <1>1
  <2> QED
    BY ONLY <2>1, <2>3
<1>6. ASSUME NEW i \in 1 .. m, queue[i].cmd.kind \in Paced
      PROVE  ~Held(i)
  <2>1. IsRequest(queue[i].cmd) /\ ~PassesLookupHold(queue[i].cmd)
    BY <1>6 DEF Paced, IsRequest, PassesLookupHold, IsAside
  <2> QED
    BY <2>1, <1>4 DEF Admitted
<1>7. ASSUME NEW i \in 1 .. m, NEW j \in 1 .. m, i < j, queue[i].cmd.kind = "lookup"
      PROVE  queue[j].cmd.kind \notin Paced
  <2>1. i \in 1 .. j - 1 /\ MayLookUp(queue[i].cmd)
    BY <1>7, <1>3 DEF MayLookUp
  <2>2. Held(j)
    BY <2>1 DEF Held
  <2> QED
    BY <2>2, <1>6
<1>8. ASSUME lookups # {}, ~holdOver, NEW x \in ToSet(Commanded(taken)), x.kind \in Paced
      PROVE  FALSE
  <2>1. PICK i \in 1 .. m : queue[i].cmd = x
    BY <1>5, <1>8
  <2>2. Held(i)
    BY <1>8 DEF Held
  <2> QED
    BY <2>1, <2>2, <1>6, <1>8
<1>9. ASSUME NEW x \in ToSet(Commanded(taken)), NEW y \in ToSet(Commanded(taken)),
             x.kind = "lookup", y.kind \in Paced
      PROVE  /\ y = x \/ (y.by = x.by => y.n < x.n)
             /\ y.kind = "lookup" => x = y
  <2>a. x.kind \in Paced
    BY <1>9 DEF Paced
  <2>1. PICK i \in 1 .. m : queue[i].cmd = x
    BY <2>a, <1>5
  <2>2. PICK j \in 1 .. m : queue[j].cmd = y
    BY <1>9, <1>5
  <2>3. ~(i < j)
    BY <1>7, <1>9, <2>1, <2>2
  <2>4. CASE i = j
    BY <2>4, <2>1, <2>2
  <2>5. CASE j < i
    <3>1. y.kind # "lookup"
      BY <1>7, <2>1, <2>2, <2>5, <2>a
    <3>2. PICK s \in Seq(Commands) : s = Commanded(queue) /\ DOMAIN s = 1 .. Len(queue)
      BY <1>1, CommandedOf
    <3>3. i \in DOMAIN s /\ j \in DOMAIN s
      BY <3>2, <1>3, <1>1
    <3>4. s[i] = x /\ s[j] = y
      BY <3>2, <3>3, <2>1, <2>2, <1>1, CommandedOf
    <3>5. Rises(s, Sendable, {}) /\ x.kind \in Sendable /\ y.kind \in Sendable
      BY <3>2, <1>9 DEF Base, OnTheWay, Sendable, Paced
    <3>6. y.by = x.by => y.n < x.n
      BY ONLY <3>3, <3>4, <3>5, <2>5 DEF Rises
    <3> QED
      BY <3>1, <3>6
  <2> QED
    BY <2>3, <2>4, <2>5
<1> QED
  <2>1. lookups # {} /\ ~holdOver => \A x \in ToSet(Commanded(taken)) : x.kind \notin Paced
    BY <1>8
  <2>2. \A x, y \in ToSet(Commanded(taken)) : x.kind = "lookup" /\ y.kind \in Paced =>
            /\ y = x \/ (y.by = x.by => y.n < x.n)
            /\ y.kind = "lookup" => x = y
    BY <1>9
  <2>3. "lookup" \in Paced
    BY DEF Paced
  <2> QED
    BY ONLY <2>1, <2>2, <2>3

\* Steps that leave the lookups and the requests they answered alone.
PacedStep ==
    /\ UNCHANGED <<paced, lookups, resolved, holdOver>>
    /\ late \subseteq late'
    /\ Passing' => Passing
    /\ \/ answers' = answers
       \/ \E x \in Commands : x.kind \notin Paced /\ answers' = Append(answers, x)

LEMMA PacedByStep ==
    ASSUME Base, OneAtATime, PacedStep
    PROVE  OneAtATime'
<1> SUFFICES ASSUME paced PROVE OneAtATime'
  BY DEF PacedStep, OneAtATime
<1>1. answers \in Seq(Commands) /\ Rises(answers, Paced, late)
  BY DEF Base, TypeOK, OneAtATime
<1>2. /\ Rises(answers', Paced, late')
      /\ \A x \in ToSet(answers)' : x.kind \in Paced => x \in ToSet(answers)
  <2>1. CASE answers' = answers
    BY <2>1, <1>1, RisesMore DEF PacedStep
  <2>2. CASE answers' # answers
    <3>1. PICK x \in Commands : x.kind \notin Paced /\ answers' = Append(answers, x)
      BY <2>2 DEF PacedStep
    <3>2. Rises(answers', Paced, late)
      <4>1. Below(ToSet(answers) \ late, {x}, Paced)
        BY <3>1 DEF Below
      <4> QED
        BY <3>1, <4>1, <1>1, RisesAppend
    <3>3. ToSet(answers)' = ToSet(answers) \cup {x}
      BY <1>1, <3>1, InAppend
    <3> QED
      BY <3>1, <3>2, <3>3, RisesMore DEF PacedStep
  <2> QED
    BY <2>1, <2>2
<1>3. ASSUME Passing'
      PROVE  /\ Below((ToSet(answers) \ late)', (Waiting \ late)', Paced)
             /\ \A x, y \in (lookups \ late)' : x = y
             /\ \A i, j \in DOMAIN resolved' : resolved'[i] \notin late' /\ resolved'[j] \notin late' => i = j
             /\ (\E x \in ToSet(resolved)' : x \notin late') => lookups' \subseteq late'
             /\ holdOver' => lookups' \subseteq late'
  <2>1. /\ Below(ToSet(answers) \ late, Waiting \ late, Paced)
        /\ \A x, y \in lookups \ late : x = y
        /\ \A i, j \in DOMAIN resolved : resolved[i] \notin late /\ resolved[j] \notin late => i = j
        /\ (\E x \in ToSet(resolved) : x \notin late) => lookups \subseteq late
        /\ holdOver => lookups \subseteq late
    BY <1>3 DEF OneAtATime, PacedStep
  <2>2. /\ lookups' = lookups /\ resolved' = resolved /\ holdOver' = holdOver /\ late \subseteq late'
        /\ Waiting' = Waiting
    BY DEF PacedStep, Waiting
  <2>3. Below((ToSet(answers) \ late)', (Waiting \ late)', Paced)
    BY <2>1, <2>2, <1>2 DEF Below
  <2>4. /\ \A x, y \in (lookups \ late)' : x = y
        /\ \A i, j \in DOMAIN resolved' : resolved'[i] \notin late' /\ resolved'[j] \notin late' => i = j
    BY ONLY <2>1, <2>2
  <2>5. /\ (\E x \in ToSet(resolved)' : x \notin late') => lookups' \subseteq late'
        /\ holdOver' => lookups' \subseteq late'
    BY ONLY <2>1, <2>2
  <2> QED
    BY <2>3, <2>4, <2>5
<1> QED
  BY <1>2, <1>3 DEF OneAtATime

LEMMA HoldLimitPaced ==
    ASSUME Base, OneAtATime, HoldLimit
    PROVE  OneAtATime'
<1>1. /\ UNCHANGED <<paced, lookups, resolved, answers, eng>>
      /\ late' = late \cup lookups
  BY DEF HoldLimit, clockVars
<1> SUFFICES ASSUME paced PROVE OneAtATime'
  BY <1>1 DEF OneAtATime
<1>2. Rises(answers', Paced, late')
  BY <1>1, RisesMore DEF OneAtATime
<1>3. ASSUME Passing'
      PROVE  /\ Below((ToSet(answers) \ late)', (Waiting \ late)', Paced)
             /\ \A i, j \in DOMAIN resolved' : resolved'[i] \notin late' /\ resolved'[j] \notin late' => i = j
             /\ lookups' \subseteq late'
  <2>1. /\ Below(ToSet(answers) \ late, Waiting \ late, Paced)
        /\ \A i, j \in DOMAIN resolved : resolved[i] \notin late /\ resolved[j] \notin late => i = j
    BY <1>1, <1>3 DEF OneAtATime, Passing
  <2>2. Waiting' = Waiting /\ ToSet(answers)' = ToSet(answers)
    BY <1>1 DEF Waiting
  <2>3. Below((ToSet(answers) \ late)', (Waiting \ late)', Paced)
    BY <2>1, <2>2, <1>1 DEF Below
  <2> QED
    BY <2>1, <2>3, <1>1
<1>4. Passing' => \A x, y \in (lookups \ late)' : x = y
  BY <1>3
<1> QED
  BY <1>2, <1>3, <1>4 DEF OneAtATime

LEMMA LookupPaced ==
    ASSUME Base, OneAtATime, LookupAnswered
    PROVE  OneAtATime'
<1>1. /\ UNCHANGED <<paced, holdOver, answers, eng, late>> /\ eng = "drain"
  BY DEF LookupAnswered, clockVars
<1>2. PICK cmd \in lookups : lookups' = lookups \ {cmd} /\ resolved' = Append(resolved, cmd)
  BY DEF LookupAnswered
<1> SUFFICES ASSUME paced PROVE OneAtATime'
  BY <1>1 DEF OneAtATime
<1>3. cmd \in Commands /\ resolved \in Seq(Commands)
  BY DEF Base, TypeOK
<1>4. ToSet(resolved)' = ToSet(resolved) \cup {cmd}
  BY <1>2, <1>3, InAppend
<1>5. Waiting' = Waiting
  BY <1>2, <1>4 DEF Waiting
<1>6. /\ Rises(answers, Paced, late)
      /\ Below(ToSet(answers) \ late, Waiting \ late, Paced)
      /\ \A x, y \in lookups \ late : x = y
      /\ \A i, j \in DOMAIN resolved : resolved[i] \notin late /\ resolved[j] \notin late => i = j
      /\ (\E x \in ToSet(resolved) : x \notin late) => lookups \subseteq late
      /\ holdOver => lookups \subseteq late
  BY <1>1 DEF OneAtATime, Passing
<1>7. \A x, y \in (lookups \ late)' : x = y
  BY <1>1, <1>2, <1>6
<1>8. holdOver' => lookups' \subseteq late'
  BY <1>1, <1>2, <1>6
<1>9. (\E x \in ToSet(resolved)' : x \notin late') => lookups' \subseteq late'
  BY <1>1, <1>2, <1>4, <1>6
<1>10. ASSUME NEW i \in DOMAIN resolved', NEW j \in DOMAIN resolved', resolved'[i] \notin late, resolved'[j] \notin late
       PROVE  i = j
  <2>1. /\ DOMAIN resolved' = 1 .. Len(resolved) + 1 /\ DOMAIN resolved = 1 .. Len(resolved)
        /\ \A k \in 1 .. Len(resolved) : resolved'[k] = resolved[k] /\ resolved[k] \in ToSet(resolved)
        /\ resolved'[Len(resolved) + 1] = cmd /\ Len(resolved) \in Nat
    <3>1. \A k \in 1 .. Len(resolved) : resolved[k] \in ToSet(resolved)
      BY <1>3, InSet
    <3> QED
      BY <1>2, <1>3, <3>1
  <2>2. CASE cmd \in late
    <3>1. i \in DOMAIN resolved /\ j \in DOMAIN resolved
      BY <2>1, <2>2, <1>10
    <3> QED
      BY <3>1, <2>1, <1>6, <1>10
  <2>3. CASE cmd \notin late
    <3>1. \A x \in ToSet(resolved) : x \in late
      BY <2>3, <1>6
    <3>2. i = Len(resolved) + 1 /\ j = Len(resolved) + 1
      BY <3>1, <2>1, <1>10
    <3> QED
      BY <3>2
  <2> QED
    BY <2>2, <2>3
<1> QED
  BY <1>1, <1>5, <1>6, <1>7, <1>8, <1>9, <1>10 DEF OneAtATime

LEMMA HandlePaced ==
    ASSUME Base, OneAtATime, NEW budget, NEW m, NEW taken, NEW started, NEW parks,
           HandleStep(budget, m, taken, started, parks)
    PROVE  OneAtATime'
<1>1. /\ UNCHANGED <<paced>> /\ eng = "handle" /\ late' = late \cup parks
      /\ resolved' = <<>> /\ lookups' = lookups \cup started
      /\ started \subseteq {cmd \in ToSet(Commanded(taken)) : MayLookUp(cmd)}
  BY DEF HandleStep
<1> SUFFICES ASSUME paced PROVE OneAtATime'
  BY <1>1 DEF OneAtATime
<1>2. TypeOK /\ Rises(Commanded(queue), Sendable, {})
  BY DEF Base, OnTheWay
<1>a. PICK told \in Seq(Commands), back \in Seq(Commands) : Tells(taken, started, parks, back, told)
  BY <1>2, ToldOf
<1>3. /\ told = Kept(Commanded(taken), ToSet(Commanded(taken)) \ (started \cup parks))
      /\ ToSet(told) = ToSet(Commanded(taken)) \ (started \cup parks)
      /\ back \in Seq(Commands)
      /\ ToSet(back) = (ToSet(resolved) \ parks) \cup ToSet(ready)
      /\ answers' = answers \o back \o told
      /\ answers \o back \in Seq(Commands)
      /\ ToSet(answers \o back) = ToSet(answers) \cup ToSet(back)
      /\ ToSet(answers)' = ToSet(answers) \cup ToSet(back) \cup ToSet(told)
  BY <1>a DEF Tells
<1>4. PICK cmds \in Seq(Commands) : cmds = Commanded(taken)
  BY <1>2, HandlesInOrder
<1>5. ToSet(cmds) \subseteq InQueue /\ Rises(cmds, Sendable, {})
  BY <1>2, <1>4, HandlesInOrder
<1>6. /\ Rises(answers, Paced, late)
      /\ Below(ToSet(answers) \ late, Waiting \ late, Paced)
      /\ \A x, y \in lookups \ late : x = y
      /\ \A i, j \in DOMAIN resolved : resolved[i] \notin late /\ resolved[j] \notin late => i = j
      /\ (\E x \in ToSet(resolved) : x \notin late) => lookups \subseteq late
      /\ holdOver => lookups \subseteq late
  BY <1>1 DEF OneAtATime, Passing
<1>7. Below(Waiting \cup Apart \cup ToSet(answers), InQueue, Paced)
  BY BelowLess DEF Base, OnTheWay, Paced, Sendable
<1>b. ToSet(ready) \subseteq late
  BY DEF Base, OnTheWay, Apart
<1>8. Rises(answers', Paced, late')
  <2>1. answers \in Seq(Commands) /\ resolved \in Seq(Commands) /\ ready \in Seq(Commands)
    BY <1>2 DEF TypeOK
  <2>2. Rises(back, Paced, late')
    <3>1. Rises(resolved, Paced, late)
      BY <1>6, <2>1 DEF Rises
    <3>2. PICK kept \in Seq(Commands) : kept = Kept(resolved, ToSet(resolved) \ parks)
      BY <2>1, KeptOf
    <3>3. Rises(kept, Paced, late)
      BY <2>1, <3>1, <3>2, RisesKept
    <3>4. Rises(ready, Paced, late)
      <4>1. \A i \in DOMAIN ready : ready[i] \in late
        BY <2>1, <1>b, InSet
      <4> QED
        BY ONLY <4>1 DEF Rises
    <3>5. Below(ToSet(kept) \ late, ToSet(ready) \ late, Paced)
      BY <1>b DEF Below
    <3>6. Rises(kept \o ready, Paced, late)
      BY <2>1, <3>3, <3>4, <3>5, RisesConcat
    <3>7. back = kept \o ready
      BY <1>a, <3>2 DEF Tells
    <3> QED
      BY <3>6, <3>7, <1>1, RisesMore
  <2>3. Below(ToSet(answers) \ late', ToSet(back) \ late', Paced)
    <3>1. ToSet(answers) \ late' \subseteq ToSet(answers) \ late /\ ToSet(back) \ late' \subseteq Waiting \ late
      BY <1>1, <1>3, <1>b DEF Waiting
    <3> QED
      BY <3>1, <1>6, BelowLess
  <2>4. Rises(answers \o back, Paced, late')
    <3>1. Rises(answers, Paced, late')
      BY <1>1, <1>6, RisesMore
    <3> QED
      BY <2>1, <2>2, <2>3, <3>1, <1>3, RisesConcat
  <2>5. Rises(told, Paced, late')
    <3>1. Rises(told, Sendable, {})
      BY <1>3, <1>4, <1>5, RisesKept
    <3> QED
      BY <3>1, RisesMore DEF Paced, Sendable
  <2>6. Below(ToSet(answers \o back) \ late', ToSet(told) \ late', Paced)
    <3>1. ToSet(answers \o back) \ late' \subseteq Waiting \cup Apart \cup ToSet(answers)
      BY <1>3 DEF Waiting, Apart
    <3>2. ToSet(told) \ late' \subseteq InQueue
      BY <1>3, <1>4, <1>5
    <3> QED
      BY <3>1, <3>2, <1>7, BelowLess
  <2>7. Rises((answers \o back) \o told, Paced, late')
    BY <2>4, <2>5, <2>6, <1>3, RisesConcat
  <2> QED
    BY ONLY <2>7, <1>3
<1>9. ASSUME Passing'
      PROVE  /\ Below((ToSet(answers) \ late)', (Waiting \ late)', Paced)
             /\ \A x, y \in (lookups \ late)' : x = y
             /\ holdOver' => lookups' \subseteq late'
  <2>1. \A cmd \in ToSet(Commanded(taken)) : cmd.kind # "shutdown"
    BY <1>9 DEF HandleStep, Passing
  <2>2. /\ lookups # {} /\ ~holdOver => \A x \in ToSet(cmds) : x.kind \notin Paced
        /\ \A x, y \in ToSet(cmds) :
                x.kind = "lookup" /\ y.kind \in Paced => y = x \/ (y.by = x.by => y.n < x.n)
        /\ \A x, y \in ToSet(cmds) : x.kind = "lookup" /\ y.kind = "lookup" => x = y
    BY <2>1, <1>4, HandlesOne
  <2>3. started \subseteq ToSet(cmds) /\ \A x \in started : x.kind = "lookup" /\ x.kind \in Paced
    BY <1>1, <1>4 DEF MayLookUp, Paced
  <2>4. Waiting' = lookups \cup started
    BY <1>1, NoneIn DEF Waiting
  <2>5. late \subseteq late' /\ lookups' = lookups \cup started
    BY <1>1
  <2>6. holdOver' => started = {} /\ holdOver
    <3>1. holdOver' = (holdOver /\ {cmd \in ToSet(Commanded(taken)) : MayLookUp(cmd)} = {} /\ lookups # {})
      BY ONLY HandleStep(budget, m, taken, started, parks), Zenon DEF HandleStep
    <3> QED
      BY ONLY <3>1, <1>1, Zenon
  <2>7. CASE lookups # {} /\ ~holdOver
    <3>1. started = {} /\ \A x \in ToSet(told) : x.kind \notin Paced
      BY <2>2, <2>3, <2>7, <1>3, <1>4
    <3>2. Below((ToSet(answers) \ late)', (Waiting \ late)', Paced)
      <4> SUFFICES ASSUME NEW y \in ToSet(answers)', NEW x \in lookups, y \notin late, x \notin late,
                          y.by = x.by, y.kind \in Paced, x.kind \in Paced
                   PROVE  y.n < x.n
        BY <2>4, <2>5, <3>1 DEF Below
      <4>1. y \in ToSet(answers)
        BY <1>3, <1>6, <3>1, <1>b
      <4>2. x \in Waiting
        BY DEF Waiting
      <4> QED
        BY <4>1, <4>2, <1>6 DEF Below
    <3> QED
      BY <3>1, <3>2, <2>5, <2>6, <2>7, <1>6
  <2>8. CASE lookups = {} \/ holdOver
    <3>1. lookups \subseteq late
      BY <2>8, <1>6
    <3>2. Below((ToSet(answers) \ late)', (Waiting \ late)', Paced)
      <4> SUFFICES ASSUME NEW y \in ToSet(answers)', NEW x \in started, y \notin late, x \notin late,
                          y.by = x.by, y.kind \in Paced, x.kind \in Paced
                   PROVE  y.n < x.n
        BY <2>4, <2>5, <3>1 DEF Below
      <4>1. CASE y \in ToSet(told)
        <5>1. y # x /\ y \in ToSet(cmds) /\ x \in ToSet(cmds) /\ x.kind = "lookup"
          BY <4>1, <1>3, <1>4, <2>3
        <5> QED
          BY <5>1, <2>2
      <4>2. CASE y \in Waiting \cup ToSet(answers)
        <5>1. x \in InQueue
          BY <2>3, <1>5
        <5> QED
          BY <4>2, <5>1, <1>7 DEF Below
      <4> QED
        BY <4>1, <4>2, <1>3, <1>b DEF Waiting
    <3>3. \A x, y \in (lookups \ late)' : x = y
      BY <3>1, <2>2, <2>3, <2>5
    <3> QED
      BY <3>1, <3>2, <3>3, <2>5, <2>6
  <2> QED
    BY <2>7, <2>8
<1>10. \A x \in ToSet(resolved)' : x \in late'
  BY <1>1, NoneIn
<1>11. DOMAIN resolved' = {}
  BY <1>1
<1> QED
  BY <1>8, <1>9, <1>10, <1>11 DEF OneAtATime

LEMMA PacedKept ==
    ASSUME CommandQueueAssumption, Base, OneAtATime, [Next]_vars
    PROVE  OneAtATime'
<1> USE DEF clockVars, engineVars, callVars
<1>0. TypeOK
  BY DEF Base
<1>1. ASSUME NEW c \in Callers, Send(c)
      PROVE  OneAtATime'
  <2>1. PacedStep
    BY <1>1 DEF Send, PacedStep, Passing
  <2> QED
    BY <2>1, PacedByStep
<1>2. ASSUME NEW c \in Callers, Local(c)
      PROVE  OneAtATime'
  <2>1. PacedStep
    BY <1>2 DEF Local, PacedStep, Passing
  <2> QED
    BY <2>1, PacedByStep
<1>3. ASSUME NEW c \in Callers, CallerStep(c)
      PROVE  OneAtATime'
  <2>a. pc[c] = "wait" => arg[c] \in Commands /\ arg[c].kind \notin Paced
    BY GivenTyped DEF Base, CallsMade, Paced
  <2>1. CASE NoteSent(c)
    <3>1. PacedStep
      BY <2>1 DEF NoteSent, PacedStep, Passing
    <3> QED
      BY <3>1, PacedByStep
  <2>2. CASE DeferAfter(c)
    <3>1. PacedStep
      BY <2>2 DEF DeferAfter, PacedStep, Passing
    <3> QED
      BY <3>1, PacedByStep
  <2>3. CASE DeferPush(c)
    <3>1. PacedStep
      BY <2>3 DEF DeferPush, PacedStep, Passing
    <3> QED
      BY <3>1, PacedByStep
  <2>4. CASE WaitTarget(c)
    <3>1. PacedStep
      BY <2>4 DEF WaitTarget, PacedStep, Passing
    <3> QED
      BY <3>1, PacedByStep
  <2>5. CASE WaitDone(c)
    <3>1. PacedStep
      BY <2>5, <2>a DEF WaitDone, PacedStep, Passing
    <3> QED
      BY <3>1, PacedByStep
  <2>6. CASE WaitExpires(c)
    <3>1. PacedStep
      BY <2>6, <2>a DEF WaitExpires, PacedStep, Passing
    <3> QED
      BY <3>1, PacedByStep
  <2>7. CASE TurnExpires(c)
    <3>1. PacedStep
      BY <2>7 DEF TurnExpires, PacedStep, Passing
    <3> QED
      BY <3>1, PacedByStep
  <2> QED
    BY <1>3, <2>1, <2>2, <2>3, <2>4, <2>5, <2>6, <2>7 DEF CallerStep
<1>4. CASE DrainChannel
  <2>1. PacedStep
    BY <1>4 DEF DrainChannel, PacedStep, Passing
  <2> QED
    BY <2>1, PacedByStep
<1>5. CASE TakeDeferred
  <2>1. PacedStep
    BY <1>5 DEF TakeDeferred, PacedStep, Passing
  <2> QED
    BY <2>1, PacedByStep
<1>6. CASE InsertDeferred
  <2>1. PacedStep
    BY <1>6 DEF InsertDeferred, PacedStep, Passing
  <2> QED
    BY <2>1, PacedByStep
<1>7. ASSUME NEW budget, Handle(budget)
      PROVE  OneAtATime'
  BY <1>0, <1>7, Handles, HandlePaced
<1>8. CASE LookupAnswered
  BY <1>8, LookupPaced
<1>b. CASE DefinitionCame
  <2>1. PacedStep
    BY <1>b DEF DefinitionCame, PacedStep, Passing
  <2> QED
    BY <2>1, PacedByStep
<1>9. CASE HoldLimit
  BY <1>9, HoldLimitPaced
<1>10. CASE StopRunning
  <2>1. PacedStep
    BY <1>10 DEF StopRunning, PacedStep, Passing
  <2> QED
    BY <2>1, PacedByStep
<1>11. CASE EndRun
  <2>1. PacedStep
    BY <1>11 DEF EndRun, PacedStep, Passing
  <2> QED
    BY <2>1, PacedByStep
<1>12. CASE UNCHANGED vars
  <2>1. PacedStep
    BY <1>12 DEF vars, PacedStep, Passing
  <2> QED
    BY <2>1, PacedByStep
<1> QED
  BY ONLY [Next]_vars, <1>1, <1>2, <1>3, <1>4, <1>5, <1>6, <1>7, <1>8, <1>9, <1>10, <1>11, <1>12, <1>b
     DEF Next, EngineStep

-----------------------------------------------------------------------------
(***************************************************************************)
(* Without a pacer: the counts and the errors the client writes.           *)
(***************************************************************************)
LEMMA UnpacedKept ==
    ASSUME CommandQueueAssumption, Base, Unpaced, [Next]_vars
    PROVE  Unpaced'
<1> USE DEF clockVars, engineVars, callVars
<1>0. TypeOK /\ pc \in [Callers -> {"free", "count", "after", "push", "turn", "target", "wait"}]
  BY DEF Base, TypeOK
<1>1. ASSUME NEW c \in Callers, Send(c)
      PROVE  Unpaced'
  BY <1>1, <1>0 DEF Send, Unpaced, InQueue, Passing
<1>2. ASSUME NEW c \in Callers, Local(c)
      PROVE  Unpaced'
  <2>1. /\ UNCHANGED <<deferred, taking, queue, eng, running, paced>>
        /\ ~paced => pc' = [pc EXCEPT ![c] = "target"] \/ pc' = [pc EXCEPT ![c] = "free"]
    BY <1>2 DEF Local
  <2> QED
    BY ONLY <2>1, <1>0, Unpaced DEF Unpaced, InQueue, Passing
<1>3. ASSUME NEW c \in Callers, CallerStep(c)
      PROVE  Unpaced'
  <2>1. CASE NoteSent(c)
    BY <2>1, <1>0 DEF NoteSent, Unpaced, InQueue, Passing
  <2>2. CASE DeferAfter(c)
    BY <2>2, <1>0 DEF DeferAfter, Unpaced, InQueue, Passing
  <2>3. CASE DeferPush(c)
    BY <2>3, <1>0 DEF DeferPush, Unpaced, InQueue, Passing
  <2>4. CASE WaitTarget(c)
    BY <2>4, <1>0 DEF WaitTarget, Unpaced, InQueue, Passing
  <2>5. CASE WaitDone(c)
    BY <2>5, <1>0 DEF WaitDone, Unpaced, InQueue, Passing
  <2>6. CASE WaitExpires(c)
    BY <2>6, <1>0 DEF WaitExpires, Unpaced, InQueue, Passing
  <2>7. CASE TurnExpires(c)
    BY <2>7, <1>0 DEF TurnExpires, Unpaced, InQueue, Passing
  <2> QED
    BY <1>3, <2>1, <2>2, <2>3, <2>4, <2>5, <2>6, <2>7 DEF CallerStep
<1>4. CASE DrainChannel
  <2>1. InQueue' = InQueue \cup ToSet(chan)
    <3>1. Commanded(queue') = Commanded(queue) \o chan
      BY <1>0, <1>4, Drains
    <3>2. Commanded(queue) \in Seq(Commands) /\ chan \in Seq(Commands)
      BY <1>0, CommandedOf DEF TypeOK
    <3> QED
      BY <3>1, <3>2, InConcat DEF InQueue
  <2>2. UNCHANGED <<deferred, taking, pc, running, paced>> /\ eng = "drain"
    BY <1>4 DEF DrainChannel
  <2> QED
    BY ONLY <2>1, <2>2, Base, Unpaced DEF Base, OnTheWay, Unpaced, Passing
<1>5. CASE TakeDeferred
  <2>1. UNCHANGED <<pc, queue, running, paced>> /\ eng = "deferred" /\ (~paced => UNCHANGED <<taking, deferred>>)
    BY <1>5 DEF TakeDeferred
  <2> QED
    BY ONLY <2>1, Unpaced DEF Unpaced, InQueue, Passing
<1>6. CASE InsertDeferred
  BY <1>6 DEF InsertDeferred, Unpaced
<1>7. ASSUME NEW budget, Handle(budget)
      PROVE  Unpaced'
  <2>1. PICK m, taken, started, parks : HandleStep(budget, m, taken, started, parks)
    BY <1>0, <1>7, Handles
  <2>2. InQueue' \subseteq InQueue
    BY <1>0, <2>1, HandlesInOrder DEF Base, OnTheWay
  <2>3. /\ UNCHANGED <<taking, deferred, running, paced>> /\ eng = "handle"
        /\ \A c \in Callers : pc'[c] = pc[c] \/ pc'[c] = "free"
    BY ONLY <2>1 DEF HandleStep
  <2> QED
    BY ONLY <2>2, <2>3, Unpaced DEF Unpaced, Passing
<1>8. CASE LookupAnswered
  BY <1>8 DEF LookupAnswered, Unpaced, InQueue, Passing
<1>b. CASE DefinitionCame
  BY <1>b DEF DefinitionCame, Unpaced, InQueue, Passing
<1>9. CASE HoldLimit
  BY <1>9 DEF HoldLimit, Unpaced, InQueue, Passing
<1>10. CASE StopRunning
  BY <1>10 DEF StopRunning, Unpaced, InQueue, Passing
<1>11. CASE EndRun
  BY <1>11 DEF EndRun, Unpaced, InQueue, Passing
<1>12. CASE UNCHANGED vars
  BY <1>12 DEF vars, Unpaced, InQueue, Passing
<1> QED
  BY ONLY [Next]_vars, <1>1, <1>2, <1>3, <1>4, <1>5, <1>6, <1>7, <1>8, <1>9, <1>10, <1>11, <1>12, <1>b
     DEF Next, EngineStep

\* The caller that calls is the only one that has called.
LEMMA Alone ==
    ASSUME Base, OneCaller, NEW c \in Callers, calls[c] > 0
    PROVE  \A d \in Callers : d # c => pc[d] = "free" /\ calls[d] = 0
<1>1. \A d \in Callers : calls[d] \in Nat
  BY DEF Base, TypeOK
<1> QED
  BY <1>1 DEF OneCaller, Base, CallsMade

\* Steps that send, take and answer nothing.
CountStep ==
    /\ UNCHANGED <<paced, sent, handled, queue, answers, calls>>
    /\ chan' \in {chan, <<>>}
    /\ late \subseteq late'
    /\ Passing' => Passing
    /\ \A c \in Callers : pc[c] = "count" => pc'[c] = "count"
    /\ \A c \in Callers : pc'[c] = "wait" => mark'[c] = sent \/ (pc[c] = "wait" /\ mark'[c] = mark[c])

LEMMA CountByStep ==
    ASSUME Base, Counts, CountStep
    PROVE  Counts'
<1>1. /\ UNCHANGED <<paced, sent, handled, queue, answers, calls>>
      /\ chan' = chan \/ chan' = <<>>
      /\ late \subseteq late'
  BY DEF CountStep
<1> SUFFICES ASSUME ~paced, OneCaller PROVE Counts'
  BY <1>1 DEF Counts, OneCaller
<1>2. /\ Len(chan) \in Nat /\ Len(queue) \in Nat /\ handled \in Nat /\ sent \in Nat
      /\ Len(chan') \in Nat /\ Len(chan') <= Len(chan)
  BY <1>1 DEF Base, TypeOK
<1>3. /\ handled + Len(queue) + Len(chan) <= sent + 1
      /\ (\A c \in Callers : pc[c] # "count") => handled + Len(queue) + Len(chan) <= sent
      /\ \A c \in Callers : pc[c] = "wait" => mark[c] = sent
      /\ Rises(answers, Unheld, late)
      /\ Passing => Below(ToSet(answers) \ late, InQueue \cup ToSet(chan), Unheld)
  BY DEF Counts
<1>4. handled' + Len(queue') + Len(chan') <= sent' + 1
  BY <1>1, <1>2, <1>3
<1>5. (\A c \in Callers : pc'[c] # "count") => handled' + Len(queue') + Len(chan') <= sent'
  <2>1. (\A c \in Callers : pc'[c] # "count") => \A c \in Callers : pc[c] # "count"
    BY DEF CountStep
  <2> QED
    BY <2>1, <1>1, <1>2, <1>3
<1>6. \A c \in Callers : pc'[c] = "wait" => mark'[c] = sent'
  BY <1>1, <1>3 DEF CountStep
<1>7. Rises(answers', Unheld, late')
  BY <1>1, <1>3, RisesMore
<1>8. Passing' => Below((ToSet(answers) \ late)', (InQueue \cup ToSet(chan))', Unheld)
  <2>1. ToSet(chan)' \subseteq ToSet(chan)
    BY <1>1, NoneIn
  <2>2. InQueue' = InQueue /\ (ToSet(answers) \ late)' \subseteq ToSet(answers) \ late
    BY <1>1 DEF InQueue
  <2> QED
    BY <2>1, <2>2, <1>3, BelowLess DEF CountStep
<1> QED
  BY <1>4, <1>5, <1>6, <1>7, <1>8 DEF Counts

LEMMA SendCounts ==
    ASSUME CommandQueueAssumption, Base, Counts, NEW c \in Callers, Send(c), Base'
    PROVE  Counts'
<1>1. PICK kind \in KindsOf[c] \cap SendKinds : Call(c, kind)
  BY DEF Send
<1>2. /\ pc[c] = "free" /\ arg'[c] \in Commands
      /\ calls'[c] = calls[c] + 1 /\ \A d \in Callers \ {c} : calls'[d] = calls[d]
      /\ arg'[c] = [by |-> c, n |-> calls[c] + 1, kind |-> kind]
  BY <1>1, Calls DEF Base
<1>3. UNCHANGED <<queue, handled, sent, answers, late, eng, paced, mark>>
  BY DEF Send, engineVars, clockVars
<1>4. /\ chan \in Seq(Commands) /\ pc \in [Callers -> {"free", "count", "after", "push", "turn", "target", "wait"}]
      /\ Len(chan) \in Nat /\ Len(queue) \in Nat /\ handled \in Nat /\ sent \in Nat /\ queue \in Seq(Queued)
      /\ \A d \in Callers : calls[d] \in Nat
  BY ONLY Base DEF Base, TypeOK
<1> SUFFICES ASSUME ~paced, OneCaller' PROVE Counts'
  BY <1>3 DEF Counts
<1>5. OneCaller
  <2>1. \A d \in Callers : calls[d] > 0 => calls'[d] > 0
    BY ONLY <1>2, <1>4
  <2> QED
    BY ONLY <2>1, OneCaller' DEF OneCaller
<1>6. \A d \in Callers : d # c => calls[d] = 0 /\ pc[d] = "free"
  <2>1. calls'[c] > 0
    BY <1>2, <1>4
  <2>2. \A d \in Callers : d # c => calls[d] = 0
    BY ONLY <2>1, <1>2, <1>4, OneCaller', c \in Callers DEF OneCaller
  <2> QED
    BY <2>2 DEF Base, CallsMade
<1>7. handled + Len(queue) + Len(chan) <= sent
  BY <1>2, <1>5, <1>6 DEF Counts
<1>8. \/ chan' = chan /\ pc' = pc
      \/ chan' = Append(chan, arg'[c]) /\ pc' = [pc EXCEPT ![c] = "count"]
  BY DEF Send
<1>9. handled' + Len(queue') + Len(chan') <= sent' + 1
  BY <1>2, <1>3, <1>4, <1>7, <1>8
<1>10. (\A d \in Callers : pc'[d] # "count") => handled' + Len(queue') + Len(chan') <= sent'
  <2>1. (\A d \in Callers : pc'[d] # "count") => chan' = chan
    BY <1>4, <1>8
  <2> QED
    BY <2>1, <1>3, <1>7
<1>11. \A d \in Callers : pc'[d] # "wait"
  BY <1>2, <1>4, <1>6, <1>8
<1>12. Rises(answers', Unheld, late')
  BY <1>3, <1>5 DEF Counts
<1>13. ASSUME Passing'
       PROVE  Below((ToSet(answers) \ late)', (InQueue \cup ToSet(chan))', Unheld)
  <2>1. Below(ToSet(answers) \ late, InQueue \cup ToSet(chan), Unheld)
    BY <1>3, <1>5, <1>13 DEF Counts, Passing
  <2>2. Below(Given, {arg'[c]}, Unheld)
    BY <1>2, GivenBelow
  <2>3. ToSet(chan)' \subseteq ToSet(chan) \cup {arg'[c]}
    <3>1. ToSet(Append(chan, arg'[c])) = ToSet(chan) \cup {arg'[c]}
      BY <1>2, <1>4, InAppend
    <3> QED
      BY ONLY <3>1, <1>8
  <2>4. InQueue' = InQueue /\ (ToSet(answers) \ late)' = ToSet(answers) \ late
    BY <1>3 DEF InQueue
  <2>5. ToSet(answers) \subseteq Given
    BY DEF Given
  <2> QED
    BY ONLY <2>1, <2>2, <2>3, <2>4, <2>5 DEF Below
<1> QED
  BY <1>9, <1>10, <1>11, <1>12, <1>13 DEF Counts

LEMMA LocalCounts ==
    ASSUME CommandQueueAssumption, Base, Counts, NEW c \in Callers, Local(c)
    PROVE  Counts'
<1>1. PICK kind \in KindsOf[c] \cap LocalKinds :
            /\ Call(c, kind)
            /\ pc' = [pc EXCEPT ![c] = IF paced /\ running THEN "after"
                                       ELSE IF kind = "error" THEN "target" ELSE "free"]
            /\ UNCHANGED <<chan, clockVars, engineVars, mark, answers, late>>
  BY DEF Local
<1>2. pc[c] = "free" /\ calls'[c] = calls[c] + 1 /\ \A d \in Callers \ {c} : calls'[d] = calls[d]
  BY <1>1, Calls DEF Base
<1>3. UNCHANGED <<chan, queue, handled, sent, answers, late, eng, paced, mark>>
  BY <1>1 DEF engineVars, clockVars
<1>4. /\ pc \in [Callers -> {"free", "count", "after", "push", "turn", "target", "wait"}]
      /\ \A d \in Callers : calls[d] \in Nat
  BY DEF Base, TypeOK
<1> SUFFICES ASSUME ~paced, OneCaller' PROVE Counts'
  BY <1>3 DEF Counts
<1>5. OneCaller
  BY <1>2, <1>4 DEF OneCaller
<1>6. \A d \in Callers : (pc'[d] = "count" <=> pc[d] = "count") /\ (pc'[d] = "wait" => pc[d] = "wait")
  <2>1. pc'[c] \notin {"count", "wait"} /\ \A d \in Callers \ {c} : pc'[d] = pc[d]
    BY <1>1, <1>4
  <2> QED
    BY <2>1, <1>2
<1>7. (\A d \in Callers : pc'[d] # "count") => \A d \in Callers : pc[d] # "count"
  BY <1>6
<1> QED
  BY <1>3, <1>5, <1>6, <1>7 DEF Counts, InQueue, Passing

LEMMA NoteSentCounts ==
    ASSUME Base, Counts, NEW c \in Callers, NoteSent(c)
    PROVE  Counts'
<1>1. /\ UNCHANGED <<chan, queue, handled, answers, late, eng, paced, mark, calls>>
      /\ pc[c] = "count" /\ sent' = sent + 1 /\ pc' = [pc EXCEPT ![c] = "free"]
  BY DEF NoteSent, engineVars
<1> SUFFICES ASSUME ~paced, OneCaller PROVE Counts'
  BY <1>1 DEF Counts, OneCaller
<1>2. /\ pc \in [Callers -> {"free", "count", "after", "push", "turn", "target", "wait"}]
      /\ Len(chan) \in Nat /\ Len(queue) \in Nat /\ handled \in Nat /\ sent \in Nat
      /\ calls[c] \in Nat
  BY DEF Base, TypeOK
<1>3. calls[c] > 0
  BY <1>1, <1>2 DEF Base, CallsMade
<1>4. \A d \in Callers : pc'[d] # "wait"
  BY <1>1, <1>2, <1>3, Alone
<1>5. handled' + Len(queue') + Len(chan') <= sent' /\ sent' \in Nat
  BY <1>1, <1>2 DEF Counts
<1>6. handled' + Len(queue') + Len(chan') <= sent' + 1
  BY <1>1, <1>2, <1>5
<1> QED
  BY <1>1, <1>4, <1>5, <1>6 DEF Counts, InQueue, Passing

LEMMA WaitDoneCounts ==
    ASSUME Base, Unpaced, Counts, NEW c \in Callers, WaitDone(c)
    PROVE  Counts'
<1>1. /\ UNCHANGED <<chan, queue, handled, sent, late, eng, paced, mark, calls, running, arg>>
      /\ pc[c] = "wait" /\ pc' = [pc EXCEPT ![c] = "free"]
      /\ handled >= mark[c] \/ ~running
      /\ answers' = Append(answers, arg[c])
  BY DEF WaitDone, engineVars, clockVars
<1> SUFFICES ASSUME ~paced, OneCaller PROVE Counts'
  BY <1>1 DEF Counts, OneCaller
<1>2. /\ pc \in [Callers -> {"free", "count", "after", "push", "turn", "target", "wait"}]
      /\ Len(chan) \in Nat /\ Len(queue) \in Nat /\ handled \in Nat /\ sent \in Nat
      /\ chan \in Seq(Commands) /\ queue \in Seq(Queued) /\ answers \in Seq(Commands)
      /\ calls[c] \in Nat /\ arg[c] \in Commands
  BY DEF Base, TypeOK
<1>3. calls[c] > 0
  BY <1>1, <1>2 DEF Base, CallsMade
<1>4. \A d \in Callers : pc[d] # "count"
  BY <1>1, <1>3, Alone
<1>5. handled + Len(queue) + Len(chan) <= sent /\ mark[c] = sent
  BY <1>1, <1>4 DEF Counts
<1>6. handled' + Len(queue') + Len(chan') <= sent' /\ handled' + Len(queue') + Len(chan') <= sent' + 1
  BY <1>1, <1>2, <1>5
<1>7. \A d \in Callers : pc'[d] = "wait" => mark'[d] = sent'
  BY <1>1, <1>2 DEF Counts
<1>8. Rises(answers', Unheld, late')
  <2>1. Below(ToSet(answers) \ late, {arg[c]}, Unheld)
    <3>1. \A x \in Given : x.by = c => x.n < calls[c]
      BY <1>1 DEF Base, CallsMade
    <3>2. arg[c].by = c /\ arg[c].n = calls[c]
      BY DEF Base, CallsMade
    <3> QED
      BY <3>1, <3>2 DEF Below, Given
  <2>2. Rises(answers, Unheld, late)
    BY DEF Counts
  <2>3. Rises(Append(answers, arg[c]), Unheld, late)
    BY <2>1, <2>2, <1>2, RisesAppend
  <2> QED
    BY ONLY <2>3, <1>1
\* The count is reached: nothing is left in the queue or the channel.
<1>9. ASSUME Passing'
      PROVE  Below((ToSet(answers) \ late)', (InQueue \cup ToSet(chan))', Unheld)
  <2>1. running
    BY <1>1, <1>9 DEF Unpaced, Passing
  <2>2. Len(queue) = 0 /\ Len(chan) = 0
    BY <2>1, <1>1, <1>2, <1>5
  <2>3. chan' = <<>> /\ queue' = <<>>
    BY <2>2, <1>1, <1>2
  <2>4. ToSet(chan)' = {} /\ InQueue' = {}
    <3>1. Commanded(queue') = <<>>
      BY <2>3 DEF Commanded
    <3> QED
      BY <3>1, <2>3, NoneIn DEF InQueue
  <2> QED
    BY <2>4 DEF Below
<1> QED
  BY <1>6, <1>7, <1>8, <1>9 DEF Counts

LEMMA WaitExpiresCounts ==
    ASSUME Base, Counts, NEW c \in Callers, WaitExpires(c)
    PROVE  Counts'
<1>1. /\ UNCHANGED <<chan, queue, handled, sent, eng, paced, mark, calls, running, arg>>
      /\ pc[c] = "wait" /\ pc' = [pc EXCEPT ![c] = "free"]
      /\ answers' = Append(answers, arg[c]) /\ late' = late \cup {arg[c]}
  BY DEF WaitExpires, engineVars, clockVars
<1> SUFFICES ASSUME ~paced, OneCaller PROVE Counts'
  BY <1>1 DEF Counts, OneCaller
<1>2. /\ pc \in [Callers -> {"free", "count", "after", "push", "turn", "target", "wait"}]
      /\ answers \in Seq(Commands) /\ arg[c] \in Commands
  BY DEF Base, TypeOK
<1>3. (\A d \in Callers : pc'[d] # "count") => \A d \in Callers : pc[d] # "count"
  BY <1>1, <1>2
<1>4. \A d \in Callers : pc'[d] = "wait" => mark'[d] = sent'
  BY <1>1, <1>2 DEF Counts
<1>5. Rises(answers', Unheld, late')
  <2>1. Rises(answers, Unheld, late')
    BY <1>1, RisesMore DEF Counts
  <2>2. arg[c] \in late'
    BY <1>1
  <2>3. Rises(Append(answers, arg[c]), Unheld, late')
    BY <2>1, <2>2, <1>2, RisesAppend
  <2> QED
    BY ONLY <2>3, <1>1
<1>6. Passing' => Below((ToSet(answers) \ late)', (InQueue \cup ToSet(chan))', Unheld)
  <2>1. ToSet(answers)' = ToSet(answers) \cup {arg[c]}
    BY <1>1, <1>2, InAppend
  <2>2. (ToSet(answers) \ late)' \subseteq ToSet(answers) \ late
    BY <2>1, <1>1
  <2>3. InQueue' = InQueue /\ ToSet(chan)' = ToSet(chan) /\ (Passing' => Passing)
    BY <1>1 DEF InQueue, Passing
  <2> QED
    BY <2>2, <2>3, BelowLess DEF Counts
<1> QED
  BY <1>1, <1>3, <1>4, <1>5, <1>6 DEF Counts

LEMMA DrainCounts ==
    ASSUME Base, Counts, DrainChannel
    PROVE  Counts'
<1>1. /\ UNCHANGED <<handled, sent, answers, late, paced, mark, calls, pc>>
      /\ chan' = <<>> /\ eng = "drain"
  BY DEF DrainChannel, clockVars, callVars
<1> SUFFICES ASSUME ~paced, OneCaller PROVE Counts'
  BY <1>1 DEF Counts, OneCaller
<1>2. TypeOK
  BY DEF Base
<1>3. /\ Len(chan) \in Nat /\ Len(queue) \in Nat /\ handled \in Nat /\ sent \in Nat
      /\ chan \in Seq(Commands) /\ queue \in Seq(Queued)
  BY <1>2 DEF TypeOK
<1>4. Len(queue') = Len(queue) + Len(chan) /\ Commanded(queue') = Commanded(queue) \o chan
  BY <1>2, Drains
<1>5. InQueue' = InQueue \cup ToSet(chan) /\ ToSet(chan)' = {}
  BY <1>1, <1>3, <1>4, CommandedOf, InConcat, NoneIn DEF InQueue
<1>6. handled' + Len(queue') + Len(chan') = handled + Len(queue) + Len(chan)
  BY <1>1, <1>3, <1>4
<1>7. Below(ToSet(answers) \ late, InQueue \cup ToSet(chan), Unheld)
  BY <1>1 DEF Counts, Passing
<1>8. Below((ToSet(answers) \ late)', (InQueue \cup ToSet(chan))', Unheld)
  BY <1>1, <1>5, <1>7
<1> QED
  BY <1>1, <1>6, <1>8 DEF Counts

LEMMA HandleCounts ==
    ASSUME Base, Unpaced, Counts, NEW budget, NEW m, NEW taken, NEW started, NEW parks,
           HandleStep(budget, m, taken, started, parks)
    PROVE  Counts'
<1>1. /\ UNCHANGED <<chan, sent, paced, mark, calls>> /\ eng = "handle" /\ late' = late \cup parks
      /\ handled' = handled + Counted(taken)
      /\ started \subseteq ToSet(Commanded(taken))
  BY DEF HandleStep
<1> SUFFICES ASSUME ~paced, OneCaller PROVE Counts'
  BY <1>1 DEF Counts, OneCaller
<1>2. TypeOK /\ Rises(Commanded(queue), Sendable, {})
  BY DEF Base, OnTheWay
<1>3. /\ Len(chan) \in Nat /\ Len(queue) \in Nat /\ handled \in Nat /\ sent \in Nat
      /\ chan \in Seq(Commands) /\ queue \in Seq(Queued)
      /\ answers \in Seq(Commands) /\ resolved \in Seq(Commands)
  BY <1>2 DEF TypeOK
<1>4. m = Len(queue)
  BY DEF HandleStep, TakesFirst
<1>5. taken \in Seq(Queued) /\ Len(taken) = Len(queue)
  BY <1>4 DEF HandleStep, TakenOf
<1>6. queue' = <<>>
  <2>1. PICK f : LeftOf(m, f, queue')
    BY DEF HandleStep
  <2>2. /\ queue' \in Seq(Queued) /\ f \in [1 .. Len(queue') -> 1 .. Len(queue)]
        /\ \A k \in 1 .. Len(queue') : f[k] > m
    BY <2>1 DEF LeftOf
  <2>3. ASSUME Len(queue') # 0 PROVE FALSE
    <3>1. 1 \in 1 .. Len(queue') /\ f[1] \in 1 .. Len(queue) /\ f[1] > m
      BY <2>2, <2>3
    <3> QED
      BY <3>1, <1>3, <1>4
  <2> QED
    BY <2>2, <2>3
<1>7. Counted(taken) \in Nat /\ Counted(taken) <= Len(queue)
  <2>1. IsFiniteSet(1 .. Len(taken)) /\ Cardinality(1 .. Len(taken)) = Len(taken) /\ DOMAIN taken = 1 .. Len(taken)
    <3>1. PICK n \in Nat : n = Len(taken)
      BY <1>3, <1>5
    <3>2. IsFiniteSet(1 .. n) /\ Cardinality(1 .. n) = IF 1 > n THEN 0 ELSE n - 1 + 1
      BY FS_Interval
    <3>3. Cardinality(1 .. n) = n
      BY <3>2
    <3> QED
      BY <3>1, <3>2, <3>3, <1>5
  <2>2. {i \in DOMAIN taken : taken[i].channel} \subseteq 1 .. Len(taken)
    BY <2>1
  <2> QED
    BY <2>1, <2>2, <1>5, FS_Subset, FS_CardinalityType DEF Counted
<1>8. handled' + Len(queue') + Len(chan') <= handled + Len(queue) + Len(chan) /\ sent' = sent
      /\ handled' \in Nat /\ Len(queue') = 0 /\ Len(chan') = Len(chan)
  BY <1>1, <1>3, <1>6, <1>7
<1>9. \A c \in Callers : pc'[c] = pc[c]
  BY DEF HandleStep, Unpaced
<1>10. /\ handled' + Len(queue') + Len(chan') <= sent' + 1
       /\ (\A c \in Callers : pc'[c] # "count") => handled' + Len(queue') + Len(chan') <= sent'
  <2>1. /\ handled + Len(queue) + Len(chan) <= sent + 1
        /\ (\A c \in Callers : pc[c] # "count") => handled + Len(queue) + Len(chan) <= sent
    BY DEF Counts
  <2>2. (\A c \in Callers : pc'[c] # "count") => \A c \in Callers : pc[c] # "count"
    BY <1>9
  <2> QED
    BY ONLY <2>1, <2>2, <1>3, <1>8
<1>11. \A c \in Callers : pc'[c] = "wait" => mark'[c] = sent'
  BY <1>1, <1>9 DEF Counts
<1>a. PICK told \in Seq(Commands), back \in Seq(Commands) : Tells(taken, started, parks, back, told)
  BY <1>2, ToldOf
<1>12. /\ told = Kept(Commanded(taken), ToSet(Commanded(taken)) \ (started \cup parks))
       /\ ToSet(told) = ToSet(Commanded(taken)) \ (started \cup parks)
       /\ back \in Seq(Commands)
       /\ ToSet(back) = (ToSet(resolved) \ parks) \cup ToSet(ready)
       /\ answers' = answers \o back \o told
       /\ answers \o back \in Seq(Commands)
       /\ ToSet(answers \o back) = ToSet(answers) \cup ToSet(back)
       /\ ToSet(answers)' = ToSet(answers) \cup ToSet(back) \cup ToSet(told)
  BY <1>a DEF Tells
<1>13. PICK cmds \in Seq(Commands) : cmds = Commanded(taken)
  BY <1>2, HandlesInOrder
<1>14. ToSet(cmds) \subseteq InQueue /\ Rises(cmds, Sendable, {})
  BY <1>2, <1>13, HandlesInOrder
<1>15. \A x \in InQueue \cup ToSet(chan) : x.kind \in Unheld => x.kind \in Sendable
  <2>1. \A x \in InQueue \cup ToSet(chan) : x.kind \in SendKinds
    BY DEF Unpaced, Base, OnTheWay
  <2> QED
    BY <2>1 DEF SendKinds, Unheld, Sendable
<1>16. \A x \in ToSet(back) : x \in late \/ x.kind \notin Unheld
  BY <1>12 DEF Base, OnTheWay, Waiting, Apart, Unheld
<1>17. Rises(answers, Unheld, late) /\ Below(ToSet(answers) \ late, InQueue \cup ToSet(chan), Unheld)
  BY <1>1 DEF Counts, Passing
<1>18. ToSet(told) \subseteq InQueue
  BY <1>12, <1>13, <1>14
<1>19. Rises(answers', Unheld, late')
  <2>1. Rises(back, Unheld, late)
    <3>1. \A i \in DOMAIN back : back[i] \in ToSet(back)
      BY <1>12, InSet
    <3> QED
      BY ONLY <3>1, <1>16 DEF Rises
  <2>2. Below(ToSet(answers) \ late, ToSet(back) \ late, Unheld)
    BY <1>16 DEF Below
  <2>3. Rises(answers \o back, Unheld, late)
    BY <2>1, <2>2, <1>3, <1>12, <1>17, RisesConcat
  <2>4. Rises(told, Unheld, late)
    <3>1. Rises(told, Sendable, {})
      BY <1>12, <1>13, <1>14, RisesKept
    <3>2. \A i \in DOMAIN told : told[i] \in ToSet(told)
      BY InSet
    <3>3. \A i \in DOMAIN told : told[i].kind \in Unheld => told[i].kind \in Sendable
      BY <3>2, <1>15, <1>18
    <3> QED
      BY ONLY <3>1, <3>3 DEF Rises
  <2>5. Below(ToSet(answers \o back) \ late, ToSet(told) \ late, Unheld)
    BY ONLY <1>12, <1>16, <1>17, <1>18 DEF Below
  <2>6. Rises((answers \o back) \o told, Unheld, late)
    BY <2>3, <2>4, <2>5, <1>12, RisesConcat
  <2>7. Rises((answers \o back) \o told, Unheld, late')
    BY <2>6, <1>1, RisesMore
  <2> QED
    BY ONLY <2>7, <1>12
<1>20. Below((ToSet(answers) \ late)', (InQueue \cup ToSet(chan))', Unheld)
  <2>1. InQueue' = {}
    <3>1. Commanded(queue') = <<>>
      BY <1>6 DEF Commanded
    <3> QED
      BY <3>1, NoneIn DEF InQueue
  <2>2. late \subseteq late' /\ ToSet(chan)' = ToSet(chan)
    BY <1>1
  <2>3. Below(InQueue, ToSet(chan), Sendable)
    BY DEF Base, OnTheWay
  <2> SUFFICES ASSUME NEW y \in ToSet(answers)', NEW x \in ToSet(chan), y \notin late, y.by = x.by,
                      y.kind \in Unheld, x.kind \in Unheld
               PROVE  y.n < x.n
    BY <2>1, <2>2 DEF Below
  <2>4. CASE y \in ToSet(answers)
    BY <2>4, <1>17 DEF Below
  <2>5. CASE y \in ToSet(told)
    <3>1. y \in InQueue /\ y.kind \in Sendable /\ x.kind \in Sendable
      BY <2>5, <1>15, <1>18
    <3> QED
      BY <3>1, <2>3 DEF Below
  <2> QED
    BY <2>4, <2>5, <1>12, <1>16
<1> QED
  BY <1>10, <1>11, <1>19, <1>20 DEF Counts

LEMMA CountsKept ==
    ASSUME CommandQueueAssumption, Base, Unpaced, Counts, [Next]_vars, Base'
    PROVE  Counts'
<1> USE DEF clockVars, engineVars, callVars
<1>0. TypeOK /\ pc \in [Callers -> {"free", "count", "after", "push", "turn", "target", "wait"}]
      /\ mark \in [Callers -> Nat]
  BY DEF Base, TypeOK
<1>1. ASSUME NEW c \in Callers, Send(c)
      PROVE  Counts'
  BY <1>1, SendCounts
<1>2. ASSUME NEW c \in Callers, Local(c)
      PROVE  Counts'
  BY <1>2, LocalCounts
<1>3. ASSUME NEW c \in Callers, CallerStep(c)
      PROVE  Counts'
  <2>1. CASE NoteSent(c)
    BY <2>1, NoteSentCounts
  <2>2. CASE DeferAfter(c)
    <3>1. CountStep
      BY <2>2, <1>0 DEF DeferAfter, CountStep, Passing
    <3> QED
      BY <3>1, CountByStep
  <2>3. CASE DeferPush(c)
    <3>1. CountStep
      BY <2>3, <1>0 DEF DeferPush, CountStep, Passing
    <3> QED
      BY <3>1, CountByStep
  <2>4. CASE WaitTarget(c)
    <3>1. CountStep
      BY <2>4, <1>0 DEF WaitTarget, CountStep, Passing
    <3> QED
      BY <3>1, CountByStep
  <2>5. CASE WaitDone(c)
    BY <2>5, WaitDoneCounts
  <2>6. CASE WaitExpires(c)
    BY <2>6, WaitExpiresCounts
  <2>7. CASE TurnExpires(c)
    <3>1. CountStep
      BY <2>7, <1>0 DEF TurnExpires, CountStep, Passing
    <3> QED
      BY <3>1, CountByStep
  <2> QED
    BY <1>3, <2>1, <2>2, <2>3, <2>4, <2>5, <2>6, <2>7 DEF CallerStep
<1>4. CASE DrainChannel
  BY <1>4, DrainCounts
<1>5. CASE TakeDeferred
  <2>1. CountStep
    BY <1>5 DEF TakeDeferred, CountStep, Passing
  <2> QED
    BY <2>1, CountByStep
<1>6. CASE InsertDeferred
  BY <1>6 DEF InsertDeferred, Counts, Unpaced
<1>7. ASSUME NEW budget, Handle(budget)
      PROVE  Counts'
  BY <1>0, <1>7, Handles, HandleCounts
<1>8. CASE LookupAnswered
  <2>1. CountStep
    BY <1>8 DEF LookupAnswered, CountStep, Passing
  <2> QED
    BY <2>1, CountByStep
<1>b. CASE DefinitionCame
  <2>1. CountStep
    BY <1>b DEF DefinitionCame, CountStep, Passing
  <2> QED
    BY <2>1, CountByStep
<1>9. CASE HoldLimit
  <2>1. CountStep
    BY <1>9 DEF HoldLimit, CountStep, Passing
  <2> QED
    BY <2>1, CountByStep
<1>10. CASE StopRunning
  <2>1. CountStep
    BY <1>10 DEF StopRunning, CountStep, Passing
  <2> QED
    BY <2>1, CountByStep
<1>11. CASE EndRun
  <2>1. CountStep
    BY <1>11, <1>0 DEF EndRun, CountStep, Passing
  <2> QED
    BY <2>1, CountByStep
<1>12. CASE UNCHANGED vars
  <2>1. CountStep
    BY <1>12 DEF vars, CountStep, Passing
  <2> QED
    BY <2>1, CountByStep
<1> QED
  BY ONLY [Next]_vars, <1>1, <1>2, <1>3, <1>4, <1>5, <1>6, <1>7, <1>8, <1>9, <1>10, <1>11, <1>12, <1>b
     DEF Next, EngineStep

-----------------------------------------------------------------------------
(***************************************************************************)
(* The client's own answers, put behind the commands made before them.     *)
(***************************************************************************)
LEMMA TurnTypes ==
    ASSUME TypeOK
    PROVE  /\ received \in Nat /\ sent \in Nat /\ chan \in Seq(Commands) /\ queue \in Seq(Queued)
           /\ DOMAIN queue = 1 .. Len(queue) /\ DOMAIN chan = 1 .. Len(chan)
           /\ Len(queue) \in Nat /\ Len(chan) \in Nat
           /\ \A i \in 1 .. Len(queue) : queue[i].ordinal \in Nat /\ queue[i].cmd.n \in Nat
           /\ \A k \in 1 .. Len(chan) : chan[k].n \in Nat /\ chan[k] \in ToSet(chan)
           /\ taking \in Seq(Deferrals) /\ deferred \in Seq(Deferrals)
           /\ DOMAIN taking = 1 .. Len(taking) /\ DOMAIN deferred = 1 .. Len(deferred)
           /\ \A c \in Callers : calls[c] \in Nat /\ mark[c] \in Nat
           /\ pc \in [Callers -> {"free", "count", "after", "push", "turn", "target", "wait"}]
           /\ \A d \in Pending : d.after \in Nat /\ d.cmd \in Commands /\ d.cmd.n \in Nat
<1>1. /\ received \in Nat /\ sent \in Nat /\ chan \in Seq(Commands) /\ queue \in Seq(Queued)
      /\ taking \in Seq(Deferrals) /\ deferred \in Seq(Deferrals)
      /\ \A c \in Callers : calls[c] \in Nat /\ mark[c] \in Nat /\ arg[c] \in Commands
      /\ pc \in [Callers -> {"free", "count", "after", "push", "turn", "target", "wait"}]
  BY DEF TypeOK
<1>2. /\ DOMAIN queue = 1 .. Len(queue) /\ DOMAIN chan = 1 .. Len(chan)
      /\ Len(queue) \in Nat /\ Len(chan) \in Nat
      /\ DOMAIN taking = 1 .. Len(taking) /\ DOMAIN deferred = 1 .. Len(deferred)
  BY <1>1
<1>3. \A x \in Commands : x.n \in Nat
  BY DEF Commands
<1>4. \A i \in 1 .. Len(queue) : queue[i].ordinal \in Nat /\ queue[i].cmd.n \in Nat
  <2>1. \A i \in 1 .. Len(queue) : queue[i] \in Queued
    BY <1>1
  <2> QED
    BY <2>1, <1>3 DEF Queued
<1>5. \A k \in 1 .. Len(chan) : chan[k].n \in Nat /\ chan[k] \in ToSet(chan)
  BY <1>1, <1>3, InSet
<1>6. \A d \in Deferrals : d.after \in Nat /\ d.cmd \in Commands
  BY DEF Deferrals
<1>7. ToSet(taking) \subseteq Deferrals /\ ToSet(deferred) \subseteq Deferrals
  BY <1>1, InSet
<1>8. \A d \in Pushed : d.after \in Nat /\ d.cmd \in Commands
  BY <1>1 DEF Pushed
<1>9. \A d \in Pending : d.after \in Nat /\ d.cmd \in Commands /\ d.cmd.n \in Nat
  BY <1>3, <1>6, <1>7, <1>8 DEF Pending
<1> QED
  BY <1>1, <1>2, <1>4, <1>5, <1>9

\* Steps that leave the queue and the lists alone.
TurnStep ==
    /\ UNCHANGED <<queue, received, sent, taking>>
    /\ chan' \in {chan, <<>>}
    /\ deferred' \in {deferred, <<>>}
    /\ \A c \in Callers : calls[c] <= calls'[c]
    /\ \A c \in Callers : pc[c] = "count" => pc'[c] = "count"
    /\ Pushed' \subseteq Pushed

LEMMA OneCallerBefore ==
    ASSUME TypeOK, TypeOK', \A c \in Callers : calls[c] <= calls'[c], OneCaller'
    PROVE  OneCaller
<1>1. \A c \in Callers : calls[c] \in Nat /\ calls'[c] \in Nat
  BY DEF TypeOK
<1>2. \A c \in Callers : calls[c] > 0 => calls'[c] > 0
  BY <1>1
<1> QED
  BY <1>2 DEF OneCaller

LEMMA TurnByStep ==
    ASSUME Base, Turns, TypeOK', TurnStep
    PROVE  Turns'
<1>0. TypeOK
  BY DEF Base
<1> SUFFICES ASSUME OneCaller' PROVE Turns'
  BY DEF Turns
<1>1. OneCaller
  BY <1>0, OneCallerBefore DEF TurnStep
<1>2. /\ received \in Nat /\ sent \in Nat /\ Len(chan) \in Nat /\ Len(chan') \in Nat /\ Len(chan') <= Len(chan)
      /\ \A k \in DOMAIN chan' : k \in DOMAIN chan /\ chan'[k] = chan[k]
  BY <1>0, TurnTypes DEF TurnStep
<1>3. /\ UNCHANGED <<queue, received, sent, taking>> /\ Pushed' \subseteq Pushed
      /\ deferred' = deferred \/ deferred' = <<>>
  BY DEF TurnStep
<1>4. ToSet(deferred)' \subseteq ToSet(deferred) /\ ToSet(taking)' = ToSet(taking)
  BY <1>3, NoneIn
<1>5. Pending' \subseteq Pending
  BY <1>3, <1>4 DEF Pending
<1>6. received' + Len(chan') <= sent' + 1
  BY <1>1, <1>2, <1>3 DEF Turns
<1>7. (\A c \in Callers : pc'[c] # "count") => received' + Len(chan') <= sent'
  <2>1. (\A c \in Callers : pc'[c] # "count") => \A c \in Callers : pc[c] # "count"
    BY DEF TurnStep
  <2> QED
    BY <2>1, <1>1, <1>2, <1>3 DEF Turns
<1>8. \A i \in DOMAIN queue' : queue'[i].ordinal <= IF queue'[i].channel THEN received' ELSE sent'
  BY <1>1, <1>3 DEF Turns
<1>9. ASSUME NEW d \in Pending' PROVE PutBehind(d)'
  <2>1. PutBehind(d)
    BY <1>1, <1>5, <1>9 DEF Turns
  <2> QED
    BY ONLY <2>1, <1>2, <1>3 DEF PutBehind
<1>10. /\ \A i, j \in DOMAIN taking' : i < j => taking'[i].after <= taking'[j].after
       /\ \A i, j \in DOMAIN deferred' : i < j => deferred'[i].after <= deferred'[j].after
  BY <1>1, <1>3 DEF Turns
<1>11. /\ \A d \in ToSet(taking)', e \in (ToSet(deferred) \cup Pushed)' : d.after <= e.after
       /\ \A d \in ToSet(deferred)', e \in Pushed' : d.after <= e.after
  BY <1>1, <1>3, <1>4 DEF Turns
<1> QED
  BY <1>6, <1>7, <1>8, <1>9, <1>10, <1>11 DEF Turns

LEMMA SendTurns ==
    ASSUME CommandQueueAssumption, Base, Turns, TypeOK', NEW c \in Callers, Send(c)
    PROVE  Turns'
<1>0. TypeOK
  BY DEF Base
<1>1. PICK kind \in KindsOf[c] \cap SendKinds : Call(c, kind)
  BY DEF Send
<1>2. /\ pc[c] = "free" /\ arg'[c] \in Commands
      /\ calls'[c] = calls[c] + 1 /\ \A d \in Callers \ {c} : calls'[d] = calls[d]
      /\ arg'[c].n = calls[c] + 1
  <2>1. /\ pc[c] = "free" /\ arg'[c] \in Commands
        /\ calls'[c] = calls[c] + 1 /\ \A d \in Callers \ {c} : calls'[d] = calls[d]
        /\ arg'[c] = [by |-> c, n |-> calls[c] + 1, kind |-> kind]
    BY <1>0, <1>1, Calls
  <2> QED
    BY ONLY <2>1
<1>3. UNCHANGED <<queue, received, sent, taking, deferred, mark>>
  BY DEF Send, engineVars, clockVars
<1>4. /\ chan \in Seq(Commands) /\ pc \in [Callers -> {"free", "count", "after", "push", "turn", "target", "wait"}]
      /\ Len(chan) \in Nat /\ received \in Nat /\ sent \in Nat /\ DOMAIN chan = 1 .. Len(chan)
      /\ \A d \in Callers : calls[d] \in Nat
  BY ONLY <1>0, TurnTypes
<1> SUFFICES ASSUME OneCaller' PROVE Turns'
  BY DEF Turns
<1>5. OneCaller
  <2>1. \A d \in Callers : calls[d] <= calls'[d]
    BY <1>2, <1>4
  <2> QED
    BY <1>0, <2>1, OneCallerBefore
<1>6. \A d \in Callers : d # c => calls[d] = 0 /\ pc[d] = "free"
  <2>1. calls'[c] > 0
    BY <1>2, <1>4
  <2>2. \A d \in Callers : d # c => calls[d] = 0
    BY ONLY <2>1, <1>2, <1>4, OneCaller', c \in Callers DEF OneCaller
  <2> QED
    BY <2>2 DEF Base, CallsMade
<1>7. received + Len(chan) <= sent
  BY <1>2, <1>5, <1>6 DEF Turns
<1>8. \/ chan' = chan /\ pc' = pc
      \/ chan' = Append(chan, arg'[c]) /\ pc' = [pc EXCEPT ![c] = "count"]
  BY DEF Send
<1>9. received' + Len(chan') <= sent' + 1
  BY <1>2, <1>3, <1>4, <1>7, <1>8
<1>10. (\A d \in Callers : pc'[d] # "count") => received' + Len(chan') <= sent'
  <2>1. (\A d \in Callers : pc'[d] # "count") => chan' = chan
    BY <1>4, <1>8
  <2> QED
    BY <2>1, <1>3, <1>7
<1>11. Pushed' = {} /\ Pushed = {}
  BY <1>2, <1>4, <1>6, <1>8 DEF Pushed
<1>12. Pending' = Pending
  BY <1>3, <1>11 DEF Pending
<1>13. ASSUME NEW d \in Pending' PROVE PutBehind(d)'
  <2>1. PutBehind(d)
    BY <1>5, <1>12, <1>13 DEF Turns
  <2>2. d.cmd.n <= calls[c]
    <3>1. d.cmd \in Listed
      BY <1>11, <1>12, <1>13 DEF Pending, Listed
    <3>2. d.cmd.n <= calls[d.cmd.by] /\ d.cmd.by \in Callers
      BY <3>1, <1>0, GivenTyped DEF Base, CallsMade, Given
    <3>3. d.cmd.n \in Nat
      BY <1>0, <1>12, <1>13, TurnTypes
    <3> QED
      BY <3>2, <3>3, <1>4, <1>6
  <2>3. \A k \in DOMAIN chan' : (k \in DOMAIN chan /\ chan'[k] = chan[k]) \/ chan'[k] = arg'[c]
    BY <1>2, <1>4, <1>8
  <2>4. d.cmd.n \in Nat
    BY <1>0, <1>12, <1>13, TurnTypes
  <2>5. \A k \in DOMAIN chan' : chan'[k].n < d.cmd.n => k \in DOMAIN chan /\ chan'[k] = chan[k]
    BY ONLY <2>2, <2>3, <2>4, <1>2, <1>4, c \in Callers
  <2> QED
    BY ONLY <2>1, <2>5, <1>3 DEF PutBehind
<1>14. \A i \in DOMAIN queue' : queue'[i].ordinal <= IF queue'[i].channel THEN received' ELSE sent'
  BY <1>3, <1>5 DEF Turns
<1>15. /\ \A i, j \in DOMAIN taking' : i < j => taking'[i].after <= taking'[j].after
       /\ \A i, j \in DOMAIN deferred' : i < j => deferred'[i].after <= deferred'[j].after
  BY <1>3, <1>5 DEF Turns
<1>16. /\ \A d \in ToSet(taking)', e \in (ToSet(deferred) \cup Pushed)' : d.after <= e.after
       /\ \A d \in ToSet(deferred)', e \in Pushed' : d.after <= e.after
  BY <1>3, <1>5, <1>11 DEF Turns
<1> QED
  BY <1>9, <1>10, <1>13, <1>14, <1>15, <1>16 DEF Turns

LEMMA NoteSentTurns ==
    ASSUME Base, Turns, TypeOK', NEW c \in Callers, NoteSent(c)
    PROVE  Turns'
<1>0. TypeOK
  BY DEF Base
<1>1. /\ UNCHANGED <<chan, queue, received, taking, deferred, mark, calls, arg>>
      /\ pc[c] = "count" /\ sent' = sent + 1 /\ pc' = [pc EXCEPT ![c] = "free"]
  BY DEF NoteSent, engineVars
<1> SUFFICES ASSUME OneCaller PROVE Turns'
  BY <1>1 DEF Turns, OneCaller
<1>2. /\ pc \in [Callers -> {"free", "count", "after", "push", "turn", "target", "wait"}]
      /\ Len(chan) \in Nat /\ received \in Nat /\ sent \in Nat
      /\ DOMAIN queue = 1 .. Len(queue)
      /\ \A i \in 1 .. Len(queue) : queue[i].ordinal \in Nat
      /\ \A d \in Pending : d.after \in Nat
  BY ONLY <1>0, TurnTypes
<1>3. Pushed' = Pushed
  BY <1>1, <1>2 DEF Pushed
<1>4. Pending' = Pending
  BY <1>1, <1>3 DEF Pending
<1>5. received' + Len(chan') <= sent' /\ received' + Len(chan') <= sent' + 1
  <2>1. received + Len(chan) <= sent + 1
    BY DEF Turns
  <2> QED
    BY ONLY <2>1, <1>1, <1>2
<1>6. \A i \in DOMAIN queue' : queue'[i].ordinal <= IF queue'[i].channel THEN received' ELSE sent'
  <2>1. \A i \in DOMAIN queue : queue[i].ordinal <= IF queue[i].channel THEN received ELSE sent
    BY DEF Turns
  <2> QED
    BY ONLY <2>1, <1>1, <1>2
<1>7. ASSUME NEW d \in Pending' PROVE PutBehind(d)'
  <2>1. PutBehind(d) /\ d.after \in Nat
    BY <1>2, <1>4, <1>7 DEF Turns
  <2> QED
    BY ONLY <2>1, <1>1, <1>2 DEF PutBehind
<1> QED
  BY <1>1, <1>3, <1>5, <1>6, <1>7 DEF Turns

LEMMA DeferAfterTurns ==
    ASSUME Base, Turns, TypeOK', NEW c \in Callers, DeferAfter(c)
    PROVE  Turns'
<1>0. TypeOK
  BY DEF Base
<1>1. /\ UNCHANGED <<chan, queue, received, sent, taking, deferred, calls, arg>>
      /\ pc[c] = "after" /\ mark' = [mark EXCEPT ![c] = sent] /\ pc' = [pc EXCEPT ![c] = "push"]
  BY DEF DeferAfter, engineVars, clockVars
<1> SUFFICES ASSUME OneCaller PROVE Turns'
  BY <1>1 DEF Turns, OneCaller
<1>2. /\ pc \in [Callers -> {"free", "count", "after", "push", "turn", "target", "wait"}]
      /\ Len(chan) \in Nat /\ received \in Nat /\ sent \in Nat /\ DOMAIN chan = 1 .. Len(chan)
      /\ DOMAIN queue = 1 .. Len(queue)
      /\ \A i \in 1 .. Len(queue) : queue[i].ordinal \in Nat
      /\ \A d \in Callers : calls[d] \in Nat
      /\ \A d \in Pending : d.after \in Nat
  BY ONLY <1>0, TurnTypes
<1>3. calls[c] > 0
  BY <1>1, <1>2 DEF Base, CallsMade
<1>4. \A d \in Callers : d # c => pc[d] = "free"
  BY <1>3, Alone
<1>a. mark \in [Callers -> Nat]
  BY <1>0 DEF TypeOK
<1>5. Pushed = {} /\ Pushed' = {[after |-> sent, cmd |-> arg[c]]}
  <2>1. {d \in Callers : pc[d] = "push"} = {}
    BY <1>1, <1>4
  <2>2. {d \in Callers : pc'[d] = "push"} = {c}
    BY <1>1, <1>2, <1>4
  <2>3. mark'[c] = sent /\ arg'[c] = arg[c]
    BY <1>1, <1>a
  <2> QED
    BY ONLY <2>1, <2>2, <2>3 DEF Pushed
<1>6. received + Len(chan) <= sent
  BY <1>1, <1>4 DEF Turns
<1>7. \A i \in DOMAIN queue : queue[i].ordinal <= sent
  <2>1. \A i \in DOMAIN queue : queue[i].ordinal <= IF queue[i].channel THEN received ELSE sent
    BY DEF Turns
  <2> QED
    BY ONLY <2>1, <1>2, <1>6
<1>b. PICK p : p = [after |-> sent, cmd |-> arg[c]]
  OBVIOUS
<1>8. p = [after |-> sent, cmd |-> arg[c]] /\ p.after = sent
  BY <1>b
<1>9. Pending' = Pending \cup {p}
  BY <1>1, <1>5, <1>8 DEF Pending
<1>10. ASSUME NEW d \in Pending' PROVE PutBehind(d)'
  <2>1. CASE d \in Pending
    <3>1. PutBehind(d)
      BY <2>1 DEF Turns
    <3> QED
      BY ONLY <3>1, <1>1 DEF PutBehind
  <2>2. CASE d = p
    <3>1. \A i \in DOMAIN queue : ~(queue[i].ordinal > sent)
      BY ONLY <1>7, <1>2
    <3>2. \A k \in DOMAIN chan : received + k <= sent
      BY ONLY <1>2, <1>6
    <3> QED
      BY ONLY <2>2, <3>1, <3>2, <1>7, <1>8, <1>1, <1>2 DEF PutBehind
  <2> QED
    BY <2>1, <2>2, <1>9, <1>10
<1>11. \A d \in ToSet(taking) \cup ToSet(deferred) : d.after <= sent
  BY DEF Turns, Pending, PutBehind
<1>12. /\ \A d \in ToSet(taking)', e \in (ToSet(deferred) \cup Pushed)' : d.after <= e.after
       /\ \A d \in ToSet(deferred)', e \in Pushed' : d.after <= e.after
  <2>1. \A d \in ToSet(taking), e \in ToSet(deferred) : d.after <= e.after
    BY DEF Turns
  <2>2. ToSet(taking)' = ToSet(taking) /\ ToSet(deferred)' = ToSet(deferred) /\ Pushed' = {p}
    BY <1>1, <1>5, <1>8
  <2> QED
    BY ONLY <2>1, <2>2, <1>8, <1>11
<1>13. (\A d \in Callers : pc'[d] # "count") => received' + Len(chan') <= sent'
  BY <1>1, <1>6
<1>14. /\ received' + Len(chan') <= sent' + 1
       /\ \A i \in DOMAIN queue' : queue'[i].ordinal <= IF queue'[i].channel THEN received' ELSE sent'
       /\ \A i, j \in DOMAIN taking' : i < j => taking'[i].after <= taking'[j].after
       /\ \A i, j \in DOMAIN deferred' : i < j => deferred'[i].after <= deferred'[j].after
  BY <1>1 DEF Turns
<1> QED
  BY ONLY <1>10, <1>12, <1>13, <1>14 DEF Turns

LEMMA DeferPushTurns ==
    ASSUME Base, Turns, TypeOK', NEW c \in Callers, DeferPush(c)
    PROVE  Turns'
<1>0. TypeOK
  BY DEF Base
<1>1. /\ UNCHANGED <<chan, queue, received, sent, taking, calls, arg, mark>>
      /\ pc[c] = "push" /\ pc' = [pc EXCEPT ![c] = IF arg[c].kind = "turn" THEN "turn" ELSE "free"]
      /\ deferred' = Append(deferred, [after |-> mark[c], cmd |-> arg[c]])
  BY DEF DeferPush, engineVars, clockVars
<1> SUFFICES ASSUME OneCaller PROVE Turns'
  BY <1>1 DEF Turns, OneCaller
<1>2. /\ pc \in [Callers -> {"free", "count", "after", "push", "turn", "target", "wait"}]
      /\ \A d \in Callers : calls[d] \in Nat
      /\ deferred \in Seq(Deferrals) /\ DOMAIN deferred = 1 .. Len(deferred)
  BY ONLY <1>0, TurnTypes
<1>3. calls[c] > 0
  BY <1>1, <1>2 DEF Base, CallsMade
<1>4. \A d \in Callers : d # c => pc[d] = "free"
  BY <1>3, Alone
<1>5. PICK p \in Deferrals : p = [after |-> mark[c], cmd |-> arg[c]]
  BY <1>0 DEF TypeOK, Deferrals
<1>6. Pushed = {p} /\ Pushed' = {}
  <2>1. {d \in Callers : pc[d] = "push"} = {c}
    BY <1>1, <1>4
  <2>2. {d \in Callers : pc'[d] = "push"} = {}
    BY <1>1, <1>2, <1>4
  <2> QED
    BY ONLY <2>1, <2>2, <1>5 DEF Pushed
<1>7. deferred' = Append(deferred, p)
  BY <1>1, <1>5
<1>8. ToSet(deferred)' = ToSet(deferred) \cup {p}
  BY <1>2, <1>7, InAppend
<1>9. Pending' = Pending
  BY <1>1, <1>6, <1>8 DEF Pending
<1>10. ASSUME NEW d \in Pending' PROVE PutBehind(d)'
  <2>1. PutBehind(d)
    BY <1>9, <1>10 DEF Turns
  <2> QED
    BY ONLY <2>1, <1>1 DEF PutBehind
<1>11. \A d \in ToSet(taking) \cup ToSet(deferred) : d.after <= p.after
  BY <1>6 DEF Turns
<1>12. \A d \in ToSet(taking)', e \in (ToSet(deferred) \cup Pushed)' : d.after <= e.after
  <2>1. \A d \in ToSet(taking), e \in ToSet(deferred) : d.after <= e.after
    BY DEF Turns
  <2>2. ToSet(taking)' = ToSet(taking)
    BY <1>1
  <2> QED
    BY ONLY <2>1, <2>2, <1>6, <1>8, <1>11
<1>13. ASSUME NEW i \in DOMAIN deferred', NEW j \in DOMAIN deferred', i < j
       PROVE  deferred'[i].after <= deferred'[j].after
  <2>1. /\ DOMAIN deferred' = 1 .. Len(deferred) + 1 /\ Len(deferred) \in Nat
        /\ \A k \in 1 .. Len(deferred) : deferred'[k] = deferred[k] /\ deferred[k] \in ToSet(deferred)
        /\ deferred'[Len(deferred) + 1] = p
    <3>1. \A k \in 1 .. Len(deferred) : deferred[k] \in ToSet(deferred)
      BY <1>2, InSet
    <3> QED
      BY <3>1, <1>2, <1>7
  <2>2. i \in 1 .. Len(deferred)
    BY ONLY <2>1, <1>13
  <2>3. CASE j = Len(deferred) + 1
    BY ONLY <2>1, <2>2, <2>3, <1>11
  <2>4. CASE j # Len(deferred) + 1
    <3>1. j \in 1 .. Len(deferred)
      BY ONLY <2>1, <2>4, <1>13
    <3>2. \A a, b \in DOMAIN deferred : a < b => deferred[a].after <= deferred[b].after
      BY DEF Turns
    <3> QED
      BY ONLY <3>1, <3>2, <2>1, <2>2, <1>2, <1>13
  <2> QED
    BY <2>3, <2>4
<1>14. /\ received' + Len(chan') <= sent' + 1
       /\ \A i \in DOMAIN queue' : queue'[i].ordinal <= IF queue'[i].channel THEN received' ELSE sent'
       /\ \A i, j \in DOMAIN taking' : i < j => taking'[i].after <= taking'[j].after
  BY <1>1 DEF Turns
<1>15. received' + Len(chan') <= sent'
  BY <1>1, <1>4 DEF Turns
<1> QED
  BY ONLY <1>6, <1>10, <1>12, <1>13, <1>14, <1>15 DEF Turns

LEMMA DrainTurns ==
    ASSUME Base, Turns, TypeOK', DrainChannel
    PROVE  Turns'
<1>0. TypeOK
  BY DEF Base
<1>1. /\ UNCHANGED <<sent, taking, deferred, calls, arg, mark, pc>>
      /\ received' = received + Len(chan) /\ chan' = <<>>
  BY DEF DrainChannel, clockVars, callVars
<1> SUFFICES ASSUME OneCaller PROVE Turns'
  BY <1>1 DEF Turns, OneCaller
<1>2. /\ received \in Nat /\ sent \in Nat /\ Len(queue) \in Nat /\ Len(chan) \in Nat
      /\ DOMAIN queue = 1 .. Len(queue) /\ DOMAIN chan = 1 .. Len(chan)
      /\ \A i \in 1 .. Len(queue) : queue[i].ordinal \in Nat
      /\ \A d \in Pending : d.after \in Nat
  BY ONLY <1>0, TurnTypes
<1>3. /\ queue' \in Seq(Queued) /\ DOMAIN queue' = 1 .. Len(queue) + Len(chan)
      /\ \A i \in 1 .. Len(queue') :
            queue'[i] = IF i <= Len(queue) THEN queue[i]
                        ELSE [ordinal |-> received + (i - Len(queue)), channel |-> TRUE,
                              cmd |-> chan[i - Len(queue)]]
      /\ Len(queue') = Len(queue) + Len(chan)
  BY <1>0, Drains
<1>4. \A i \in 1 .. Len(queue) : i \in 1 .. Len(queue') /\ queue'[i] = queue[i]
  BY ONLY <1>2, <1>3
<1>5. \A i \in 1 .. Len(queue') : i > Len(queue) =>
          /\ queue'[i].ordinal = received + (i - Len(queue)) /\ queue'[i].channel = TRUE
          /\ queue'[i].cmd = chan[i - Len(queue)] /\ i - Len(queue) \in 1 .. Len(chan)
  <2> SUFFICES ASSUME NEW i \in 1 .. Len(queue'), i > Len(queue)
               PROVE  /\ queue'[i].ordinal = received + (i - Len(queue)) /\ queue'[i].channel = TRUE
                      /\ queue'[i].cmd = chan[i - Len(queue)] /\ i - Len(queue) \in 1 .. Len(chan)
    OBVIOUS
  <2>1. ~(i <= Len(queue)) /\ i - Len(queue) \in 1 .. Len(chan)
    BY <1>2, <1>3
  <2>2. queue'[i] = [ordinal |-> received + (i - Len(queue)), channel |-> TRUE, cmd |-> chan[i - Len(queue)]]
    BY ONLY <2>1, <1>3, i \in 1 .. Len(queue')
  <2> QED
    BY ONLY <2>1, <2>2
<1>6. \A i \in DOMAIN queue' : i \in 1 .. Len(queue) \/ (i \in 1 .. Len(queue') /\ i > Len(queue))
  BY ONLY <1>2, <1>3
<1>7. Pushed' = Pushed /\ Pending' = Pending
  BY <1>1 DEF Pushed, Pending
<1>8. \A i \in 1 .. Len(queue) : queue[i].ordinal <= IF queue[i].channel THEN received ELSE sent
  BY <1>2 DEF Turns
<1>9. \A i \in DOMAIN queue' : queue'[i].ordinal <= IF queue'[i].channel THEN received' ELSE sent'
  <2> TAKE i \in DOMAIN queue'
  <2>1. CASE i \in 1 .. Len(queue)
    BY ONLY <2>1, <1>1, <1>2, <1>4, <1>8
  <2>2. CASE i \in 1 .. Len(queue') /\ i > Len(queue)
    <3>1. received + (i - Len(queue)) <= received + Len(chan)
      BY ONLY <2>2, <1>2, <1>3
    <3> QED
      BY ONLY <2>2, <3>1, <1>1, <1>5
  <2> QED
    BY <2>1, <2>2, <1>6
<1>10. ASSUME NEW d \in Pending' PROVE PutBehind(d)'
  <2>1. PutBehind(d) /\ d.after \in Nat
    BY <1>2, <1>7, <1>10 DEF Turns
  <2>2. /\ d.after <= sent
        /\ \A i \in 1 .. Len(queue) :
            ~queue[i].channel \/ queue[i].cmd.n < d.cmd.n => queue[i].ordinal <= d.after
        /\ \A k \in 1 .. Len(chan) : chan[k].n < d.cmd.n => received + k <= d.after
        /\ \A i, j \in 1 .. Len(queue) :
            i < j /\ queue[i].ordinal > d.after => queue[j].ordinal > d.after
    BY ONLY <2>1, <1>2 DEF PutBehind
  <2>3. ASSUME NEW i \in DOMAIN queue', ~queue'[i].channel \/ queue'[i].cmd.n < d.cmd.n
        PROVE  queue'[i].ordinal <= d.after
    <3>1. CASE i \in 1 .. Len(queue)
      BY ONLY <3>1, <2>2, <2>3, <1>4
    <3>2. CASE i \in 1 .. Len(queue') /\ i > Len(queue)
      BY ONLY <3>2, <2>2, <2>3, <1>5
    <3> QED
      BY <3>1, <3>2, <1>6
  <2>4. ASSUME NEW i \in DOMAIN queue', NEW j \in DOMAIN queue', i < j, queue'[i].ordinal > d.after
        PROVE  queue'[j].ordinal > d.after
    <3>1. CASE j \in 1 .. Len(queue)
      <4>1. i \in 1 .. Len(queue)
        BY ONLY <3>1, <2>4, <1>3, <1>2
      <4> QED
        BY ONLY <3>1, <4>1, <2>2, <2>4, <1>4
    <3>2. CASE j \in 1 .. Len(queue') /\ j > Len(queue)
      <4>1. CASE i \in 1 .. Len(queue)
        <5>1. queue[i].channel
          BY ONLY <4>1, <2>1, <2>2, <2>4, <1>2, <1>4
        <5>2. queue[i].ordinal <= received /\ queue[i].ordinal > d.after /\ queue[i].ordinal \in Nat
          BY ONLY <4>1, <5>1, <2>4, <1>2, <1>4, <1>8
        <5>3. queue'[j].ordinal = received + (j - Len(queue))
          BY ONLY <3>2, <1>5
        <5> QED
          BY ONLY <5>2, <5>3, <3>2, <2>1, <1>2
      <4>2. CASE i \in 1 .. Len(queue') /\ i > Len(queue)
        <5>1. queue'[j].ordinal = received + (j - Len(queue)) /\ queue'[i].ordinal = received + (i - Len(queue))
          BY ONLY <3>2, <4>2, <1>5
        <5> QED
          BY ONLY <5>1, <3>2, <4>2, <2>1, <2>4, <1>2
      <4> QED
        BY <4>1, <4>2, <1>6
    <3> QED
      BY <3>1, <3>2, <1>6
  <2>5. DOMAIN chan' = {}
    BY <1>1
  <2> QED
    BY ONLY <2>2, <2>3, <2>4, <2>5, <1>1 DEF PutBehind
<1>11. Len(chan') = 0 /\ received' + Len(chan') = received + Len(chan)
  BY <1>1, <1>2
<1> QED
  BY <1>1, <1>7, <1>9, <1>10, <1>11 DEF Turns

LEMMA TakeTurns ==
    ASSUME Base, Turns, TypeOK', TakeDeferred
    PROVE  Turns'
<1>1. UNCHANGED <<chan, queue, received, sent, calls, arg, mark, pc>>
  BY DEF TakeDeferred, callVars
<1>2. (taking' = deferred /\ deferred' = <<>>) \/ (taking' = taking /\ deferred' = deferred)
  BY Zenon DEF TakeDeferred
<1> SUFFICES ASSUME OneCaller PROVE Turns'
  BY <1>1 DEF Turns, OneCaller
<1>3. Pushed' = Pushed
  BY <1>1 DEF Pushed
<1>4. Pending' \subseteq Pending
  BY <1>2, <1>3, NoneIn DEF Pending
<1>5. ASSUME NEW d \in Pending' PROVE PutBehind(d)'
  <2>1. PutBehind(d)
    BY <1>4, <1>5 DEF Turns
  <2> QED
    BY ONLY <2>1, <1>1 DEF PutBehind
<1>6. /\ \A i, j \in DOMAIN taking' : i < j => taking'[i].after <= taking'[j].after
      /\ \A i, j \in DOMAIN deferred' : i < j => deferred'[i].after <= deferred'[j].after
  BY <1>2 DEF Turns
<1>7. /\ \A d \in ToSet(taking)', e \in (ToSet(deferred) \cup Pushed)' : d.after <= e.after
      /\ \A d \in ToSet(deferred)', e \in Pushed' : d.after <= e.after
  <2>1. /\ \A d \in ToSet(taking), e \in ToSet(deferred) \cup Pushed : d.after <= e.after
        /\ \A d \in ToSet(deferred), e \in Pushed : d.after <= e.after
    BY DEF Turns
  <2>2. \/ ToSet(taking)' = ToSet(deferred) /\ ToSet(deferred)' = {}
        \/ ToSet(taking)' = ToSet(taking) /\ ToSet(deferred)' = ToSet(deferred)
    BY <1>2, NoneIn
  <2> QED
    BY ONLY <2>1, <2>2, <1>3
<1>8. /\ received' + Len(chan') <= sent' + 1
      /\ (\A c \in Callers : pc'[c] # "count") => received' + Len(chan') <= sent'
      /\ \A i \in DOMAIN queue' : queue'[i].ordinal <= IF queue'[i].channel THEN received' ELSE sent'
  BY <1>1 DEF Turns
<1> QED
  BY ONLY <1>5, <1>6, <1>7, <1>8 DEF Turns

\* The entry put in is behind those it follows.
LEMMA InsertTurns ==
    ASSUME Base, Turns, TypeOK', InsertDeferred, OneCaller, NEW d, d = Head(taking),
           NEW at, PutAt(at, queue, queue', d)
    PROVE  Turns' /\ \A i \in DOMAIN queue : queue[i].cmd.n < d.cmd.n => i <= at
<1>0. TypeOK
  BY DEF Base
<1>1. /\ UNCHANGED <<chan, received, sent, deferred, calls, arg, mark, pc>>
      /\ taking' = Tail(taking) /\ taking # <<>>
  BY DEF InsertDeferred, clockVars, callVars
<1>2. /\ received \in Nat /\ sent \in Nat /\ Len(queue) \in Nat /\ Len(chan) \in Nat
      /\ DOMAIN queue = 1 .. Len(queue)
      /\ \A i \in 1 .. Len(queue) : queue[i].ordinal \in Nat
      /\ taking \in Seq(Deferrals) /\ DOMAIN taking = 1 .. Len(taking)
      /\ \A e \in Pending : e.after \in Nat
  BY ONLY <1>0, TurnTypes
<1>3. ToSet(taking) = {d} \cup ToSet(taking')
  BY <1>1, <1>2, InTail
<1>4. Pushed' = Pushed /\ Pending' \subseteq Pending /\ d \in Pending /\ Pending' = ToSet(taking') \cup ToSet(deferred) \cup Pushed
  BY <1>1, <1>3 DEF Pushed, Pending
<1>5. /\ at \in 0 .. Len(queue)
      /\ at > 0 => queue[at].ordinal <= d.after
      /\ at < Len(queue) => queue[at + 1].ordinal > d.after
      /\ queue' \in Seq(Queued) /\ Len(queue') = Len(queue) + 1 /\ DOMAIN queue' = 1 .. Len(queue) + 1
      /\ \A k \in 1 .. Len(queue) + 1 :
            queue'[k] = IF k <= at THEN queue[k]
                        ELSE IF k = at + 1 THEN [ordinal |-> d.after, channel |-> FALSE, cmd |-> d.cmd]
                        ELSE queue[k - 1]
  BY DEF PutAt
<1>6. /\ d.after \in Nat /\ d.after <= sent
      /\ \A i \in 1 .. Len(queue) :
            ~queue[i].channel \/ queue[i].cmd.n < d.cmd.n => queue[i].ordinal <= d.after
      /\ \A i, j \in 1 .. Len(queue) :
            i < j /\ queue[i].ordinal > d.after => queue[j].ordinal > d.after
  BY <1>2, <1>4 DEF Turns, PutBehind
<1>7. \A i \in 1 .. Len(queue) : i > at => queue[i].ordinal > d.after
  <2> SUFFICES ASSUME NEW i \in 1 .. Len(queue), i > at PROVE queue[i].ordinal > d.after
    OBVIOUS
  <2>1. at < Len(queue) /\ at + 1 \in 1 .. Len(queue) /\ queue[at + 1].ordinal > d.after
    BY <1>2, <1>5
  <2>2. i = at + 1 \/ at + 1 < i
    BY <1>2, <1>5
  <2> QED
    BY ONLY <2>1, <2>2, <1>6, i \in 1 .. Len(queue)
<1>8. \A i \in DOMAIN queue : queue[i].cmd.n < d.cmd.n => i <= at
  <2> SUFFICES ASSUME NEW i \in DOMAIN queue, queue[i].cmd.n < d.cmd.n PROVE i <= at
    OBVIOUS
  <2>1. i \in 1 .. Len(queue) /\ i \in Int /\ at \in Int
    BY <1>2, <1>5
  <2>2. queue[i].ordinal <= d.after /\ queue[i].ordinal \in Nat /\ d.after \in Nat
    BY <2>1, <1>2, <1>6
  <2>3. i > at => queue[i].ordinal > d.after
    BY <2>1, <1>7
  <2> QED
    BY ONLY <2>1, <2>2, <2>3
<1>9. \A e \in Pending' : d.after <= e.after
  <2>0. Len(taking) \in Nat /\ Len(taking) > 0 /\ taking[1] = d /\ taking' = Tail(taking)
    BY <1>1, <1>2
  <2>1. PICK n \in Nat : n = Len(taking) /\ taking' = Tail(taking) /\ n > 0 /\ taking[1] = d
    BY ONLY <2>0
  <2>2. Len(taking') = n - 1 /\ taking' \in Seq(Deferrals) /\ \A k \in 1 .. n - 1 : taking'[k] = taking[k + 1]
    BY <1>2, <2>1
  <2>3. \A i, j \in 1 .. n : i < j => taking[i].after <= taking[j].after
    BY <1>2, <2>1 DEF Turns
  <2>4. ASSUME NEW e \in ToSet(taking') PROVE d.after <= e.after
    <3>1. PICK k \in 1 .. n - 1 : taking'[k] = e
      BY <2>2, InSet
    <3>2. k + 1 \in 1 .. n /\ 1 \in 1 .. n /\ 1 < k + 1 /\ taking[k + 1] = e
      BY ONLY <3>1, <2>1, <2>2
    <3> QED
      BY ONLY <3>2, <2>1, <2>3
  <2>5. \A e \in ToSet(deferred) \cup Pushed : d.after <= e.after
    BY <1>3 DEF Turns
  <2> QED
    BY <2>4, <2>5, <1>4
<1>10. \A k \in DOMAIN queue' : \/ k = at + 1 /\ queue'[k].ordinal = d.after /\ ~queue'[k].channel
                                \/ k <= at /\ k \in 1 .. Len(queue) /\ queue'[k] = queue[k]
                                \/ k > at + 1 /\ k - 1 \in 1 .. Len(queue) /\ queue'[k] = queue[k - 1]
  <2> TAKE k \in DOMAIN queue'
  <2>1. CASE k = at + 1
    <3>1. ~(k <= at) /\ k \in 1 .. Len(queue) + 1
      BY <2>1, <1>5
    <3>2. queue'[k] = [ordinal |-> d.after, channel |-> FALSE, cmd |-> d.cmd]
      BY ONLY <2>1, <3>1, <1>5
    <3> QED
      BY ONLY <2>1, <3>2
  <2>2. CASE k <= at
    BY <2>2, <1>5, <1>2
  <2>3. CASE k > at + 1
    <3>1. ~(k <= at) /\ k # at + 1 /\ k \in 1 .. Len(queue) + 1 /\ k - 1 \in 1 .. Len(queue)
      BY <2>3, <1>5, <1>2
    <3> QED
      BY ONLY <2>3, <3>1, <1>5
  <2> QED
    BY <2>1, <2>2, <2>3, <1>5, <1>2
<1>11. \A k \in DOMAIN queue' : queue'[k].ordinal <= IF queue'[k].channel THEN received' ELSE sent'
  <2>1. \A i \in 1 .. Len(queue) : queue[i].ordinal <= IF queue[i].channel THEN received ELSE sent
    BY <1>2 DEF Turns
  <2>2. received' = received /\ sent' = sent
    BY <1>1
  <2> QED
    BY ONLY <2>1, <2>2, <1>6, <1>10
<1>12. ASSUME NEW e \in Pending' PROVE PutBehind(e)'
  <2>1. PutBehind(e) /\ e.after \in Nat /\ d.after <= e.after
    BY <1>2, <1>4, <1>9, <1>12 DEF Turns
  <2>2. /\ \A i \in 1 .. Len(queue) :
            ~queue[i].channel \/ queue[i].cmd.n < e.cmd.n => queue[i].ordinal <= e.after
        /\ \A i, j \in 1 .. Len(queue) :
            i < j /\ queue[i].ordinal > e.after => queue[j].ordinal > e.after
    BY ONLY <2>1, <1>2 DEF PutBehind
  <2>3. \A k \in DOMAIN queue' : ~queue'[k].channel \/ queue'[k].cmd.n < e.cmd.n => queue'[k].ordinal <= e.after
    BY ONLY <2>1, <2>2, <1>10
  \* Up to `at' nothing comes behind e.
  <2>4. \A i \in 1 .. Len(queue) : i <= at => queue[i].ordinal <= e.after
    <3> SUFFICES ASSUME NEW i \in 1 .. Len(queue), i <= at PROVE queue[i].ordinal <= e.after
      OBVIOUS
    <3>1. at \in 1 .. Len(queue) /\ at > 0 /\ queue[at].ordinal <= d.after /\ queue[at].ordinal \in Nat
      BY <1>2, <1>5
    <3>2. queue[at].ordinal <= e.after
      BY ONLY <3>1, <2>1, <1>6
    <3>3. CASE i = at
      BY <3>2, <3>3
    <3>4. CASE i < at
      <4>1. ~(queue[i].ordinal > e.after)
        <5>1. ~(queue[at].ordinal > e.after)
          BY ONLY <3>1, <3>2, <2>1
        <5> QED
          BY ONLY <5>1, <3>1, <3>4, <2>2, i \in 1 .. Len(queue)
      <4> QED
        BY ONLY <4>1, <2>1, <1>2, i \in 1 .. Len(queue)
    <3> QED
      BY <3>1, <3>3, <3>4
  <2>5. ASSUME NEW i \in DOMAIN queue', NEW j \in DOMAIN queue', i < j, queue'[i].ordinal > e.after
        PROVE  queue'[j].ordinal > e.after
    <3>1. ~(i = at + 1 /\ queue'[i].ordinal = d.after)
      BY ONLY <2>1, <2>5, <1>6
    <3>2. ~(i <= at /\ i \in 1 .. Len(queue) /\ queue'[i] = queue[i])
      <4>1. \A k \in 1 .. Len(queue) : k <= at => ~(queue[k].ordinal > e.after)
        BY ONLY <2>4, <2>1, <1>2
      <4> QED
        BY ONLY <4>1, <2>5
    <3>3. i > at + 1 /\ i - 1 \in 1 .. Len(queue) /\ queue'[i] = queue[i - 1]
      BY ONLY <3>1, <3>2, <1>10, <2>5
    <3>4. j > at + 1 /\ j - 1 \in 1 .. Len(queue) /\ queue'[j] = queue[j - 1]
      <4>1. ~(j <= at) /\ j # at + 1
        BY ONLY <3>3, <2>5, <1>5
      <4> QED
        BY ONLY <4>1, <1>10, <2>5
    <3>5. i - 1 < j - 1
      BY ONLY <2>5, <1>5
    <3> QED
      BY ONLY <3>3, <3>4, <3>5, <2>2, <2>5
  <2>6. e.after <= sent' /\ \A k \in DOMAIN chan' : chan'[k].n < e.cmd.n => received' + k <= e.after
    BY ONLY <2>1, <1>1 DEF PutBehind
  <2> QED
    BY ONLY <2>3, <2>5, <2>6 DEF PutBehind
<1>13. /\ \A i, j \in DOMAIN taking' : i < j => taking'[i].after <= taking'[j].after
  <2>0. Len(taking) \in Nat /\ Len(taking) > 0
    BY ONLY <1>1, <1>2
  <2>1. PICK n \in Nat : n = Len(taking) /\ n > 0
    BY ONLY <2>0
  <2>2. DOMAIN taking' = 1 .. n - 1 /\ \A k \in 1 .. n - 1 : taking'[k] = taking[k + 1]
    BY <1>1, <1>2, <2>1
  <2>3. \A i, j \in 1 .. n : i < j => taking[i].after <= taking[j].after
    BY <1>2, <2>1 DEF Turns
  <2> SUFFICES ASSUME NEW i \in 1 .. n - 1, NEW j \in 1 .. n - 1, i < j
               PROVE  taking'[i].after <= taking'[j].after
    BY <2>2
  <2>4. i + 1 \in 1 .. n /\ j + 1 \in 1 .. n /\ i + 1 < j + 1
    BY <2>1
  <2> QED
    BY ONLY <2>2, <2>3, <2>4, i \in 1 .. n - 1, j \in 1 .. n - 1
<1>14. /\ \A x \in ToSet(taking)', y \in (ToSet(deferred) \cup Pushed)' : x.after <= y.after
       /\ \A x \in ToSet(deferred)', y \in Pushed' : x.after <= y.after
       /\ \A i, j \in DOMAIN deferred' : i < j => deferred'[i].after <= deferred'[j].after
  BY <1>1, <1>3, <1>4 DEF Turns
<1>15. /\ received' + Len(chan') <= sent' + 1
       /\ (\A c \in Callers : pc'[c] # "count") => received' + Len(chan') <= sent'
  BY <1>1 DEF Turns
<1>16. Turns'
  BY ONLY <1>11, <1>12, <1>13, <1>14, <1>15 DEF Turns
<1> QED
  BY <1>8, <1>16

LEMMA HandleTurns ==
    ASSUME Base, Turns, TypeOK', NEW budget, NEW m, NEW taken, NEW started, NEW parks,
           HandleStep(budget, m, taken, started, parks)
    PROVE  Turns'
<1>0. TypeOK
  BY DEF Base
<1>1. /\ UNCHANGED <<chan, sent, deferred, received, taking, arg, mark, calls>>
      /\ pc' = [c \in Callers |-> IF pc[c] = "turn" /\ arg[c] \in ToSet(Commanded(taken))
                                  THEN "free" ELSE pc[c]]
  BY DEF HandleStep
<1> SUFFICES ASSUME OneCaller PROVE Turns'
  BY <1>1 DEF Turns, OneCaller
<1>2. DOMAIN queue = 1 .. Len(queue) /\ Len(queue) \in Nat
  BY ONLY <1>0, TurnTypes
<1>3. \A c \in Callers : (pc'[c] = "push" <=> pc[c] = "push") /\ (pc'[c] = "count" <=> pc[c] = "count")
  BY <1>1
<1>4. Pushed' = Pushed /\ Pending' = Pending
  <2>1. {c \in Callers : pc'[c] = "push"} = {c \in Callers : pc[c] = "push"}
    BY <1>3
  <2> QED
    BY <2>1, <1>1 DEF Pushed, Pending
<1>5. PICK f : LeftOf(m, f, queue')
  BY DEF HandleStep
<1>6. /\ queue' \in Seq(Queued) /\ DOMAIN queue' = 1 .. Len(queue')
      /\ f \in [1 .. Len(queue') -> 1 .. Len(queue)]
      /\ \A k \in 1 .. Len(queue') : queue'[k] = queue[f[k]]
      /\ \A k, l \in 1 .. Len(queue') : k < l => f[k] < f[l]
  BY <1>5 DEF LeftOf
<1>7. \A i \in DOMAIN queue' : queue'[i].ordinal <= IF queue'[i].channel THEN received' ELSE sent'
  <2>1. \A i \in DOMAIN queue : queue[i].ordinal <= IF queue[i].channel THEN received ELSE sent
    BY DEF Turns
  <2> TAKE i \in DOMAIN queue'
  <2>2. f[i] \in DOMAIN queue /\ queue'[i] = queue[f[i]]
    BY ONLY <1>2, <1>6, i \in DOMAIN queue'
  <2> QED
    BY ONLY <2>1, <2>2, <1>1
<1>8. ASSUME NEW d \in Pending' PROVE PutBehind(d)'
  <2>1. PutBehind(d)
    BY <1>4, <1>8 DEF Turns
  <2>2. /\ \A i \in DOMAIN queue :
            ~queue[i].channel \/ queue[i].cmd.n < d.cmd.n => queue[i].ordinal <= d.after
        /\ \A i, j \in DOMAIN queue :
            i < j /\ queue[i].ordinal > d.after => queue[j].ordinal > d.after
    BY <2>1 DEF PutBehind
  <2>3. ASSUME NEW i \in DOMAIN queue', ~queue'[i].channel \/ queue'[i].cmd.n < d.cmd.n
        PROVE  queue'[i].ordinal <= d.after
    <3>1. f[i] \in DOMAIN queue /\ queue'[i] = queue[f[i]]
      BY ONLY <1>2, <1>6, i \in DOMAIN queue'
    <3> QED
      BY ONLY <3>1, <2>2, <2>3
  <2>4. ASSUME NEW i \in DOMAIN queue', NEW j \in DOMAIN queue', i < j, queue'[i].ordinal > d.after
        PROVE  queue'[j].ordinal > d.after
    <3>1. /\ f[i] \in DOMAIN queue /\ queue'[i] = queue[f[i]] /\ f[j] \in DOMAIN queue
          /\ queue'[j] = queue[f[j]] /\ f[i] < f[j]
      BY ONLY <1>2, <1>6, <2>4
    <3> QED
      BY ONLY <3>1, <2>2, <2>4
  <2>5. d.after <= sent' /\ \A k \in DOMAIN chan' : chan'[k].n < d.cmd.n => received' + k <= d.after
    BY ONLY <2>1, <1>1 DEF PutBehind
  <2> QED
    BY ONLY <2>3, <2>4, <2>5 DEF PutBehind
<1>9. (\A c \in Callers : pc'[c] # "count") => received' + Len(chan') <= sent'
  <2>1. (\A c \in Callers : pc'[c] # "count") => \A c \in Callers : pc[c] # "count"
    BY <1>3
  <2> QED
    BY <2>1, <1>1 DEF Turns
<1> QED
  BY <1>1, <1>4, <1>7, <1>8, <1>9 DEF Turns

LEMMA TurnsKept ==
    ASSUME CommandQueueAssumption, Base, Turns, TypeOK', [Next]_vars
    PROVE  Turns'
<1> USE DEF clockVars, engineVars, callVars
<1>0. TypeOK
  BY DEF Base
<1>a. /\ pc \in [Callers -> {"free", "count", "after", "push", "turn", "target", "wait"}]
      /\ mark \in [Callers -> Nat] /\ \A c \in Callers : calls[c] \in Nat
  BY <1>0 DEF TypeOK
<1>1. ASSUME NEW c \in Callers, Send(c)
      PROVE  Turns'
  BY <1>1, SendTurns
<1>2. ASSUME NEW c \in Callers, Local(c)
      PROVE  Turns'
  <2>1. PICK kind \in KindsOf[c] \cap LocalKinds :
            /\ Call(c, kind)
            /\ pc' = [pc EXCEPT ![c] = IF paced /\ running THEN "after"
                                       ELSE IF kind = "error" THEN "target" ELSE "free"]
            /\ UNCHANGED <<chan, clockVars, engineVars, mark, answers, late>>
    BY <1>2 DEF Local
  <2>2. /\ pc[c] = "free" /\ calls'[c] = calls[c] + 1
        /\ \A d \in Callers \ {c} : calls'[d] = calls[d] /\ arg'[d] = arg[d]
    BY <1>0, <2>1, Calls
  <2>3. pc'[c] \notin {"push", "count"} /\ \A d \in Callers \ {c} : pc'[d] = pc[d]
    BY <2>1, <1>a
  <2>4. Pushed' \subseteq Pushed
    BY <2>1, <2>2, <2>3 DEF Pushed
  <2>5. TurnStep
    BY <2>1, <2>2, <2>3, <2>4, <1>a DEF TurnStep
  <2> QED
    BY <2>5, TurnByStep
<1>3. ASSUME NEW c \in Callers, CallerStep(c)
      PROVE  Turns'
  <2>1. CASE NoteSent(c)
    BY <2>1, NoteSentTurns
  <2>2. CASE DeferAfter(c)
    BY <2>2, DeferAfterTurns
  <2>3. CASE DeferPush(c)
    BY <2>3, DeferPushTurns
  <2>4. CASE WaitTarget(c)
    <3>1. Pushed' \subseteq Pushed
      BY <2>4, <1>a DEF WaitTarget, Pushed
    <3>2. TurnStep
      BY <2>4, <3>1, <1>a DEF WaitTarget, TurnStep
    <3> QED
      BY <3>2, TurnByStep
  <2>5. CASE WaitDone(c)
    <3>1. Pushed' \subseteq Pushed
      BY <2>5, <1>a DEF WaitDone, Pushed
    <3>2. TurnStep
      BY <2>5, <3>1, <1>a DEF WaitDone, TurnStep
    <3> QED
      BY <3>2, TurnByStep
  <2>6. CASE WaitExpires(c)
    <3>1. Pushed' \subseteq Pushed
      BY <2>6, <1>a DEF WaitExpires, Pushed
    <3>2. TurnStep
      BY <2>6, <3>1, <1>a DEF WaitExpires, TurnStep
    <3> QED
      BY <3>2, TurnByStep
  <2>7. CASE TurnExpires(c)
    <3>1. Pushed' \subseteq Pushed
      BY <2>7, <1>a DEF TurnExpires, Pushed
    <3>2. TurnStep
      BY <2>7, <3>1, <1>a DEF TurnExpires, TurnStep
    <3> QED
      BY <3>2, TurnByStep
  <2> QED
    BY <1>3, <2>1, <2>2, <2>3, <2>4, <2>5, <2>6, <2>7 DEF CallerStep
<1>4. CASE DrainChannel
  BY <1>4, DrainTurns
<1>5. CASE TakeDeferred
  BY <1>5, TakeTurns
<1>6. CASE InsertDeferred
  <2>1. OneCaller' => OneCaller
    BY <1>6 DEF InsertDeferred, OneCaller
  <2>2. CASE OneCaller
    <3>1. PICK d : d = Head(taking)
      OBVIOUS
    <3>2. PICK at : PutAt(at, queue, queue', d)
      BY <1>0, <1>6, <3>1, Puts
    <3> QED
      BY <1>6, <2>2, <3>1, <3>2, InsertTurns
  <2>3. CASE ~OneCaller
    BY <2>1, <2>3 DEF Turns
  <2> QED
    BY <2>2, <2>3
<1>7. ASSUME NEW budget, Handle(budget)
      PROVE  Turns'
  BY <1>0, <1>7, Handles, HandleTurns
<1>8. CASE LookupAnswered
  <2>1. TurnStep
    BY <1>8, <1>a DEF LookupAnswered, TurnStep, Pushed
  <2> QED
    BY <2>1, TurnByStep
<1>b. CASE DefinitionCame
  <2>1. TurnStep
    BY <1>b, <1>a DEF DefinitionCame, TurnStep, Pushed
  <2> QED
    BY <2>1, TurnByStep
<1>9. CASE HoldLimit
  <2>1. TurnStep
    BY <1>9, <1>a DEF HoldLimit, TurnStep, Pushed
  <2> QED
    BY <2>1, TurnByStep
<1>10. CASE StopRunning
  <2>1. TurnStep
    BY <1>10, <1>a DEF StopRunning, TurnStep, Pushed
  <2> QED
    BY <2>1, TurnByStep
<1>11. CASE EndRun
  <2>1. Pushed' \subseteq Pushed
    BY <1>11, <1>a DEF EndRun, Pushed
  <2>2. TurnStep
    BY <1>11, <2>1, <1>a DEF EndRun, TurnStep
  <2> QED
    BY <2>2, TurnByStep
<1>12. CASE UNCHANGED vars
  <2>1. TurnStep
    BY <1>12, <1>a DEF vars, TurnStep, Pushed
  <2> QED
    BY <2>1, TurnByStep
<1> QED
  BY ONLY [Next]_vars, <1>1, <1>2, <1>3, <1>4, <1>5, <1>6, <1>7, <1>8, <1>9, <1>10, <1>11, <1>12, <1>b
     DEF Next, EngineStep

\* No step but InsertDeferred puts an answer of the client's own in the queue,
\* and that one puts it behind those made before it.
NewBehind ==
    \A j \in DOMAIN queue' :
        ~queue'[j].channel /\ (\A i \in DOMAIN queue : queue[i].cmd # queue'[j].cmd) =>
            \A i \in DOMAIN queue' :
                queue'[i].cmd.by = queue'[j].cmd.by /\ queue'[i].cmd.n < queue'[j].cmd.n => i < j

LEMMA InsertBehind ==
    ASSUME Base, Turns, TypeOK', InsertDeferred, OneCaller
    PROVE  NewBehind
<1>0. TypeOK
  BY DEF Base
<1>1. PICK d : d = Head(taking)
  OBVIOUS
<1>2. PICK at : PutAt(at, queue, queue', d)
  BY <1>0, <1>1, Puts
<1>3. \A i \in DOMAIN queue : queue[i].cmd.n < d.cmd.n => i <= at
  BY <1>1, <1>2, InsertTurns
<1>4. /\ Len(queue) \in Nat /\ DOMAIN queue = 1 .. Len(queue)
      /\ \A i \in 1 .. Len(queue) : queue[i].cmd.n \in Nat
  BY <1>0, TurnTypes
<1>5. /\ at \in 0 .. Len(queue) /\ DOMAIN queue' = 1 .. Len(queue) + 1
      /\ \A k \in 1 .. Len(queue) + 1 :
            queue'[k] = IF k <= at THEN queue[k]
                        ELSE IF k = at + 1 THEN [ordinal |-> d.after, channel |-> FALSE, cmd |-> d.cmd]
                        ELSE queue[k - 1]
  BY <1>2 DEF PutAt
<1>6. ASSUME NEW k \in DOMAIN queue'
      PROVE  \/ k = at + 1 /\ queue'[k].cmd = d.cmd
             \/ k <= at /\ k \in DOMAIN queue /\ queue'[k] = queue[k]
             \/ k > at + 1 /\ k - 1 \in DOMAIN queue /\ queue'[k] = queue[k - 1]
  <2>1. k \in 1 .. Len(queue) + 1 /\ k \in Int /\ at \in Int
    BY <1>4, <1>5
  <2>2. CASE k = at + 1
    <3>1. ~(k <= at)
      BY ONLY <2>1, <2>2
    <3>2. queue'[k] = [ordinal |-> d.after, channel |-> FALSE, cmd |-> d.cmd]
      BY ONLY <2>1, <2>2, <3>1, <1>5
    <3> QED
      BY ONLY <2>2, <3>2
  <2>3. CASE k <= at
    BY <2>1, <2>3, <1>4, <1>5
  <2>4. CASE k > at + 1
    <3>1. ~(k <= at) /\ k # at + 1 /\ k - 1 \in 1 .. Len(queue)
      BY ONLY <2>1, <2>4, <1>4, <1>5
    <3> QED
      BY ONLY <2>1, <2>4, <3>1, <1>4, <1>5
  <2> QED
    BY ONLY <2>1, <2>2, <2>3, <2>4
<1>7. d.cmd.n \in Nat
  <2>1. taking # <<>> /\ taking \in Seq(Deferrals)
    BY <1>0 DEF InsertDeferred, TypeOK
  <2>2. d \in Deferrals
    BY <1>1, <2>1
  <2> QED
    BY <2>2 DEF Deferrals, Commands
<1> SUFFICES ASSUME NEW j \in DOMAIN queue', \A i \in DOMAIN queue : queue[i].cmd # queue'[j].cmd,
                    NEW i \in DOMAIN queue', queue'[i].cmd.n < queue'[j].cmd.n
             PROVE  i < j
  BY DEF NewBehind
<1>8. j = at + 1 /\ queue'[j].cmd = d.cmd
  BY <1>6
<1>9. ~(i = at + 1 /\ queue'[i].cmd = d.cmd)
  BY ONLY <1>7, <1>8, queue'[i].cmd.n < queue'[j].cmd.n
<1>10. ~(i > at + 1 /\ i - 1 \in DOMAIN queue /\ queue'[i] = queue[i - 1])
  <2> SUFFICES ASSUME i > at + 1, i - 1 \in DOMAIN queue, queue'[i] = queue[i - 1] PROVE FALSE
    OBVIOUS
  <2>1. queue[i - 1].cmd.n < d.cmd.n
    BY <1>8
  <2>2. i - 1 <= at
    BY <2>1, <1>3
  <2> QED
    BY <2>2, <1>4, <1>5
<1>11. i <= at
  BY ONLY <1>6, <1>9, <1>10, i \in DOMAIN queue'
<1> QED
  BY ONLY <1>8, <1>11, <1>4, <1>5, i \in DOMAIN queue'

LEMMA OtherBehind ==
    ASSUME TypeOK, TypeOK', [Next]_vars, ~InsertDeferred
    PROVE  NewBehind
<1> USE DEF clockVars, engineVars, callVars
<1>1. SUFFICES \A j \in DOMAIN queue' :
                  queue'[j].channel \/ \E i \in DOMAIN queue : queue[i].cmd = queue'[j].cmd
  BY <1>1 DEF NewBehind
<1>2. CASE queue' = queue
  BY <1>2
<1>3. CASE DrainChannel
  <2>1. /\ queue' \in Seq(Queued) /\ queue \in Seq(Queued)
        /\ \A i \in 1 .. Len(queue') :
            queue'[i] = IF i <= Len(queue) THEN queue[i]
                        ELSE [ordinal |-> received + (i - Len(queue)), channel |-> TRUE,
                              cmd |-> chan[i - Len(queue)]]
    BY <1>3, Drains DEF TypeOK
  <2>2. /\ DOMAIN queue' = 1 .. Len(queue') /\ DOMAIN queue = 1 .. Len(queue) /\ Len(queue) \in Nat
        /\ Len(queue') \in Nat
    BY ONLY <2>1
  <2> TAKE j \in DOMAIN queue'
  <2>3. CASE j <= Len(queue)
    <3>1. j \in DOMAIN queue /\ queue'[j] = queue[j]
      BY ONLY <2>1, <2>2, <2>3, j \in DOMAIN queue'
    <3> QED
      BY <3>1
  <2>4. CASE ~(j <= Len(queue))
    BY <2>1, <2>2, <2>4
  <2> QED
    BY <2>3, <2>4
<1>4. ASSUME NEW budget, Handle(budget)
      PROVE  \A j \in DOMAIN queue' : \E i \in DOMAIN queue : queue[i].cmd = queue'[j].cmd
  <2>1. PICK m, taken, started, parks : HandleStep(budget, m, taken, started, parks)
    BY <1>4, Handles
  <2>2. PICK f : LeftOf(m, f, queue')
    BY <2>1 DEF HandleStep
  <2>3. /\ f \in [1 .. Len(queue') -> 1 .. Len(queue)] /\ queue' \in Seq(Queued)
        /\ \A k \in 1 .. Len(queue') : queue'[k] = queue[f[k]]
    BY <2>2 DEF LeftOf
  <2>4. DOMAIN queue' = 1 .. Len(queue') /\ DOMAIN queue = 1 .. Len(queue)
    BY <2>3 DEF TypeOK
  <2> QED
    BY ONLY <2>3, <2>4
<1>5. ASSUME NEW c \in Callers, Send(c) \/ Local(c) \/ CallerStep(c)
      PROVE  queue' = queue
  BY <1>5 DEF Send, Local, CallerStep, NoteSent, DeferAfter, DeferPush, WaitTarget, WaitDone, WaitExpires,
              TurnExpires
<1>6. ASSUME TakeDeferred \/ StopRunning \/ EndRun \/ LookupAnswered \/ DefinitionCame \/ HoldLimit
               \/ UNCHANGED vars
      PROVE  queue' = queue
  BY <1>6 DEF TakeDeferred, StopRunning, EndRun, LookupAnswered, DefinitionCame, HoldLimit, vars
<1> QED
  BY <1>2, <1>3, <1>4, <1>5, <1>6 DEF Next, EngineStep

-----------------------------------------------------------------------------
(***************************************************************************)
(* The theorems.                                                           *)
(***************************************************************************)
LEMMA InvStarts ==
    ASSUME CommandQueueAssumption, Init
    PROVE  Inv
<1>1. Base
  BY BaseStarts
<1>2. /\ chan = <<>> /\ queue = <<>> /\ resolved = <<>> /\ answers = <<>> /\ deferred = <<>> /\ taking = <<>>
      /\ lookups = {} /\ holdOver = FALSE /\ running = TRUE /\ handled = 0 /\ sent = 0
      /\ \A c \in Callers : pc[c] = "free"
  BY DEF Init
<1>3. Commanded(queue) = <<>> /\ ToSet(answers) = {} /\ ToSet(resolved) = {} /\ InQueue = {}
  BY <1>2, NoneIn DEF Commanded, InQueue
<1>4. OneAtATime
  BY <1>2, <1>3 DEF OneAtATime, Rises, Below
<1>5. Unpaced
  BY <1>2, <1>3 DEF Unpaced
<1>6. Counts
  BY <1>2, <1>3 DEF Counts, Rises, Below
<1>7. Turns
  BY <1>2, NoneIn DEF Turns, Pending, Pushed, Init
<1> QED
  BY <1>1, <1>4, <1>5, <1>6, <1>7 DEF Inv

LEMMA InvHolds == Spec => []Inv
<1>1. Init => Inv
  BY CommandQueueAssumption, InvStarts
<1>2. Inv /\ [Next]_vars => Inv'
  <2> SUFFICES ASSUME Inv, [Next]_vars PROVE Inv'
    OBVIOUS
  <2>1. Base /\ OneAtATime /\ Unpaced /\ Counts /\ Turns
    BY DEF Inv
  <2>2. Base' /\ TypeOK'
    BY <2>1, CommandQueueAssumption, BaseKept DEF Base
  <2>3. OneAtATime' /\ Unpaced' /\ Counts' /\ Turns'
    BY <2>1, <2>2, CommandQueueAssumption, PacedKept, UnpacedKept, CountsKept, TurnsKept
  <2> QED
    BY <2>2, <2>3 DEF Inv
<1> QED
  BY <1>1, <1>2, PTL DEF Spec

\* The channel, the queue, the counts and the callers keep their types.
THEOREM CommandQueueTypes == Spec => []TypeOK
<1>1. Inv => TypeOK
  BY DEF Inv, Base
<1> QED
  BY <1>1, InvHolds, PTL

\* With the requests paced, however many callers there are, the requests of one
\* are answered in the order it sent them, also those that wait for a contract
\* lookup: the answer of the one lookup that requests wait for comes before any
\* request sent behind it is taken (poll_control_commands, lookup_holds).  Those
\* that waited for the definition of their contract are not among them.
THEOREM PacedInOrder == Spec => []RequestsInOrder
<1>1. Inv => RequestsInOrder
  <2> SUFFICES ASSUME Inv, paced,
                      NEW i \in DOMAIN answers, NEW j \in DOMAIN answers, i < j, answers[i].by = answers[j].by,
                      answers[i].kind \in {"request", "lookup"}, answers[j].kind \in {"request", "lookup"},
                      {answers[i], answers[j]} \cap late = {}
               PROVE  answers[i].n < answers[j].n
    BY DEF RequestsInOrder, InOrder
  <2>1. Rises(answers, Paced, late)
    BY DEF Inv, OneAtATime
  <2> QED
    BY <2>1 DEF Rises, Paced
<1> QED
  BY <1>1, InvHolds, PTL

\* A further command of a request and an order are answered in their turn,
\* whatever the pacer and the lookups hold back, those aside that waited for the
\* definition of their contract.
THEOREM FurtherTaken == Spec => []FurtherInTurn
<1>1. Inv => FurtherInTurn
  <2> SUFFICES ASSUME Inv,
                      NEW i \in DOMAIN answers, NEW j \in DOMAIN answers, i < j, answers[i].by = answers[j].by,
                      answers[i].kind \in {"request", "unpaced", "order"},
                      answers[j].kind \in {"request", "unpaced", "order"},
                      {answers[i], answers[j]} \cap late = {}
               PROVE  answers[i].n < answers[j].n
    BY DEF FurtherInTurn, InOrder
  <2>1. Rises(answers, Further, late)
    BY DEF Inv, Base, OnTheWay
  <2> QED
    BY <2>1 DEF Rises, Further
<1> QED
  BY <1>1, InvHolds, PTL

\* Without a pacer and with one caller, an error the client writes itself comes
\* behind the answers of the commands sent before it: when the count it read is
\* handled, the queue and the channel are empty (wait_for_earlier_commands).
THEOREM ErrorsInOrder == Spec => []AnswersInOrder
<1>1. Inv => AnswersInOrder
  <2> SUFFICES ASSUME Inv, ~paced, OneCaller,
                      NEW i \in DOMAIN answers, NEW j \in DOMAIN answers, i < j, answers[i].by = answers[j].by,
                      answers[i].kind \in {"request", "unpaced", "error"},
                      answers[j].kind \in {"request", "unpaced", "error"},
                      {answers[i], answers[j]} \cap late = {}
               PROVE  answers[i].n < answers[j].n
    BY DEF AnswersInOrder, InOrder
  <2>1. Rises(answers, Unheld, late)
    BY DEF Inv, Counts
  <2> QED
    BY <2>1 DEF Rises, Unheld
<1> QED
  BY <1>1, InvHolds, PTL

\* With one caller, the step that puts an answer of the client itself in the
\* queue puts it behind every command made before it that the engine has
\* received: the count of `sent' it took down covers those, and the queue is
\* in the order of its ordinals about that count (defer, take_deferred).
THEOREM LocalPutBehind == Spec => LocalBehindReceived
<1>1. Inv /\ Inv' /\ [Next]_vars => (OneCaller => NewBehind)
  <2> SUFFICES ASSUME Inv, Inv', [Next]_vars, OneCaller PROVE NewBehind
    OBVIOUS
  <2>1. Base /\ Turns /\ TypeOK /\ TypeOK'
    BY DEF Inv, Base
  <2> QED
    BY <2>1, InsertBehind, OtherBehind
<1>2. (OneCaller => NewBehind)
      <=> (OneCaller => \A j \in DOMAIN queue' :
            LET local == queue'[j].cmd
            IN  ~queue'[j].channel /\ (\A i \in DOMAIN queue : queue[i].cmd # local) =>
                    \A i \in DOMAIN queue' :
                        queue'[i].cmd.by = local.by /\ queue'[i].cmd.n < local.n => i < j)
  BY DEF NewBehind
<1> QED
  BY <1>1, <1>2, InvHolds, PTL DEF Spec, LocalBehindReceived
=============================================================================
