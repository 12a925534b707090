-------------------------- MODULE OrderBook_proofs --------------------------
(***************************************************************************)
(* Proofs about the order table of OrderBook, for any orders, quantity and *)
(* number of requests, executions and losses of the link.                  *)
(*                                                                         *)
(* The inductive invariant says what the reports on their way may be about *)
(* (Reports), which is what keeps an id the client has not used apart from *)
(* one that ended.  What a step does to the table is one of five effects   *)
(* on one order (OrderStep): each action is shown to have one of them, and *)
(* the invariant and the ledger follow from the effects.  That no          *)
(* execution is lost is an invariant of its own, of the places of the      *)
(* fills on the wire (FillsInv); so is that the orders that work are held  *)
(* right, of the versions and statuses of the reports on the wire          *)
(* (AgreeInv).                                                             *)
(***************************************************************************)
EXTENDS OrderBook, SequenceTheorems, FiniteSetTheorems, TLAPS

Working == Status \ Terminal
Codes   == {"0", "1", "2", "4", "5", "6", "8"}

\* The orders the server, the table or the client has heard of.
Known == {o \in Orders : srv[o] # None \/ held[o] # None \/ told[o] # None}

\* What a report may be: of an execution that was made, or of a known order.
Reports ==
    [kind : {"fill"}, n : 1 .. Len(execs), ver : Nat, live : BOOLEAN]
        \cup [kind : {"order"}, o : Known, ver : Nat, st : Codes, query : BOOLEAN]
        \cup [kind : {"reject"}, o : Known, ver : Nat \ {0}]
        \cup {EndTrades, EndReplay}

\* An order that ended is not held and its end was given; one that is gone
\* through by a global cancel is held; a new request names an unused id.
TableInv ==
    /\ wire \in Seq(Reports)
    /\ \A n \in 1 .. Len(execs) : srv[execs[n]] # None
    /\ \A o \in walk : held[o] # None
    /\ \A o \in Orders : finished[o] # None => held[o] = None /\ told[o] # None
    /\ pend # <<>> /\ Head(pend).kind = "new" => Head(pend).o \in Orders \ Known

\* The final status of an order and its completed record.
GivenInv ==
    \A o \in Orders \ dropped :
        /\ told[o] \in Terminal <=> finished[o] # None
        /\ finished[o] # None => told[o] = finished[o]
        /\ completed[o] = IF told[o] \in Terminal THEN 1 ELSE 0

-----------------------------------------------------------------------------
(***************************************************************************)
(* The effects of a step on an order.                                      *)
(***************************************************************************)
Same(o) ==
    /\ held'[o] = held[o] /\ told'[o] = told[o]
    /\ finished'[o] = finished[o] /\ completed'[o] = completed[o]

\* The order is held as working.
Works(o) ==
    /\ finished[o] = None /\ finished'[o] = None /\ completed'[o] = completed[o]
    /\ held'[o] \in Working /\ told'[o] \in Working \cup {told[o]}

\* The order ends.
EndsHere(o) ==
    /\ held[o] # None /\ held'[o] = None
    /\ finished[o] = None /\ finished'[o] \in Terminal /\ told'[o] = finished'[o]
    /\ completed'[o] = completed[o] + 1

\* The order is forgotten in the trades reply.
Forgets(o) ==
    /\ held[o] # None /\ held'[o] = None /\ told'[o] = "forgotten"
    /\ finished[o] = None /\ finished'[o] = None /\ completed'[o] = completed[o]

\* The order is dropped as not sent.
Drops(o) ==
    /\ held'[o] = None /\ told'[o] = "Rejected"
    /\ finished[o] = None /\ finished'[o] = None /\ completed'[o] = completed[o]

OrderStep(o) ==
    /\ \A p \in Orders \ {o} : Same(p)
    /\ \/ dropped' = dropped /\ (Same(o) \/ Works(o) \/ EndsHere(o) \/ Forgets(o))
       \/ dropped' = dropped \cup {o} /\ Drops(o)

\* The guard lets an end through, and else keeps to the two statuses.
LEMMA GuardedStatus ==
    ASSUME NEW prev \in Working, NEW status \in Status
    PROVE  /\ Guarded(prev, status) \in {prev, status}
           /\ status \in Terminal => Guarded(prev, status) = status
<1>1. Rank[prev] \in 1 .. 4
  BY DEF Rank, Working, Status, Terminal
<1>2. status \in Terminal => Rank[status] = 5
  BY DEF Rank, Status, Terminal
<1>3. QED
  BY <1>1, <1>2 DEF Guarded

\* What a report whose status is applied does.
StatusEffect(o, status) ==
    /\ OrderStep(o)
    /\ told' \in [Orders -> Status \cup {None, "forgotten"}]
    /\ held' \in [Orders -> Working \cup {None}]
    /\ finished' \in [Orders -> Terminal \cup {None}]
    /\ completed' \in [Orders -> Nat]
    /\ cancelClord' \in [Orders -> Nat \cup {NoClord}]
    /\ status \in Terminal => queries' = queries \ {o}

\* A report whose status is applied has one of the effects on its order.
LEMMA StatusApplied ==
    ASSUME TypeOK, NEW o \in Orders, NEW prev \in Working, NEW status \in Status,
           NEW forced, NEW given,
           ApplyStatus(o, prev, status, forced, given),
           dropped' = dropped, finished[o] = None,
           held[o] = None => status \notin Terminal
    PROVE  StatusEffect(o, status)
<1> USE DEF StatusEffect
<1> DEFINE new == IF forced THEN status ELSE Guarded(prev, status)
<1>1. new \in {prev, status} /\ (status \in Terminal => new = status)
  BY GuardedStatus
<1> HIDE DEF new
<1>2. told' = [told EXCEPT ![o] = IF given \/ new = status \/ prev = "PendingCancel" THEN new ELSE @]
  BY DEF ApplyStatus, new
<1>3. CASE status \in Terminal
  <2>1. /\ held' = [held EXCEPT ![o] = None]
        /\ cancelClord' = [cancelClord EXCEPT ![o] = NoClord]
        /\ queries' = queries \ {o}
        /\ finished' = [finished EXCEPT ![o] = status]
        /\ completed' = [completed EXCEPT ![o] = @ + 1]
        /\ told' = [told EXCEPT ![o] = status]
    BY <1>1, <1>2, <1>3 DEF ApplyStatus, Finish, Leave
  <2>2. OrderStep(o)
    BY <1>3, <2>1 DEF TypeOK, OrderStep, Same, EndsHere
  <2>3. QED
    BY <1>3, <2>1, <2>2 DEF TypeOK, Working
<1>4. CASE status \notin Terminal
  <2>1. new \in Working
    BY <1>1, <1>4 DEF Working
  <2>2. held' = [held EXCEPT ![o] = new] /\ UNCHANGED <<cancelClord, finished, completed>>
    BY <1>4 DEF ApplyStatus, new
  <2>3. QED
    BY <1>2, <1>4, <2>1, <2>2 DEF TypeOK, Working, OrderStep, Same, Works
<1>5. QED
  BY <1>3, <1>4

-----------------------------------------------------------------------------
(***************************************************************************)
(* The report that is read.                                                *)
(***************************************************************************)
LEMMA HeadReport ==
    ASSUME TableInv, Reading
    PROVE  /\ Tail(wire) \in Seq(Reports)
           /\ Head(wire).kind = "fill" =>
                 Head(wire).n \in 1 .. Len(execs) /\ Head(wire).ver \in Nat /\ Head(wire).live \in BOOLEAN
           /\ Head(wire).kind = "order" =>
                 /\ Head(wire).o \in Known /\ Head(wire).ver \in Nat
                 /\ Head(wire).st \in Codes /\ Head(wire).query \in BOOLEAN
           /\ Head(wire).kind = "reject" => Head(wire).o \in Known /\ Head(wire).ver \in Nat \ {0}
<1>1. Head(wire) \in Reports /\ Tail(wire) \in Seq(Reports)
  BY HeadTailProperties DEF TableInv, Reading
<1>2. QED
  BY <1>1 DEF Reports, EndTrades, EndReplay

\* The status a report finds an order with.
LEMMA FoundStatus ==
    ASSUME TypeOK, TableInv, NEW o \in Orders, NEW st, Found(o, st) # None
    PROVE  /\ Found(o, st) \in Working
           /\ finished[o] = None
           /\ held[o] = None => st \in {"0", "1", "5", "6"}
<1>1. CASE held[o] = None /\ finished[o] = None
  <2>1. Found(o, st) = RecoveredStatus(st)
    BY <1>1 DEF Found
  <2>2. st \in {"0", "1", "5", "6"} /\ RecoveredStatus(st) \in Working
    BY <2>1 DEF RecoveredStatus, Working, Status, Terminal, None
  <2>3. QED
    BY <1>1, <2>1, <2>2
<1>2. CASE ~(held[o] = None /\ finished[o] = None)
  BY <1>2 DEF Found, TypeOK, TableInv, Working
<1>3. QED
  BY <1>1, <1>2

\* The status a report gives its order, an end only to one that is held.
LEMMA StatusGiven ==
    ASSUME TypeOK, NEW f, f.st \in Codes, NEW prev \in Working
    PROVE  /\ StatusOf(f, prev) \in Status
           /\ f.st \in {"0", "1", "5", "6"} => StatusOf(f, prev) \notin Terminal
BY DEF StatusOf, Codes, Working, Status, Terminal

\* A report of an order's status.
LEMMA ReadOrderEffect ==
    ASSUME TypeOK, TableInv, ReadOrder
    PROVE  TypeOK' /\ \E o \in Known : OrderStep(o)
<1> DEFINE f == Head(wire)
           o == f.o
           prev == Found(o, f.st)
           status == StatusOf(f, prev)
<1>1. f.kind = "order" /\ Reading
  BY DEF ReadOrder
<1>2. o \in Known /\ o \in Orders /\ f.ver \in Nat /\ f.st \in Codes /\ f.query \in BOOLEAN
  BY <1>1, HeadReport DEF Known
<1>3. /\ version' = [version EXCEPT ![o] = IF held[o] = None /\ prev # None THEN f.ver ELSE @]
      /\ lastClord' = [lastClord EXCEPT ![o] = IF f.ver = cancelClord[o] THEN @ ELSE f.ver]
      /\ UNCHANGED <<server, link, pend, walk, books, dropped, asked, bounds>>
  BY DEF ReadOrder, NoteVersion, NoteClord
<1>4. version' \in [Orders -> Nat] /\ lastClord' \in [Orders -> Nat \cup {NoClord}]
  BY <1>2, <1>3 DEF TypeOK
<1>5. CASE prev = None
  <2>1. UNCHANGED <<held, cancelClord, queries, finished, told, completed>>
    BY <1>5 DEF ReadOrder
  <2>2. QED
    BY <1>2, <1>3, <1>4, <2>1 DEF TypeOK, OrderStep, Same, server, books, asked, bounds
<1>6. CASE prev # None
  <2>1. /\ ApplyStatus(o, prev, status, Forced(f, status), FALSE)
        /\ status \notin Terminal => queries' = IF f.query /\ ~replay THEN queries \ {o} ELSE queries
    BY <1>6 DEF ReadOrder
  <2>2. prev \in Working /\ finished[o] = None /\ (held[o] = None => f.st \in {"0", "1", "5", "6"})
    BY <1>2, <1>6, FoundStatus
  <2>3. status \in Status /\ (held[o] = None => status \notin Terminal)
    BY <1>2, <2>2, StatusGiven
  <2> DEFINE forced == Forced(f, status)
  <2>4. ApplyStatus(o, prev, status, forced, FALSE) /\ dropped' = dropped
    BY <1>3, <2>1
  <2> HIDE DEF f, o, prev, status, forced
  <2>5. StatusEffect(o, status)
    BY <1>2, <2>2, <2>3, <2>4, StatusApplied
  <2>6. queries' \subseteq Orders
    BY <2>1, <2>5 DEF TypeOK, StatusEffect
  <2>7. QED
    BY <1>2, <1>3, <1>4, <2>5, <2>6 DEF TypeOK, StatusEffect, Working, server, books, asked, bounds
<1>7. QED
  BY <1>5, <1>6

\* The ids remembered after one more, and the one that left.
LEMMA Remembered ==
    ASSUME TypeOK, NEW n \in 1 .. MaxExecs, Remember(n)
    PROVE  /\ seen' \in Seq(1 .. MaxExecs) /\ Len(seen') <= Window
           /\ \/ /\ evicted' = evicted \ {n}
                 /\ \A m : Seen(m) => Seen(m)'
                 /\ \A m : Seen(m)' => Seen(m) \/ m = n
                 /\ Seen(n)'
              \/ \E e \in 1 .. MaxExecs :
                    /\ Seen(e) /\ evicted' = (evicted \ {n}) \cup {e}
                    /\ \A m : Seen(m) => Seen(m)' \/ m = e
                    /\ \A m : Seen(m)' => Seen(m) \/ m = n
                    /\ Seen(n)'
<1>0. Len(seen) \in Nat /\ Len(seen) <= Window /\ Window \in Nat /\ Window # 0
  BY OrderBookAssumption DEF TypeOK
<1>1. /\ seen \in Seq(1 .. MaxExecs) /\ Len(seen) \in Nat /\ Len(seen) <= Window
      /\ Window \in Nat \ {0} /\ DOMAIN seen = 1 .. Len(seen)
  BY OrderBookAssumption DEF TypeOK
<1>2. CASE Len(seen) < Window
  <2>1. seen' = Append(seen, n) /\ evicted' = evicted \ {n}
    BY <1>2 DEF Remember
  <2>2. /\ seen' \in Seq(1 .. MaxExecs) /\ Len(seen') = Len(seen) + 1 /\ DOMAIN seen' = 1 .. Len(seen) + 1
        /\ \A i \in 1 .. Len(seen) : seen'[i] = seen[i]
        /\ seen'[Len(seen) + 1] = n
    BY ONLY <1>1, <2>1, n \in 1 .. MaxExecs
  <2>3. /\ \A m : Seen(m) => Seen(m)'
        /\ \A m : Seen(m)' => Seen(m) \/ m = n
        /\ Seen(n)'
    BY ONLY <1>1, <2>2 DEF Seen
  <2>4. QED
    BY <1>1, <1>2, <2>1, <2>2, <2>3
<1>3. CASE ~(Len(seen) < Window)
  <2> DEFINE q == Tail(seen)
  <2>1. seen' = Append(q, n) /\ evicted' = (evicted \ {n}) \cup {Head(seen)}
    BY <1>3 DEF Remember
  <2>2. Len(seen) = Window /\ seen # <<>> /\ 1 \in 1 .. Len(seen)
    <3>1. Len(seen) = Window /\ Len(seen) # 0 /\ 1 \in 1 .. Len(seen)
      BY <1>0, <1>3
    <3>2. QED
      BY <3>1, EmptySeq
  <2>3. /\ q \in Seq(1 .. MaxExecs) /\ Len(q) = Len(seen) - 1 /\ Len(q) \in Nat /\ DOMAIN q = 1 .. Len(seen) - 1
        /\ \A i \in 1 .. Len(seen) - 1 : q[i] = seen[i + 1]
        /\ Head(seen) = seen[1]
    BY ONLY <1>1, <2>2
  <2> HIDE DEF q
  <2>4. /\ seen' \in Seq(1 .. MaxExecs) /\ Len(seen') = Len(seen) /\ DOMAIN seen' = 1 .. Len(seen)
        /\ \A i \in 1 .. Len(seen) - 1 : seen'[i] = q[i]
        /\ seen'[Len(seen)] = n
    BY ONLY <1>1, <2>1, <2>2, <2>3, n \in 1 .. MaxExecs
  <2>5. Seen(Head(seen)) /\ Head(seen) \in 1 .. MaxExecs
    <3>1. 1 \in DOMAIN seen /\ seen[1] = Head(seen)
      BY <1>1, <2>2, <2>3
    <3>2. Head(seen) \in 1 .. MaxExecs
      BY <1>1, <2>2, HeadTailProperties
    <3>3. QED
      BY <3>1, <3>2 DEF Seen
  <2>6. \A m : Seen(m) => Seen(m)' \/ m = Head(seen)
    <3>1. ASSUME NEW i \in 1 .. Len(seen), i # 1 PROVE i - 1 \in 1 .. Len(seen) /\ seen'[i - 1] = seen[i]
      <4>1. i - 1 \in 1 .. Len(seen) - 1 /\ (i - 1) + 1 = i /\ i - 1 \in 1 .. Len(seen)
        BY ONLY <1>1, <3>1
      <4>2. QED
        BY ONLY <2>3, <2>4, <4>1
    <3>2. QED
      BY ONLY <1>1, <2>3, <2>4, <3>1 DEF Seen
  <2>7. \A m : Seen(m)' => Seen(m) \/ m = n
    <3>1. ASSUME NEW i \in 1 .. Len(seen), i # Len(seen) PROVE i + 1 \in 1 .. Len(seen) /\ seen'[i] = seen[i + 1]
      <4>1. i \in 1 .. Len(seen) - 1 /\ i + 1 \in 1 .. Len(seen)
        BY <1>0, <3>1
      <4>2. QED
        BY ONLY <2>3, <2>4, <4>1
    <3>2. QED
      BY ONLY <1>1, <2>4, <3>1 DEF Seen
  <2>8. Seen(n)'
    BY ONLY <1>1, <2>2, <2>4 DEF Seen
  <2>9. QED
    BY <1>1, <2>1, <2>4, <2>5, <2>6, <2>7, <2>8
<1>4. QED
  BY <1>2, <1>3

\* An execution is booked once and the window is kept.
LEMMA BookTyped ==
    ASSUME TypeOK, NEW n \in 1 .. MaxExecs, BookOnce(n)
    PROVE  /\ seen' \in Seq(1 .. MaxExecs) /\ Len(seen') <= Window
           /\ lastExec' \in 0 .. MaxExecs /\ position' \in Nat /\ counted' \subseteq 1 .. MaxExecs
           /\ evicted' \subseteq 1 .. MaxExecs /\ recounted' \in Nat
<1>1. CASE Seen(n)
  BY <1>1 DEF BookOnce, books, TypeOK
<1>2. CASE ~Seen(n)
  <2>1. Book(n) /\ Remember(n)
    BY <1>2 DEF BookOnce, Book
  <2>2. seen' \in Seq(1 .. MaxExecs) /\ Len(seen') <= Window
    BY <2>1, Remembered
  <2>3. evicted' \subseteq 1 .. MaxExecs
    BY <2>1, Remembered DEF TypeOK
  <2>4. QED
    BY <2>1, <2>2, <2>3 DEF Book, TypeOK
<1>3. QED
  BY <1>1, <1>2

\* The order of an execution on its way is one the server has.
LEMMA FillReport ==
    ASSUME TypeOK, TableInv, Reading, Head(wire).kind = "fill"
    PROVE  /\ Head(wire).n \in 1 .. MaxExecs /\ Head(wire).n \in 1 .. Len(execs)
           /\ execs[Head(wire).n] \in Known /\ execs[Head(wire).n] \in Orders
           /\ Head(wire).ver \in Nat /\ Head(wire).live \in BOOLEAN
<1>1. Head(wire).n \in 1 .. Len(execs) /\ Head(wire).ver \in Nat /\ Head(wire).live \in BOOLEAN
  BY HeadReport
<1>2. Len(execs) \in Nat /\ Len(execs) <= MaxExecs /\ \A n \in 1 .. Len(execs) : execs[n] \in Orders
  BY DEF TypeOK
<1>3. srv[execs[Head(wire).n]] # None
  BY <1>1 DEF TableInv
<1>4. QED
  BY <1>1, <1>2, <1>3, OrderBookAssumption DEF Known

\* An execution read while the trades reply is awaited.
LEMMA ReadOutageFillEffect ==
    ASSUME TypeOK, TableInv, ReadOutageFill
    PROVE  TypeOK' /\ \E o \in Known : OrderStep(o)
<1> DEFINE f == Head(wire)
           o == execs[f.n]
           st == IF Ends(f.n) THEN "2" ELSE "1"
           prev == Found(o, st)
<1>1. /\ o \in Known /\ o \in Orders /\ f.ver \in Nat /\ f.n \in 1 .. MaxExecs
      /\ f.live \in BOOLEAN
  BY FillReport DEF ReadOutageFill
<1>2. /\ version' = [version EXCEPT ![o] = IF held[o] = None /\ prev # None THEN f.ver ELSE @]
      /\ lastClord' = [lastClord EXCEPT ![o] = IF f.ver = cancelClord[o] THEN @ ELSE f.ver]
      /\ UNCHANGED <<server, link, pend, walk, finished, completed, dropped, fillUp, replay, hole, bounds>>
      /\ BookOnce(f.n) /\ early' = (early \/ f.live) /\ prev # None
  BY DEF ReadOutageFill, NoteVersion, NoteClord
<1>3. version' \in [Orders -> Nat] /\ lastClord' \in [Orders -> Nat \cup {NoClord}]
  BY <1>1, <1>2 DEF TypeOK
<1>4. /\ seen' \in Seq(1 .. MaxExecs) /\ Len(seen') <= Window
      /\ lastExec' \in 0 .. MaxExecs /\ position' \in Nat /\ counted' \subseteq 1 .. MaxExecs
      /\ evicted' \subseteq 1 .. MaxExecs /\ recounted' \in Nat
  BY <1>1, <1>2, BookTyped
<1>5. prev \in Working /\ finished[o] = None /\ (held[o] = None => ~Ends(f.n))
  BY <1>1, <1>2, FoundStatus
<1>6. IF Ends(f.n)
        THEN Leave(o) /\ told' = [told EXCEPT ![o] = "forgotten"]
        ELSE held' = [held EXCEPT ![o] = prev] /\ UNCHANGED <<cancelClord, queries, told>>
  BY DEF ReadOutageFill
<1> HIDE DEF f, o, prev, st
<1>7. CASE Ends(f.n)
  <2>1. /\ held' = [held EXCEPT ![o] = None] /\ cancelClord' = [cancelClord EXCEPT ![o] = NoClord]
        /\ queries' = queries \ {o} /\ told' = [told EXCEPT ![o] = "forgotten"]
    BY <1>6, <1>7 DEF Leave
  <2>2. OrderStep(o)
    BY <1>1, <1>2, <1>5, <1>7, <2>1 DEF TypeOK, OrderStep, Same, Forgets
  <2>3. QED
    BY <1>1, <1>2, <1>3, <1>4, <2>1, <2>2 DEF TypeOK, Working, server, bounds
<1>8. CASE ~Ends(f.n)
  <2>1. held' = [held EXCEPT ![o] = prev] /\ UNCHANGED <<cancelClord, queries, told>>
    BY <1>6, <1>8
  <2>2. OrderStep(o)
    BY <1>1, <1>2, <1>5, <2>1 DEF TypeOK, OrderStep, Same, Works
  <2>3. QED
    BY <1>1, <1>2, <1>3, <1>4, <1>5, <2>1, <2>2 DEF TypeOK, Working, server, bounds
<1>9. QED
  BY <1>7, <1>8

\* Any other execution.
LEMMA ReadFillEffect ==
    ASSUME TypeOK, TableInv, ReadFill
    PROVE  TypeOK' /\ \E o \in Known : OrderStep(o)
<1> DEFINE f == Head(wire)
           o == execs[f.n]
           st == IF Ends(f.n) THEN "2" ELSE "1"
           prev == Found(o, st)
           status == IF Ends(f.n) THEN "Filled" ELSE "PartiallyFilled"
<1>1. /\ o \in Known /\ o \in Orders /\ f.ver \in Nat /\ f.n \in 1 .. MaxExecs
      /\ f.live \in BOOLEAN
  BY FillReport DEF ReadFill
<1>2. /\ version' = [version EXCEPT ![o] = IF held[o] = None /\ prev # None THEN f.ver ELSE @]
      /\ lastClord' = [lastClord EXCEPT ![o] = IF f.ver = cancelClord[o] THEN @ ELSE f.ver]
      /\ UNCHANGED <<server, link, pend, walk, dropped, fillUp, replay, hole, bounds>>
      /\ BookOnce(f.n) /\ early' = (early \/ (fillUp /\ f.live))
  BY DEF ReadFill, NoteVersion, NoteClord
<1>3. version' \in [Orders -> Nat] /\ lastClord' \in [Orders -> Nat \cup {NoClord}]
  BY <1>1, <1>2 DEF TypeOK
<1>4. /\ seen' \in Seq(1 .. MaxExecs) /\ Len(seen') <= Window
      /\ lastExec' \in 0 .. MaxExecs /\ position' \in Nat /\ counted' \subseteq 1 .. MaxExecs
      /\ evicted' \subseteq 1 .. MaxExecs /\ recounted' \in Nat
  BY <1>1, <1>2, BookTyped
<1>5. CASE prev = None
  <2>1. UNCHANGED <<held, cancelClord, queries, finished, told, completed>>
    BY <1>5 DEF ReadFill
  <2>2. QED
    BY <1>1, <1>2, <1>3, <1>4, <2>1 DEF TypeOK, OrderStep, Same, server, bounds
<1>6. CASE prev # None
  <2> DEFINE given == ~Seen(f.n)
  <2>1. /\ ApplyStatus(o, prev, status, FALSE, given) /\ dropped' = dropped
        /\ ~Ends(f.n) => UNCHANGED queries
    BY <1>2, <1>6 DEF ReadFill
  <2>2. prev \in Working /\ finished[o] = None /\ (held[o] = None => ~Ends(f.n))
    BY <1>1, <1>6, FoundStatus
  <2>3. status \in Status /\ (status \in Terminal <=> Ends(f.n))
    BY DEF Status, Terminal
  <2> HIDE DEF f, o, prev, status, given
  <2>4. StatusEffect(o, status)
    BY <1>1, <2>1, <2>2, <2>3, StatusApplied
  <2>5. queries' \subseteq Orders
    BY <2>1, <2>3, <2>4 DEF TypeOK, StatusEffect
  <2>6. QED
    BY <1>1, <1>2, <1>3, <1>4, <2>4, <2>5 DEF TypeOK, StatusEffect, Working, server, bounds
<1>7. QED
  BY <1>5, <1>6

-----------------------------------------------------------------------------
(***************************************************************************)
(* The requests.                                                           *)
(***************************************************************************)
\* The request that is drained names an order.
LEMMA HeadRequest ==
    ASSUME TypeOK, NEW kind \in {"new", "cancel", "modify"}, Drain(kind)
    PROVE  Head(pend).o \in Orders /\ Head(pend).kind = kind /\ pend' = <<>>
<1>1. Head(pend) \in Request
  BY HeadTailProperties DEF Drain, TypeOK
<1>2. QED
  BY <1>1 DEF Request, Drain

TableTyped ==
    /\ held \in [Orders -> Working \cup {None}] /\ version \in [Orders -> Nat]
    /\ lastClord \in [Orders -> Nat \cup {NoClord}]
    /\ cancelClord \in [Orders -> Nat \cup {NoClord}]
    /\ finished \in [Orders -> Terminal \cup {None}]
    /\ queries \subseteq Orders /\ dropped \subseteq Orders
    /\ told \in [Orders -> Status \cup {None, "forgotten"}]
    /\ completed \in [Orders -> Nat]

ServerTyped ==
    /\ srv \in [Orders -> {None, "working", "filled", "cancelled", "rejected"}]
    /\ srvVer \in [Orders -> Nat]

\* A request sent changes the table and the server's record.
LEMMA SentTyped ==
    ASSUME TypeOK, TableTyped', ServerTyped', pend' = <<>>, UNCHANGED <<execs, link, walk, books, asked, bounds>>
    PROVE  TypeOK'
<1>1. pend' \in Seq(Request) /\ Len(pend') <= 1
  BY EmptySeq
<1>2. QED
  BY <1>1 DEF TypeOK, TableTyped, ServerTyped, Working, books, asked, bounds

\* An order whose request could not be written leaves the table.
LEMMA DropEffect ==
    ASSUME TypeOK, NEW o \in Orders, DropUnsent(o), finished[o] = None
    PROVE  OrderStep(o) /\ TableTyped'
<1>1. OrderStep(o)
  BY DEF DropUnsent, OrderStep, Same, Drops, TypeOK
<1>2. TableTyped'
  BY DEF DropUnsent, TypeOK, TableTyped, Working, Status
<1>3. QED
  BY <1>1, <1>2

LEMMA SendNewEffect ==
    ASSUME TypeOK, TableInv, SendNew
    PROVE  TypeOK' /\ \E o \in Orders : OrderStep(o) /\ o = Head(pend).o /\ pend' = <<>>
<1> DEFINE o == Head(pend).o
<1>1. o \in Orders /\ pend' = <<>> /\ Head(pend).kind = "new" /\ pend # <<>>
  BY HeadRequest DEF SendNew, Drain
<1>2. finished[o] = None
  BY <1>1 DEF TableInv, Known
<1>3. UNCHANGED <<link, walk, books, asked, bounds>>
  BY DEF SendNew
<1>4. CASE /\ (link = "up" /\ TakesNew(o)) \/ WriteLost
           /\ held' = [held EXCEPT ![o] = "PendingSubmit"]
           /\ UNCHANGED <<version, lastClord, cancelClord, queries, finished, client>>
  <2>1. srv' \in [Orders -> {None, "working", "filled", "cancelled", "rejected"}] /\ UNCHANGED <<srvVer, execs>>
    BY <1>1, <1>4 DEF TakesNew, WriteLost, server, TypeOK
  <2> HIDE DEF o
  <2>2. OrderStep(o)
    BY <1>1, <1>2, <1>4 DEF TypeOK, OrderStep, Same, Works, Working, Status, Terminal, client
  <2>3. TableTyped'
    BY <1>1, <1>4 DEF TypeOK, TableTyped, Working, Status, Terminal, client
  <2>4. ServerTyped'
    BY <2>1 DEF ServerTyped, TypeOK
  <2>5. QED
    BY <1>1, <1>3, <2>1, <2>2, <2>3, <2>4, SentTyped DEF o
<1>5. CASE WriteFails /\ DropUnsent(o)
  <2>1. ServerTyped' /\ UNCHANGED execs
    BY <1>5 DEF WriteFails, ServerTyped, TypeOK, server
  <2> HIDE DEF o
  <2>2. OrderStep(o) /\ TableTyped'
    BY <1>1, <1>2, <1>5, DropEffect
  <2>3. QED
    BY <1>1, <1>3, <2>1, <2>2, SentTyped DEF o
<1>6. QED
  BY <1>4, <1>5 DEF SendNew

\* The cancel of an order that is held.
LEMMA CancelEffect ==
    ASSUME TypeOK, TableInv, NEW o \in Orders, held[o] # None, CancelWritten(o)
    PROVE  OrderStep(o) /\ o \in Known /\ TableTyped' /\ ServerTyped' /\ UNCHANGED execs /\ held'[o] # None
<1>1. /\ srv' \in [Orders -> {None, "working", "filled", "cancelled", "rejected"}]
      /\ UNCHANGED <<srvVer, execs>>
  BY DEF CancelWritten, TakesCancel, Refuses, WriteLost, server, TypeOK
<1>2. /\ held' = [held EXCEPT ![o] = "PendingCancel"]
      /\ version' = [version EXCEPT ![o] = @ + 1]
      /\ cancelClord' = [cancelClord EXCEPT ![o] = version[o] + 1]
      /\ UNCHANGED <<lastClord, queries, finished, client>>
  BY DEF CancelWritten, CancelFields, PendingCancel
<1>3. finished[o] = None
  BY DEF TableInv
<1>4. OrderStep(o)
  BY <1>2, <1>3 DEF TypeOK, OrderStep, Same, Works, Working, Status, Terminal, client
<1>5. TableTyped'
  <2>1. held' \in [Orders -> Working \cup {None}]
    BY <1>2 DEF TypeOK, Working, Status, Terminal
  <2>2. version[o] + 1 \in Nat
    BY DEF TypeOK
  <2>3. version' \in [Orders -> Nat] /\ cancelClord' \in [Orders -> Nat \cup {NoClord}]
    BY <1>2, <2>2 DEF TypeOK
  <2>4. QED
    BY <1>2, <2>1, <2>3 DEF TypeOK, TableTyped, client
<1>6. ServerTyped' /\ held'[o] # None
  BY <1>1, <1>2 DEF ServerTyped, TypeOK, None
<1>7. QED
  BY <1>1, <1>4, <1>5, <1>6 DEF Known

LEMMA SendCancelEffect ==
    ASSUME TypeOK, TableInv, SendCancel
    PROVE  TypeOK' /\ (UNCHANGED <<held, told, finished, completed, dropped>> \/ \E o \in Known : OrderStep(o))
<1> DEFINE o == Head(pend).o
<1>1. o \in Orders /\ pend' = <<>>
  BY HeadRequest DEF SendCancel
<1>2. UNCHANGED <<link, walk, books, asked, bounds>>
  BY DEF SendCancel
<1>3. CASE Cancellable(o) /\ CancelWritten(o)
  <2>1. held[o] # None
    BY <1>3 DEF Cancellable
  <2> HIDE DEF o
  <2>2. QED
    BY <1>1, <1>2, <1>3, <2>1, CancelEffect, SentTyped
<1>4. CASE Cancellable(o) /\ WriteFails /\ DropUnsent(o)
  <2>1. held[o] # None /\ finished[o] = None /\ o \in Known /\ UNCHANGED execs
    BY <1>1, <1>4 DEF Cancellable, TableInv, Known, WriteFails, server
  <2>2. ServerTyped'
    BY <1>4 DEF WriteFails, ServerTyped, TypeOK, server
  <2> HIDE DEF o
  <2>3. QED
    BY <1>1, <1>2, <1>4, <2>1, <2>2, DropEffect, SentTyped
<1>5. CASE UNCHANGED <<server, wire, table, client>>
  BY <1>1, <1>2, <1>5 DEF TypeOK, server, table, client, books, asked, bounds
<1>6. QED
  BY <1>3, <1>4, <1>5 DEF SendCancel

LEMMA SendModifyEffect ==
    ASSUME TypeOK, TableInv, SendModify
    PROVE  TypeOK' /\ (UNCHANGED <<held, told, finished, completed, dropped>> \/ \E o \in Known : OrderStep(o))
<1> DEFINE o == Head(pend).o
<1>1. o \in Orders /\ pend' = <<>>
  BY HeadRequest DEF SendModify
<1>2. UNCHANGED <<link, walk, books, asked, bounds>>
  BY DEF SendModify
<1>3. CASE /\ (link = "up" /\ TakesModify(o, version[o] + 1, Orig(o))) \/ WriteLost
           /\ version' = [version EXCEPT ![o] = @ + 1]
           /\ lastClord' = [lastClord EXCEPT ![o] = version[o] + 1]
           /\ UNCHANGED <<held, cancelClord, queries, finished, client>>
  <2> HIDE DEF o
  <2>1. ServerTyped' /\ UNCHANGED execs
    <3>1. version[o] + 1 \in Nat /\ ServerTyped
      BY <1>1 DEF TypeOK, ServerTyped
    <3>2. UNCHANGED server \/ (srvVer' = [srvVer EXCEPT ![o] = version[o] + 1] /\ UNCHANGED <<srv, execs>>)
      BY <1>3 DEF TakesModify, Refuses, WriteLost
    <3>3. QED
      BY <3>1, <3>2 DEF server, ServerTyped
  <2>2. TableTyped'
    BY <1>1, <1>3 DEF TypeOK, TableTyped, Working, client
  <2>3. UNCHANGED <<held, told, finished, completed, dropped>>
    BY <1>3 DEF client
  <2>4. QED
    BY <1>1, <1>2, <2>1, <2>2, <2>3, SentTyped
<1>4. CASE Cancellable(o) /\ WriteFails /\ DropUnsent(o)
  <2>1. held[o] # None /\ finished[o] = None /\ o \in Known /\ UNCHANGED execs
    BY <1>1, <1>4 DEF Cancellable, TableInv, Known, WriteFails, server
  <2>2. ServerTyped'
    BY <1>4 DEF WriteFails, ServerTyped, TypeOK, server
  <2> HIDE DEF o
  <2>3. QED
    BY <1>1, <1>2, <1>4, <2>1, <2>2, DropEffect, SentTyped
<1>5. CASE UNCHANGED <<server, wire, table, client>>
  BY <1>1, <1>2, <1>5 DEF TypeOK, server, table, client, books, asked, bounds
<1>6. QED
  BY <1>3, <1>4, <1>5 DEF SendModify

\* The walk of a global cancel.
LEMMA WalkCancelEffect ==
    ASSUME TypeOK, TableInv, NEW o \in Orders, WalkCancel(o)
    PROVE  /\ TypeOK'
           /\ \/ UNCHANGED <<held, told, finished, completed, dropped>>
              \/ OrderStep(o) /\ held'[o] # None /\ o \in Known
<1>1. held[o] # None /\ UNCHANGED <<link, pend, books, asked, bounds>> /\ walk' = walk \ {o}
  BY DEF WalkCancel, TableInv
<1>2. CASE CancelWritten(o)
  <2>1. OrderStep(o) /\ o \in Known /\ TableTyped' /\ ServerTyped' /\ UNCHANGED execs /\ held'[o] # None
    BY <1>1, <1>2, CancelEffect
  <2>2. QED
    BY <1>1, <2>1 DEF TypeOK, TableTyped, ServerTyped, Working, books, asked, bounds
<1>3. CASE WriteFails /\ CancelFields(o) /\ UNCHANGED <<held, client>>
  <2>1. TableTyped'
    BY <1>3 DEF TypeOK, TableTyped, CancelFields, Working, client
  <2>2. ServerTyped' /\ UNCHANGED execs
    BY <1>3 DEF TypeOK, ServerTyped, WriteFails, server
  <2>3. UNCHANGED <<held, told, finished, completed, dropped>>
    BY <1>3 DEF CancelFields, client
  <2>4. QED
    BY <1>1, <2>1, <2>2, <2>3 DEF TypeOK, TableTyped, ServerTyped, Working, books, asked, bounds
<1>4. QED
  BY <1>2, <1>3 DEF WalkCancel

\* A refused cancel or modify.
LEMMA ReadCancelRejectTyped ==
    ASSUME TypeOK, TableInv, ReadCancelReject
    PROVE  TypeOK' /\ UNCHANGED <<held, told, finished, completed, dropped>>
<1> DEFINE f == Head(wire)
           o == f.o
<1>1. o \in Orders /\ f.ver \in Nat \ {0}
  BY HeadReport DEF ReadCancelReject, Known
<1>2. UNCHANGED <<server, link, pend, walk, books, client, asked, bounds>>
  BY DEF ReadCancelReject
<1>3. CASE UNCHANGED table
  BY <1>2, <1>3 DEF TypeOK, server, books, table, client, asked, bounds
<1>4. CASE /\ version[o] = f.ver
           /\ version' = [version EXCEPT ![o] = @ - 1]
           /\ lastClord' = [lastClord EXCEPT ![o] = IF @ = f.ver THEN f.ver - 1 ELSE @]
           /\ cancelClord' = [cancelClord EXCEPT ![o] = IF @ = f.ver THEN NoClord ELSE @]
           /\ queries' = IF held[o] # None THEN queries \cup {o} ELSE queries
           /\ UNCHANGED <<held, finished>>
  <2> HIDE DEF f, o
  <2>1. TableTyped'
    <3>1. TableTyped
      BY DEF TypeOK, TableTyped, Working
    <3>2. version' \in [Orders -> Nat]
      BY <1>1, <1>4, <3>1 DEF TableTyped
    <3>3. lastClord' \in [Orders -> Nat \cup {NoClord}]
      BY <1>1, <1>4, <3>1 DEF TableTyped
    <3>4. cancelClord' \in [Orders -> Nat \cup {NoClord}]
      BY <1>1, <1>4, <3>1 DEF TableTyped
    <3>5. QED
      BY <1>1, <1>2, <1>4, <3>1, <3>2, <3>3, <3>4 DEF TableTyped, client
  <2>2. UNCHANGED <<held, told, finished, completed, dropped>>
    BY <1>2, <1>4 DEF client
  <2>3. QED
    BY <1>2, <2>1, <2>2 DEF TypeOK, TableTyped, Working, server, books, asked, bounds
<1>5. QED
  BY <1>3, <1>4 DEF ReadCancelReject

-----------------------------------------------------------------------------
(***************************************************************************)
(* The other steps leave the table alone.                                  *)
(***************************************************************************)
LEMMA OtherTyped ==
    ASSUME TypeOK, TableInv,
           \/ \E r \in Request : Command(r)
           \/ StartGlobalCancel \/ ReadEndTrades \/ ReadEndReplay
           \/ \E o \in Orders : ServerFills(o) \/ ServerCancels(o)
           \/ Cut \/ HandleDisconnect \/ Relogin \/ Reconnect
           \/ UNCHANGED vars
    PROVE  TypeOK' /\ UNCHANGED <<held, told, finished, completed, dropped>>
<1> USE OrderBookAssumption DEF TypeOK, server, table, books, client, asked, bounds
<1>1. ASSUME NEW r \in Request, Command(r) PROVE TypeOK' /\ UNCHANGED <<held, told, finished, completed, dropped>>
  BY <1>1 DEF Command
<1>2. CASE StartGlobalCancel
  BY <1>2 DEF StartGlobalCancel, Drain
<1>3. CASE ReadEndTrades \/ ReadEndReplay
  BY <1>3 DEF ReadEndTrades, ReadEndReplay
<1>4. ASSUME NEW o \in Orders, ServerFills(o) PROVE TypeOK' /\ UNCHANGED <<held, told, finished, completed, dropped>>
  <2>1. execs' \in Seq(Orders) /\ Len(execs') <= MaxExecs
    BY <1>4 DEF ServerFills
  <2>2. QED
    BY <1>4, <2>1 DEF ServerFills
<1>5. ASSUME NEW o \in Orders, ServerCancels(o) PROVE TypeOK' /\ UNCHANGED <<held, told, finished, completed, dropped>>
  BY <1>5 DEF ServerCancels
<1>6. CASE Cut
  BY <1>6 DEF Cut
<1>7. CASE HandleDisconnect
  BY <1>7 DEF HandleDisconnect
<1>8. CASE Relogin \/ Reconnect
  BY <1>8 DEF Relogin, Reconnect
<1>9. CASE UNCHANGED vars
  BY <1>9 DEF vars
<1>10. QED
  BY <1>1, <1>2, <1>3, <1>4, <1>5, <1>6, <1>7, <1>8, <1>9

-----------------------------------------------------------------------------
(***************************************************************************)
(* The table: every step has one of the effects.                           *)
(***************************************************************************)
LEMMA NextEffect ==
    ASSUME TypeOK, TableInv, [Next]_vars
    PROVE  /\ TypeOK'
           /\ \/ UNCHANGED <<held, told, finished, completed, dropped>>
              \/ \E o \in Known : OrderStep(o)
              \/ \E o \in Orders : OrderStep(o) /\ o = Head(pend).o /\ pend' = <<>>
<1>1. CASE SendNew
  BY <1>1, SendNewEffect
<1>2. CASE SendCancel
  BY <1>2, SendCancelEffect
<1>3. CASE SendModify
  BY <1>3, SendModifyEffect
<1>4. ASSUME NEW o \in Orders, WalkCancel(o)
      PROVE  TypeOK' /\ (UNCHANGED <<held, told, finished, completed, dropped>> \/ \E p \in Known : OrderStep(p))
  BY <1>4, WalkCancelEffect
<1>5. CASE ReadOrder
  BY <1>5, ReadOrderEffect
<1>6. CASE ReadOutageFill
  BY <1>6, ReadOutageFillEffect
<1>7. CASE ReadFill
  BY <1>7, ReadFillEffect
<1>8. CASE ReadCancelReject
  BY <1>8, ReadCancelRejectTyped
<1>9. CASE \/ \E r \in Request : Command(r)
           \/ StartGlobalCancel \/ ReadEndTrades \/ ReadEndReplay
           \/ \E o \in Orders : ServerFills(o) \/ ServerCancels(o)
           \/ Cut \/ HandleDisconnect \/ Relogin \/ Reconnect
           \/ UNCHANGED vars
  BY <1>9, OtherTyped
<1>10. QED
  BY <1>1, <1>2, <1>3, <1>4, <1>5, <1>6, <1>7, <1>8, <1>9 DEF Next

\* What the server has it keeps, and executions are of orders it has.
LEMMA ServerStep ==
    ASSUME TypeOK, TableInv, [Next]_vars
    PROVE  /\ \A o \in Orders : srv[o] # None => srv'[o] # None
           /\ Len(execs) \in Nat /\ Len(execs') \in Nat /\ Len(execs) <= Len(execs')
           /\ \A n \in 1 .. Len(execs') : srv'[execs'[n]] # None
<1>1. CASE UNCHANGED server
  BY <1>1 DEF TypeOK, TableInv, server
<1>2. ASSUME UNCHANGED execs, \A o \in Orders : srv[o] # None => srv'[o] # None
      PROVE  /\ Len(execs) \in Nat /\ Len(execs') \in Nat /\ Len(execs) <= Len(execs')
             /\ \A n \in 1 .. Len(execs') : srv'[execs'[n]] # None
  <2>1. Len(execs) \in Nat /\ \A n \in 1 .. Len(execs) : execs[n] \in Orders
    BY DEF TypeOK
  <2>2. QED
    BY <1>2, <2>1 DEF TableInv
<1>3. ASSUME NEW o \in Orders, TakesNew(o) PROVE UNCHANGED execs /\ \A p \in Orders : srv[p] # None => srv'[p] # None
  BY <1>3 DEF TakesNew, TypeOK, None
<1>4. ASSUME NEW o \in Orders, CancelWritten(o)
      PROVE  UNCHANGED execs /\ \A p \in Orders : srv[p] # None => srv'[p] # None
  BY <1>4 DEF CancelWritten, TakesCancel, Refuses, WriteLost, server, TypeOK, None
<1>5. ASSUME NEW o \in Orders, NEW v, NEW orig, TakesModify(o, v, orig)
      PROVE  UNCHANGED execs /\ \A p \in Orders : srv[p] # None => srv'[p] # None
  BY <1>5 DEF TakesModify, Refuses, server
<1>6. CASE SendNew
  <2>1. Head(pend).o \in Orders
    BY <1>6, HeadRequest DEF SendNew
  <2>2. TakesNew(Head(pend).o) \/ UNCHANGED server
    BY <1>6 DEF SendNew, WriteLost, WriteFails
  <2>3. QED
    BY <1>1, <1>2, <1>3, <2>1, <2>2
<1>7. CASE SendCancel
  <2>1. Head(pend).o \in Orders
    BY <1>7, HeadRequest DEF SendCancel
  <2>2. CancelWritten(Head(pend).o) \/ UNCHANGED server
    BY <1>7 DEF SendCancel, WriteLost, WriteFails
  <2>3. QED
    BY <1>1, <1>2, <1>4, <2>1, <2>2
<1>8. CASE SendModify
  <2>1. Head(pend).o \in Orders
    BY <1>8, HeadRequest DEF SendModify
  <2>2. (\E v, orig : TakesModify(Head(pend).o, v, orig)) \/ UNCHANGED server
    BY <1>8 DEF SendModify, WriteLost, WriteFails
  <2>3. QED
    BY <1>1, <1>2, <1>5, <2>1, <2>2
<1>9. CASE \E o \in Orders : WalkCancel(o)
  BY <1>1, <1>2, <1>4, <1>9 DEF WalkCancel, WriteFails
<1>10. ASSUME NEW o \in Orders, ServerFills(o)
       PROVE  /\ \A p \in Orders : srv[p] # None => srv'[p] # None
              /\ Len(execs) \in Nat /\ Len(execs') \in Nat /\ Len(execs) <= Len(execs')
              /\ \A n \in 1 .. Len(execs') : srv'[execs'[n]] # None
  <2>1. srv'[o] # None /\ \A p \in Orders \ {o} : srv'[p] = srv[p]
    BY <1>10 DEF ServerFills, TypeOK, None
  <2>2. /\ Len(execs') = Len(execs) + 1 /\ Len(execs) \in Nat
        /\ \A n \in 1 .. Len(execs) : execs'[n] = execs[n] /\ execs[n] \in Orders
        /\ execs'[Len(execs) + 1] = o
    BY <1>10 DEF ServerFills, TypeOK
  <2>3. QED
    BY <2>1, <2>2 DEF TableInv
<1>11. ASSUME NEW o \in Orders, ServerCancels(o)
       PROVE  UNCHANGED execs /\ \A p \in Orders : srv[p] # None => srv'[p] # None
  BY <1>11 DEF ServerCancels, TypeOK, None
<1>12. CASE \E o \in Orders : ServerFills(o) \/ ServerCancels(o)
  BY <1>2, <1>10, <1>11, <1>12
<1>13. CASE \/ \E r \in Request : Command(r)
            \/ StartGlobalCancel
            \/ ReadOrder \/ ReadOutageFill \/ ReadFill \/ ReadCancelReject
            \/ ReadEndTrades \/ ReadEndReplay
            \/ Cut \/ HandleDisconnect \/ Relogin \/ Reconnect
            \/ UNCHANGED vars
  <2>1. UNCHANGED server
    BY <1>13 DEF Command, StartGlobalCancel, ReadOrder, ReadOutageFill, ReadFill, ReadCancelReject,
                 ReadEndTrades, ReadEndReplay, Cut, HandleDisconnect, Relogin, Reconnect, vars
  <2>2. QED
    BY <1>1, <2>1
<1>14. QED
  BY <1>6, <1>7, <1>8, <1>9, <1>12, <1>13 DEF Next

\* An order once known stays known, so a report on its way stays a good one.
LEMMA ReportsGrow ==
    ASSUME TypeOK, TableInv, [Next]_vars
    PROVE  Known \subseteq Known' /\ Reports \subseteq Reports' /\ wire \in Seq(Reports')
<1>1. ASSUME NEW o \in Known PROVE o \in Known'
  <2>1. o \in Orders
    BY DEF Known
  <2>2. CASE srv[o] # None
    BY <2>1, <2>2, ServerStep DEF Known
  <2>3. CASE held[o] # None \/ told[o] # None
    <3>1. CASE UNCHANGED <<held, told, finished, completed, dropped>>
      BY <2>1, <2>3, <3>1 DEF Known
    <3>2. ASSUME NEW p \in Orders, OrderStep(p) PROVE held'[o] # None \/ told'[o] # None
      BY <2>1, <2>3, <3>2 DEF OrderStep, Same, Works, EndsHere, Forgets, Drops, Working, Status, Terminal, None
    <3>3. QED
      BY <2>1, <3>1, <3>2, NextEffect DEF Known
  <2>4. QED
    BY <2>2, <2>3 DEF Known
<1>2. Known \subseteq Known'
  BY <1>1
<1>3. Reports \subseteq Reports'
  BY <1>2, ServerStep DEF Reports, EndTrades, EndReplay
<1>4. QED
  BY <1>2, <1>3, SeqMonotonic DEF TableInv

\* What the server sends is a good report.
LEMMA Sendable ==
    ASSUME TypeOK, TypeOK', NEW o \in Known', NEW v \in Nat, NEW st \in Codes, NEW q \in BOOLEAN
    PROVE  /\ Report(o, v, st, q) \in Reports'
           /\ v # 0 => CancelReject(o, v) \in Reports'
BY DEF Reports, Report, CancelReject

LEMMA StatusAnswerSendable ==
    ASSUME TypeOK, TypeOK', NEW o \in Known', o \in Orders
    PROVE  StatusAnswer(o) \in Reports'
<1>1. srvVer[o] \in Nat
  BY DEF TypeOK
<1>2. StatusAnswer(o) \in {Report(o, srvVer[o], st, TRUE) : st \in {"0", "1", "8"}}
  BY DEF StatusAnswer
<1>3. ASSUME NEW st \in {"0", "1", "8"} PROVE Report(o, srvVer[o], st, TRUE) \in Reports'
  BY <1>1, Sendable DEF Codes
<1>4. QED
  BY <1>2, <1>3

LEMMA Sent ==
    ASSUME wire \in Seq(Reports'), NEW r \in Reports', NEW q \in Reports'
    PROVE  /\ Append(wire, r) \in Seq(Reports')
           /\ wire \o <<r>> \in Seq(Reports')
           /\ wire \o <<r, q>> \in Seq(Reports')
<1> DEFINE R == Reports'
<1>1. wire \in Seq(R) /\ r \in R /\ q \in R
  OBVIOUS
<1> HIDE DEF R
<1>2. <<r>> \in Seq(R) /\ <<r, q>> \in Seq(R)
  BY <1>1
<1>3. Append(wire, r) \in Seq(R) /\ wire \o <<r>> \in Seq(R) /\ wire \o <<r, q>> \in Seq(R)
  BY <1>1, <1>2, AppendProperties, ConcatProperties
<1>4. QED
  BY <1>3 DEF R

\* A cancel that is written may be answered by its report or its refusal.
LEMMA CancelSent ==
    ASSUME TypeOK, TypeOK', NEW o \in Orders, o \in Known', wire \in Seq(Reports'), CancelWritten(o)
    PROVE  wire' \in Seq(Reports')
<1>1. version[o] + 1 \in Nat /\ version[o] + 1 # 0
  <2>1. version[o] \in Nat
    BY DEF TypeOK
  <2>2. QED
    BY <2>1
<1>2. \/ wire' = wire
      \/ wire' = Append(wire, Report(o, version[o] + 1, "4", FALSE))
      \/ wire' = Append(wire, CancelReject(o, version[o] + 1))
  BY DEF CancelWritten, TakesCancel, Refuses, WriteLost
<1>3. Report(o, version[o] + 1, "4", FALSE) \in Reports' /\ CancelReject(o, version[o] + 1) \in Reports'
  BY <1>1, Sendable DEF Codes
<1>4. QED
  BY <1>2, <1>3, Sent

\* The fills a reconnect asks for start at the last execution booked.
FirstAsked == IF lastExec = 0 THEN 1 ELSE lastExec

\* The trades reply and the status replay of a reconnect.
ReplyOf(trades, replayed) ==
    /\ trades \in Seq(Reports') /\ replayed \in Seq(Reports')
    /\ wire' = wire \o trades \o <<EndTrades>> \o replayed \o <<EndReplay>>
    /\ DOMAIN trades = 1 .. Len(execs) + 1 - FirstAsked
    /\ \A i \in DOMAIN trades :
         trades[i].kind = "fill" /\ trades[i].n = FirstAsked + i - 1 /\ ~trades[i].live
    /\ \A i \in DOMAIN trades : trades[i].ver = srvVer[execs[trades[i].n]]
    /\ \A i \in DOMAIN replayed :
         replayed[i].kind = "order" /\ \E o \in Orders : srv[o] = "working" /\ replayed[i] = StatusAnswer(o)
    /\ \A o \in Orders : srv[o] = "working" => \E i \in DOMAIN replayed : replayed[i] = StatusAnswer(o)

\* An order of a finite set goes through all of it.
LEMMA AllListed ==
    ASSUME NEW S, IsFiniteSet(S), NEW order \in SetToSeqs(S), NEW x \in S
    PROVE  \E i \in DOMAIN order : order[i] = x
<1> DEFINE k == Cardinality(S)
<1>1. /\ order \in [1 .. k -> S] /\ \A i, j \in 1 .. k : i # j => order[i] # order[j]
  BY DEF SetToSeqs
<1>2. SUFFICES ASSUME \A i \in 1 .. k : order[i] # x PROVE FALSE
  BY <1>1
<1>3. order \in [1 .. k -> S \ {x}]
  BY <1>1, <1>2
<1>4. k \in Nat /\ IsFiniteSet(S \ {x}) /\ Cardinality(S \ {x}) = k - 1
  BY FS_CardinalityType, FS_RemoveElement
<1>5. IsFiniteSet(1 .. k) /\ Cardinality(1 .. k) = k
  BY <1>4, FS_Interval
<1> HIDE DEF k
<1>6. Cardinality(S \ {x}) < Cardinality(1 .. k)
  BY <1>4, <1>5
<1>7. \E i, j \in 1 .. k : i # j /\ order[i] = order[j]
  BY <1>3, <1>4, <1>5, <1>6, FS_PigeonHole
<1>8. QED
  BY <1>1, <1>7

LEMMA FunctionIsSeq ==
    ASSUME NEW S, NEW n \in Nat, NEW f \in [1 .. n -> S]
    PROVE  f \in Seq(S)
BY SeqDef, Zenon

LEMMA ReconnectReply ==
    ASSUME TypeOK, TypeOK', TableInv, Known \subseteq Known', Reconnect
    PROVE  \E trades, replayed : ReplyOf(trades, replayed)
<1> DEFINE first == IF lastExec = 0 THEN 1 ELSE lastExec
           trades == [i \in 1 .. Len(execs) + 1 - first |->
                         Fill(first + i - 1, srvVer[execs[first + i - 1]], FALSE)]
           R == Reports'
<1>1. PICK order \in SetToSeqs({o \in Orders : srv[o] = "working"}) :
        wire' = wire \o trades \o <<EndTrades>> \o [i \in DOMAIN order |-> StatusAnswer(order[i])] \o <<EndReplay>>
  BY DEF Reconnect
<1> DEFINE replayed == [i \in DOMAIN order |-> StatusAnswer(order[i])]
           k == Cardinality({o \in Orders : srv[o] = "working"})
<1>2. UNCHANGED execs
  BY DEF Reconnect, server
<1>3. first \in Nat \ {0} /\ Len(execs) \in Nat
  BY DEF TypeOK
<1>4. ASSUME NEW i \in 1 .. Len(execs) + 1 - first
      PROVE  Fill(first + i - 1, srvVer[execs[first + i - 1]], FALSE) \in R
  <2> HIDE DEF first
  <2>1. first + i - 1 \in 1 .. Len(execs)
    BY <1>3
  <2>2. execs[first + i - 1] \in Orders
    BY <2>1, ElementOfSeq DEF TypeOK
  <2>3. srvVer[execs[first + i - 1]] \in Nat
    BY <2>2 DEF TypeOK
  <2>4. QED
    BY <1>2, <2>1, <2>3 DEF Reports, Fill
<1>5. trades \in Seq(R)
  <2> DEFINE m == Len(execs) + 1 - first
             n == IF m >= 0 THEN m ELSE 0
  <2>1. n \in Nat /\ 1 .. m = 1 .. n
    BY <1>3
  <2>2. trades \in [1 .. m -> R]
    <3> HIDE DEF R
    <3>1. QED
      BY <1>4
  <2> HIDE DEF m, n, trades, R
  <2>3. trades \in [1 .. n -> R]
    BY <2>1, <2>2
  <2>4. QED
    BY <2>1, <2>3, FunctionIsSeq
<1>6. order \in [1 .. k -> {o \in Orders : srv[o] = "working"}]
  BY DEF SetToSeqs
<1>7. replayed \in Seq(R)
  <2>1. ASSUME NEW i \in DOMAIN order PROVE StatusAnswer(order[i]) \in R
    <3>1. order[i] \in Orders /\ srv[order[i]] = "working"
      BY <1>6
    <3>2. order[i] \in Known'
      BY <3>1 DEF Known, None
    <3>3. QED
      BY <3>1, <3>2, StatusAnswerSendable
  <2>2. DOMAIN order = 1 .. k
    BY <1>6
  <2>3. k \in Nat
    <3>1. IsFiniteSet({o \in Orders : srv[o] = "working"})
      BY OrderBookAssumption, FS_Subset
    <3>2. QED
      BY <3>1, FS_CardinalityType
  <2> HIDE DEF R, k
  <2>4. replayed \in [1 .. k -> R]
    BY <2>1, <2>2
  <2> HIDE DEF replayed
  <2>5. QED
    BY <2>3, <2>4, FunctionIsSeq
<1>8. wire' = wire \o trades \o <<EndTrades>> \o replayed \o <<EndReplay>>
  BY <1>1
<1>9. DOMAIN trades = 1 .. Len(execs) + 1 - FirstAsked
  BY DEF FirstAsked
<1>10. \A i \in DOMAIN trades :
         trades[i].kind = "fill" /\ trades[i].n = FirstAsked + i - 1 /\ ~trades[i].live
  BY DEF FirstAsked, Fill
<1>11. \A i \in DOMAIN trades : trades[i].ver = srvVer[execs[trades[i].n]]
  BY DEF Fill
<1>12. \A i \in DOMAIN replayed :
         replayed[i].kind = "order" /\ \E o \in Orders : srv[o] = "working" /\ replayed[i] = StatusAnswer(o)
  <2>1. ASSUME NEW o PROVE StatusAnswer(o).kind = "order"
    BY DEF StatusAnswer, Report
  <2>2. QED
    BY <1>6, <2>1
<1>13. \A o \in Orders : srv[o] = "working" => \E i \in DOMAIN replayed : replayed[i] = StatusAnswer(o)
  <2> SUFFICES ASSUME NEW o \in Orders, srv[o] = "working"
               PROVE  \E i \in DOMAIN replayed : replayed[i] = StatusAnswer(o)
    OBVIOUS
  <2>1. IsFiniteSet({p \in Orders : srv[p] = "working"})
    BY OrderBookAssumption, FS_Subset
  <2>2. \E i \in DOMAIN order : order[i] = o
    BY <2>1, AllListed
  <2>3. QED
    BY <2>2
<1> HIDE DEF trades, replayed, first
<1>14. ReplyOf(trades, replayed)
  BY ONLY <1>5, <1>7, <1>8, <1>9, <1>10, <1>11, <1>12, <1>13, Zenon DEF ReplyOf, R
<1>15. QED
  BY <1>14

LEMMA ReconnectSent ==
    ASSUME TypeOK, TypeOK', TableInv, Known \subseteq Known', wire \in Seq(Reports'), Reconnect
    PROVE  wire' \in Seq(Reports')
<1>1. PICK trades, replayed : ReplyOf(trades, replayed)
  BY ReconnectReply
<1> DEFINE R == Reports'
<1>2. /\ trades \in Seq(R) /\ replayed \in Seq(R) /\ wire \in Seq(R)
      /\ <<EndTrades>> \in Seq(R) /\ <<EndReplay>> \in Seq(R)
      /\ wire' = wire \o trades \o <<EndTrades>> \o replayed \o <<EndReplay>>
  BY <1>1 DEF ReplyOf, Reports
<1> HIDE DEF R
<1>3. wire' \in Seq(R)
  BY <1>2, ConcatProperties
<1>4. QED
  BY <1>3 DEF R

LEMMA WireStep ==
    ASSUME TypeOK, TableInv, [Next]_vars
    PROVE  wire' \in Seq(Reports')
<1>1. TypeOK' /\ Known \subseteq Known' /\ Reports \subseteq Reports' /\ wire \in Seq(Reports')
  BY NextEffect, ReportsGrow
<1>2. CASE wire' = wire
  BY <1>1, <1>2
<1>3. ASSUME Reading, wire' = Tail(wire) PROVE wire' \in Seq(Reports')
  BY <1>1, <1>3, HeadTailProperties DEF Reading
<1>4. CASE SendNew
  <2> DEFINE o == Head(pend).o
  <2>1. o \in Orders
    BY <1>4, HeadRequest DEF SendNew
  <2>2. CASE TakesNew(o)
    <3>1. o \in Known'
      BY <2>1, <2>2 DEF TakesNew, Known, TypeOK, None
    <3>2. wire' \in {Append(wire, Report(o, 0, "0", FALSE)), Append(wire, Report(o, 0, "8", FALSE))}
      BY <2>2 DEF TakesNew
    <3>3. Report(o, 0, "0", FALSE) \in Reports' /\ Report(o, 0, "8", FALSE) \in Reports'
      BY <1>1, <3>1, Sendable DEF Codes
    <3>4. QED
      BY <1>1, <3>2, <3>3, Sent
  <2>3. QED
    BY <1>2, <1>4, <2>2 DEF SendNew, WriteLost, WriteFails
<1>5. CASE SendCancel
  <2> DEFINE o == Head(pend).o
  <2>1. o \in Orders
    BY <1>5, HeadRequest DEF SendCancel
  <2>2. CASE Cancellable(o) /\ CancelWritten(o)
    <3>1. o \in Known'
      BY <1>1, <2>1, <2>2 DEF Cancellable, Known
    <3>2. QED
      BY <1>1, <2>1, <2>2, <3>1, CancelSent
  <2>3. QED
    BY <1>2, <1>5, <2>2 DEF SendCancel, WriteFails
<1>6. CASE SendModify
  <2> DEFINE o == Head(pend).o
             v == version[o] + 1
  <2>1. o \in Orders
    BY <1>6, HeadRequest DEF SendModify
  <2>2. CASE Cancellable(o) /\ TakesModify(o, v, Orig(o))
    <3>1. o \in Known'
      BY <1>1, <2>1, <2>2 DEF Cancellable, Known
    <3>2. v \in Nat /\ v # 0
      <4>1. version[o] \in Nat
        BY <2>1 DEF TypeOK
      <4>2. QED
        BY <4>1
    <3> HIDE DEF o, v
    <3>3. \/ wire' = wire \o <<Report(o, v, "6", FALSE), Report(o, v, "5", FALSE)>>
          \/ wire' = Append(wire, CancelReject(o, v))
      BY <2>2 DEF TakesModify, Refuses
    <3>4. /\ Report(o, v, "6", FALSE) \in Reports' /\ Report(o, v, "5", FALSE) \in Reports'
          /\ CancelReject(o, v) \in Reports'
      BY <1>1, <3>1, <3>2, Sendable DEF Codes
    <3>5. QED
      BY <1>1, <3>3, <3>4, Sent
  <2>3. QED
    BY <1>2, <1>6, <2>2 DEF SendModify, WriteLost, WriteFails
<1>7. ASSUME NEW o \in Orders, WalkCancel(o) PROVE wire' \in Seq(Reports')
  <2>1. o \in Known'
    BY <1>1, <1>7 DEF WalkCancel, TableInv, Known
  <2>2. QED
    BY <1>1, <1>2, <1>7, <2>1, CancelSent DEF WalkCancel, WriteFails
<1>8. CASE ReadOrder \/ ReadOutageFill \/ ReadFill \/ ReadEndTrades \/ ReadEndReplay
  BY <1>3, <1>8 DEF ReadOrder, ReadOutageFill, ReadFill, ReadEndTrades, ReadEndReplay
<1>9. CASE ReadCancelReject
  <2> DEFINE o == Head(wire).o
  <2>1. Reading /\ o \in Known' /\ o \in Orders
    BY <1>1, <1>9, HeadReport DEF ReadCancelReject, Known
  <2>2. Tail(wire) \in Seq(Reports')
    BY <1>1, <2>1, HeadTailProperties DEF Reading
  <2>3. StatusAnswer(o) \in Reports'
    BY <1>1, <2>1, StatusAnswerSendable
  <2>4. Append(Tail(wire), StatusAnswer(o)) \in Seq(Reports')
    BY <2>2, <2>3, AppendProperties
  <2>5. wire' \in {Tail(wire), Append(Tail(wire), StatusAnswer(o))}
    BY <1>9 DEF ReadCancelReject
  <2>6. QED
    BY <2>2, <2>4, <2>5
<1>10. ASSUME NEW o \in Orders, ServerFills(o) PROVE wire' \in Seq(Reports')
  <2>1. Len(execs') = Len(execs) + 1 /\ Len(execs) \in Nat /\ srvVer[o] \in Nat
    BY <1>10 DEF ServerFills, TypeOK
  <2>2. Fill(Len(execs) + 1, srvVer[o], TRUE) \in Reports'
    BY <2>1 DEF Reports, Fill
  <2>3. wire' = wire \/ wire' = wire \o <<Fill(Len(execs) + 1, srvVer[o], TRUE)>>
    BY <1>10 DEF ServerFills, Emit
  <2>4. QED
    BY <1>1, <2>2, <2>3, Sent
<1>11. ASSUME NEW o \in Orders, ServerCancels(o) PROVE wire' \in Seq(Reports')
  <2>1. o \in Known' /\ srvVer[o] \in Nat
    BY <1>1, <1>11 DEF ServerCancels, TypeOK, Known, None
  <2>2. Report(o, srvVer[o], "4", FALSE) \in Reports'
    BY <1>1, <2>1, Sendable DEF Codes
  <2>3. wire' = wire \/ wire' = wire \o <<Report(o, srvVer[o], "4", FALSE)>>
    BY <1>11 DEF ServerCancels, Emit
  <2>4. QED
    BY <1>1, <2>2, <2>3, Sent
<1>12. CASE Cut
  <2>1. PICK n \in 0 .. Len(wire) : wire' = SubSeq(wire, 1, n)
    BY <1>12 DEF Cut
  <2>2. n \in Int /\ \A i \in 1 .. n : wire[i] \in Reports'
    BY <1>1, <2>1, LenProperties
  <2>3. QED
    BY <2>1, <2>2, SubSeqProperties
<1>13. CASE Reconnect
  BY <1>1, <1>13, ReconnectSent
<1>14. CASE (\E r \in Request : Command(r)) \/ StartGlobalCancel \/ HandleDisconnect \/ Relogin \/ UNCHANGED vars
  BY <1>2, <1>14 DEF Command, StartGlobalCancel, HandleDisconnect, Relogin, vars
<1>15. QED
  BY <1>4, <1>5, <1>6, <1>7, <1>8, <1>9, <1>10, <1>11, <1>12, <1>13, <1>14 DEF Next

-----------------------------------------------------------------------------
(***************************************************************************)
(* The invariant.                                                          *)
(***************************************************************************)
\* The orders a global cancel has still to go through stay in the table.
LEMMA WalkStep ==
    ASSUME TypeOK, TableInv, [Next]_vars
    PROVE  \A o \in walk' : held'[o] # None
<1> USE DEF TableInv
<1>1. CASE walk' = {}
  BY <1>1
<1>2. CASE walk' = walk /\ held' = held
  BY <1>2
<1>3. CASE SendNew \/ SendCancel \/ SendModify
  BY <1>1, <1>3 DEF SendNew, SendCancel, SendModify, Drain
<1>4. CASE StartGlobalCancel
  BY <1>4 DEF StartGlobalCancel, Cancellable, table
<1>5. ASSUME NEW o \in Orders, WalkCancel(o) PROVE \A p \in walk' : held'[p] # None
  <2>1. walk' = walk \ {o} /\ walk \subseteq Orders
    BY <1>5 DEF WalkCancel, TypeOK
  <2>2. held' = held \/ OrderStep(o)
    BY <1>5, WalkCancelEffect
  <2>3. QED
    BY <2>1, <2>2 DEF OrderStep, Same
<1>6. CASE ReadOrder \/ ReadOutageFill \/ ReadFill
  BY <1>1, <1>6 DEF ReadOrder, ReadOutageFill, ReadFill, Reading
<1>7. CASE \/ (\E r \in Request : Command(r)) \/ ReadCancelReject \/ ReadEndTrades \/ ReadEndReplay
           \/ (\E o \in Orders : ServerFills(o) \/ ServerCancels(o))
           \/ Cut \/ HandleDisconnect \/ Relogin \/ Reconnect \/ UNCHANGED vars
  BY <1>2, <1>7 DEF Command, ReadCancelReject, ReadEndTrades, ReadEndReplay, ServerFills, ServerCancels,
                    Cut, HandleDisconnect, Relogin, Reconnect, vars, table
<1>8. QED
  BY <1>3, <1>4, <1>5, <1>6, <1>7 DEF Next

\* A new request names an id that nobody has heard of until it is sent.
LEMMA UnusedStep ==
    ASSUME TypeOK, TableInv, [Next]_vars
    PROVE  pend' # <<>> /\ Head(pend').kind = "new" => Head(pend').o \in Orders \ Known'
<1>1. CASE pend' = <<>>
  BY <1>1
<1>2. ASSUME NEW r \in Request, Command(r)
      PROVE  pend' # <<>> /\ Head(pend').kind = "new" => Head(pend').o \in Orders \ Known'
  <2>1. Head(pend') = r /\ UNCHANGED <<srv, held, told>>
    BY <1>2 DEF Command, server, table, client
  <2>2. r.kind = "new" => r.o \in Orders \ Known'
    BY <1>2, <2>1 DEF Command, Known, Request
  <2>3. QED
    BY <2>1, <2>2
<1>3. ASSUME UNCHANGED pend, UNCHANGED srv \/ \E p \in Known : \A q \in Orders \ {p} : srv'[q] = srv[q],
             UNCHANGED <<held, told>> \/ \E p \in Known : OrderStep(p)
      PROVE  pend' # <<>> /\ Head(pend').kind = "new" => Head(pend').o \in Orders \ Known'
  <2> SUFFICES ASSUME pend # <<>>, Head(pend).kind = "new" PROVE Head(pend).o \notin Known'
    BY <1>3 DEF TableInv
  <2> DEFINE o == Head(pend).o
  <2>1. o \in Orders /\ o \notin Known
    BY DEF TableInv
  <2>2. srv'[o] = srv[o]
    BY <1>3, <2>1
  <2>3. held'[o] = held[o] /\ told'[o] = told[o]
    BY <1>3, <2>1 DEF OrderStep, Same
  <2>4. QED
    BY <2>1, <2>2, <2>3 DEF Known
<1>4. CASE SendNew \/ SendCancel \/ SendModify \/ StartGlobalCancel
  BY <1>1, <1>4 DEF SendNew, SendCancel, SendModify, StartGlobalCancel, Drain
<1>5. ASSUME NEW o \in Orders, WalkCancel(o)
      PROVE  pend' # <<>> /\ Head(pend').kind = "new" => Head(pend').o \in Orders \ Known'
  <2>1. UNCHANGED pend /\ o \in Known
    BY <1>5 DEF WalkCancel, TableInv, Known
  <2>2. \A q \in Orders \ {o} : srv'[q] = srv[q]
    BY <1>5 DEF WalkCancel, CancelWritten, TakesCancel, Refuses, WriteLost, WriteFails, server, TypeOK
  <2>3. UNCHANGED <<held, told>> \/ OrderStep(o)
    BY <1>5, WalkCancelEffect
  <2>4. QED
    BY <1>3, <2>1, <2>2, <2>3
<1>6. CASE ReadOrder \/ ReadOutageFill \/ ReadFill
  <2>1. UNCHANGED <<pend, srv>>
    BY <1>6 DEF ReadOrder, ReadOutageFill, ReadFill, server
  <2>2. \E p \in Known : OrderStep(p)
    BY <1>6, ReadOrderEffect, ReadOutageFillEffect, ReadFillEffect
  <2>3. QED
    BY <1>3, <2>1, <2>2
<1>7. ASSUME NEW o \in Orders, ServerFills(o) \/ ServerCancels(o)
      PROVE  pend' # <<>> /\ Head(pend').kind = "new" => Head(pend').o \in Orders \ Known'
  <2>1. UNCHANGED <<pend, held, told>> /\ o \in Known
    BY <1>7 DEF ServerFills, ServerCancels, table, client, Known, None
  <2>2. \A q \in Orders \ {o} : srv'[q] = srv[q]
    BY <1>7 DEF ServerFills, ServerCancels, TypeOK
  <2>3. QED
    BY <1>3, <2>1, <2>2
<1>8. CASE ReadCancelReject \/ ReadEndTrades \/ ReadEndReplay \/ Cut \/ HandleDisconnect \/ Relogin \/ Reconnect
             \/ UNCHANGED vars
  <2>1. UNCHANGED <<pend, srv, held, told>>
    BY <1>8 DEF ReadCancelReject, ReadEndTrades, ReadEndReplay, Cut, HandleDisconnect, Relogin, Reconnect, vars,
                server, table, client
  <2>2. QED
    BY <1>3, <2>1
<1>9. QED
  BY <1>2, <1>4, <1>5, <1>6, <1>7, <1>8 DEF Next

\* An order that ended is neither held nor given another status.
LEMMA TableStep ==
    ASSUME TypeOK, TableInv, [Next]_vars
    PROVE  TypeOK' /\ TableInv'
<1>1. \A o \in Orders : finished'[o] # None => held'[o] = None /\ told'[o] # None
  <2>1. CASE UNCHANGED <<held, told, finished, completed, dropped>>
    BY <2>1 DEF TableInv
  <2>2. ASSUME NEW p \in Orders, OrderStep(p)
        PROVE  \A o \in Orders : finished'[o] # None => held'[o] = None /\ told'[o] # None
    BY <2>2 DEF OrderStep, Same, Works, EndsHere, Forgets, Drops, TableInv, Terminal, None
  <2>3. QED
    BY <2>1, <2>2, NextEffect DEF Known
<1>2. QED
  BY <1>1, NextEffect, ServerStep, WireStep, WalkStep, UnusedStep DEF TableInv

\* The client has the final status of an order that ended, and its record.
LEMMA GivenStep ==
    ASSUME TypeOK, TableInv, GivenInv, [Next]_vars
    PROVE  GivenInv'
<1>1. CASE UNCHANGED <<held, told, finished, completed, dropped>>
  BY <1>1 DEF GivenInv
<1>2. ASSUME NEW p \in Orders, OrderStep(p) PROVE GivenInv'
  <2> SUFFICES ASSUME NEW o \in Orders \ dropped'
               PROVE  /\ told'[o] \in Terminal <=> finished'[o] # None
                      /\ finished'[o] # None => told'[o] = finished'[o]
                      /\ completed'[o] = IF told'[o] \in Terminal THEN 1 ELSE 0
    BY DEF GivenInv
  <2>1. o \in Orders \ dropped /\ completed[o] \in Nat
    BY <1>2 DEF OrderStep, TypeOK
  <2>2. /\ told[o] \in Terminal <=> finished[o] # None
        /\ finished[o] # None => told[o] = finished[o]
        /\ completed[o] = IF told[o] \in Terminal THEN 1 ELSE 0
    BY <2>1 DEF GivenInv
  <2>3. Same(o) \/ Works(o) \/ EndsHere(o) \/ Forgets(o)
    BY <1>2 DEF OrderStep
  <2>4. CASE Same(o)
    BY <2>2, <2>4 DEF Same
  <2>5. CASE Works(o)
    BY <2>2, <2>5 DEF Works, Working
  <2>6. CASE EndsHere(o)
    BY <2>2, <2>6 DEF EndsHere, Terminal, None
  <2>7. CASE Forgets(o)
    BY <2>2, <2>7 DEF Forgets, Terminal
  <2>8. QED
    BY <2>3, <2>4, <2>5, <2>6, <2>7
<1>3. QED
  BY <1>1, <1>2, NextEffect DEF Known

LEMMA InvInit == Init => TypeOK /\ TableInv /\ GivenInv
<1> SUFFICES ASSUME Init PROVE TypeOK /\ TableInv /\ GivenInv
  OBVIOUS
<1>1. Len(<<>>) = 0 /\ <<>> \in Seq(Request) /\ <<>> \in Seq(Orders) /\ <<>> \in Seq(1 .. MaxExecs)
      /\ <<>> \in Seq(Reports)
  BY EmptySeq
<1>2. TypeOK
  <2>1. /\ 0 \in 0 .. MaxExecs /\ 0 \in 0 .. MaxLosses /\ 0 \in 0 .. MaxRequests
        /\ 0 <= MaxExecs /\ 0 <= Window /\ 0 <= 1
    BY OrderBookAssumption
  <2>2. /\ execs \in Seq(Orders) /\ Len(execs) <= MaxExecs /\ pend \in Seq(Request) /\ Len(pend) <= 1
        /\ seen \in Seq(1 .. MaxExecs) /\ Len(seen) <= Window
    BY <1>1, <2>1 DEF Init
  <2>3. /\ lastClord \in [Orders -> Nat \cup {NoClord}] /\ cancelClord \in [Orders -> Nat \cup {NoClord}]
        /\ version \in [Orders -> Nat] /\ srvVer \in [Orders -> Nat] /\ completed \in [Orders -> Nat]
    BY DEF Init
  <2>4. QED
    BY <2>1, <2>2, <2>3 DEF Init, TypeOK
<1>3. TableInv
  BY <1>1 DEF Init, TableInv
<1>4. GivenInv
  BY DEF Init, GivenInv, Terminal, None
<1>5. QED
  BY <1>2, <1>3, <1>4

\* The types of the order table, whatever cancels and modifies are refused and
\* however their versions go back: a version never goes below zero.
THEOREM TypeCorrect == Spec => []TypeOK
<1>1. TypeOK /\ TableInv /\ [Next]_vars => TypeOK' /\ TableInv'
  BY TableStep
<1>2. QED
  BY <1>1, InvInit, PTL DEF Spec

\* An order that ended was given its final status, no other after it, and one
\* completed record, through losses, replays and duplicates of its reports.
THEOREM FinalStatusGiven == Spec => []FinalGiven
<1>1. TypeOK /\ TableInv /\ GivenInv /\ [Next]_vars => TypeOK' /\ TableInv' /\ GivenInv'
  BY TableStep, GivenStep
<1>2. GivenInv => FinalGiven
  BY DEF GivenInv, FinalGiven
<1>3. QED
  BY <1>1, <1>2, InvInit, PTL DEF Spec

-----------------------------------------------------------------------------
(***************************************************************************)
(* The ledger.  An execution is booked once, and once more only after the  *)
(* window of remembered ids has let it go.                                 *)
(***************************************************************************)
\* The executions in the position are those remembered and those let go.
BooksInv ==
    /\ \A m \in counted : Seen(m) \/ m \in evicted
    /\ \A m : Seen(m) => m \in counted
    /\ evicted \subseteq counted

\* The position without what was counted again.
Once == position - recounted

\* What is booked was not in the position, or had left the window.
LEMMA BookedOnce ==
    ASSUME TypeOK, BooksInv, NEW n \in 1 .. MaxExecs, BookOnce(n)
    PROVE  /\ BooksInv'
           /\ \/ counted' = counted /\ Once' = Once
              \/ n \notin counted /\ counted' = counted \cup {n} /\ Once' = Once + 1
<1>1. CASE Seen(n)
  BY <1>1 DEF BookOnce, books, BooksInv, Seen, Once
<1>2. CASE ~Seen(n)
  <2>1. Book(n) /\ Remember(n)
    BY <1>2 DEF BookOnce, Book
  <2>2. /\ counted' = counted \cup {n} /\ position' = position + 1
        /\ recounted' = IF n \in evicted THEN recounted + 1 ELSE recounted
        /\ position \in Nat /\ recounted \in Nat
    BY <2>1 DEF Book, TypeOK
  <2>3. ASSUME evicted' = evicted \ {n},
               \A m : Seen(m) => Seen(m)',
               \A m : Seen(m)' => Seen(m) \/ m = n,
               Seen(n)'
        PROVE  BooksInv'
    BY ONLY BooksInv, <2>2, <2>3 DEF BooksInv
  <2>4. ASSUME NEW e \in 1 .. MaxExecs,
               Seen(e), evicted' = (evicted \ {n}) \cup {e},
               \A m : Seen(m) => Seen(m)' \/ m = e,
               \A m : Seen(m)' => Seen(m) \/ m = n,
               Seen(n)'
        PROVE  BooksInv'
    BY ONLY BooksInv, <2>2, <2>4 DEF BooksInv
  <2>5. BooksInv'
    BY <2>1, <2>3, <2>4, Remembered
  <2>6. CASE n \in evicted
    <3>1. counted' = counted
      BY <2>2, <2>6 DEF BooksInv
    <3>2. Once' = Once
      BY ONLY <2>2, <2>6 DEF Once
    <3>3. QED
      BY <2>5, <3>1, <3>2
  <2>7. CASE n \notin evicted
    <3>1. n \notin counted
      BY <1>2, <2>7 DEF BooksInv
    <3>2. Once' = Once + 1
      BY ONLY <2>2, <2>7 DEF Once
    <3>3. QED
      BY <2>2, <2>5, <3>1, <3>2
  <2>8. QED
    BY <2>6, <2>7
<1>3. QED
  BY <1>1, <1>2

\* Only an execution that is read is booked.
LEMMA BooksStep ==
    ASSUME TypeOK, TableInv, BooksInv, [Next]_vars
    PROVE  /\ BooksInv'
           /\ \/ counted' = counted /\ Once' = Once
              \/ /\ ReadFill \/ ReadOutageFill
                 /\ \E n \in 1 .. MaxExecs :
                       n \notin counted /\ counted' = counted \cup {n} /\ Once' = Once + 1
<1>1. CASE UNCHANGED books
  BY <1>1 DEF books, BooksInv, Seen, Once
<1>2. CASE ReadFill \/ ReadOutageFill
  <2>1. Head(wire).n \in 1 .. MaxExecs /\ BookOnce(Head(wire).n)
    BY <1>2, FillReport DEF ReadFill, ReadOutageFill
  <2>2. QED
    BY <1>2, <2>1, BookedOnce
<1>3. CASE ~(ReadFill \/ ReadOutageFill)
  <2>1. UNCHANGED books
    BY <1>3 DEF Next, vars, Command, SendNew, SendCancel, SendModify, StartGlobalCancel, WalkCancel,
                ReadOrder, ReadCancelReject, ReadEndTrades, ReadEndReplay, ServerFills, ServerCancels,
                Cut, HandleDisconnect, Relogin, Reconnect
  <2>2. QED
    BY <1>1, <2>1
<1>4. QED
  BY <1>2, <1>3

\* One of the effects on an order is one of the ledger's steps.
LEMMA OrderStepLedger ==
    ASSUME TypeOK, TableInv, NEW o \in Orders, OrderStep(o)
    PROVE  Ledger!Turn(o)
<1> USE DEF Ledger!Turn
<1> USE DEF OrderStep, Same
<1>1. CASE Same(o)
  BY <1>1
<1>2. CASE Works(o)
  <2>1. held'[o] # None /\ finished'[o] = None /\ finished[o] = None
    BY <1>2 DEF Works, Working, Status, None
  <2>2. CASE held[o] = None
    BY <2>1, <2>2 DEF Ledger!Open
  <2>3. CASE held[o] # None
    BY <2>1, <2>3
  <2>4. QED
    BY <2>2, <2>3
<1>3. CASE EndsHere(o)
  <2>1. held'[o] = None /\ held[o] # None /\ finished'[o] # None
    BY <1>3 DEF EndsHere, Terminal, None
  <2>2. QED
    BY <2>1 DEF Ledger!Close
<1>4. CASE Forgets(o) \/ Drops(o)
  <2>1. held'[o] = None /\ finished'[o] = None /\ finished[o] = None
    BY <1>4 DEF Forgets, Drops
  <2>2. CASE held[o] = None
    BY <2>1, <2>2
  <2>3. CASE held[o] # None
    BY <2>1, <2>3 DEF Ledger!LoseSight
  <2>4. QED
    BY <2>2, <2>3
<1>5. QED
  BY <1>1, <1>2, <1>3, <1>4

\* Every step of the order book is a step of the ledger or leaves it alone.
LEMMA LedgerStep ==
    ASSUME TypeOK, TableInv, BooksInv, [Next]_vars
    PROVE  [Ledger!Next]_(Ledger!vars)
<1>1. ASSUME NEW o \in Orders, OrderStep(o), counted' = counted, Once' = Once PROVE Ledger!Next
  BY <1>1, OrderStepLedger DEF Ledger!Next, Once
<1>2. CASE UNCHANGED <<held, told, finished, completed, dropped>> /\ counted' = counted /\ Once' = Once
  BY <1>2 DEF Ledger!vars, Once
<1>3. CASE counted' = counted /\ Once' = Once
  BY <1>1, <1>2, <1>3, NextEffect DEF Known
<1>4. ASSUME ReadFill \/ ReadOutageFill, NEW n \in 1 .. MaxExecs,
             n \notin counted, counted' = counted \cup {n}, Once' = Once + 1
      PROVE  Ledger!Next
  <2>1. PICK o \in Orders : OrderStep(o)
    BY <1>4, ReadFillEffect, ReadOutageFillEffect DEF Known
  <2>2. Ledger!Turn(o) /\ Ledger!Count(n)
    BY <1>4, <2>1, OrderStepLedger DEF Ledger!Count, Once
  <2>3. QED
    BY <1>4, <2>2 DEF Ledger!Next
<1>5. QED
  BY <1>3, <1>4, BooksStep

\* The order book implements the ledger: no report, duplicate, replay or status
\* answer brings an order back that ended, and none books an execution
\* twice, but one that comes again after the window of remembered ids has let
\* it go: the position is off by those bookings and by no more.
THEOREM BookIsALedger == Spec => LedgerSpec
<1>1. Init => BooksInv /\ Ledger!Init
  BY EmptySeq DEF Init, BooksInv, Ledger!Init, Seen
<1>2. TypeOK /\ TableInv /\ BooksInv /\ [Next]_vars => TypeOK' /\ TableInv' /\ BooksInv' /\ [Ledger!Next]_(Ledger!vars)
  BY TableStep, BooksStep, LedgerStep
<1>3. QED
  BY <1>1, <1>2, InvInit, PTL DEF Spec, LedgerSpec, Ledger!Spec

-----------------------------------------------------------------------------
(***************************************************************************)
(* No execution is lost.  Each one not booked yet is on its way, or is     *)
(* past the last one booked, so that the next trades reply brings it.      *)
(***************************************************************************)
Places    == 1 .. Len(wire)
FillAt(i) == wire[i].kind = "fill"
Mark(e)   == wire[e].kind = "endTrades"

\* The executions not in the position.
Missing == (1 .. Len(execs)) \ counted

\* A live fill the engine reads before the trades reply has ended.
Ahead(i) == fillUp /\ wire[i].live /\ \A e \in 1 .. i - 1 : ~Mark(e)

\* A trades reply is on its way only when it is awaited, and has one end, after
\* its fills; the fills come in their order, but for live ones ahead of it.
WireInv ==
    /\ early => fillUp
    /\ Disconnected => ~fillUp
    /\ \A i \in Places : FillAt(i) /\ ~wire[i].live => fillUp
    /\ \A e \in Places : Mark(e) => fillUp
    /\ \A e, d \in Places : Mark(e) /\ Mark(d) => e = d
    /\ \A i, e \in Places : FillAt(i) /\ ~wire[i].live /\ Mark(e) => i < e
    /\ \A i, j \in Places :
         FillAt(i) /\ FillAt(j) /\ i < j /\ (wire[i].live => wire[j].live) => wire[i].n < wire[j].n

\* Only executions that were made are booked, and remembered when booked.
CountInv ==
    /\ counted \subseteq 1 .. Len(execs) /\ lastExec \in 0 .. Len(execs)
    /\ \A i \in DOMAIN seen : seen[i] \in counted

\* What is missing is past the last execution booked, or a live fill was read
\* ahead of the trades reply;
PastInv == ~hole /\ ~early => \A m \in Missing : lastExec < m

\* it comes before the end of the reply, or is past all that does;
MarkInv ==
    ~hole => \A e \in Places : Mark(e) => \A m \in Missing :
        \/ \E i \in 1 .. e - 1 : FillAt(i) /\ wire[i].n = m
        \/ lastExec < m /\ \A i \in 1 .. e - 1 : FillAt(i) => wire[i].n < m

\* and is on its way, or was lost with the link and is past what is left.
ComeInv ==
    ~hole /\ ~Disconnected => \A m \in Missing :
        \/ \E i \in Places : FillAt(i) /\ wire[i].n = m
        \/ link = "down" /\ \A i \in Places : FillAt(i) /\ ~Ahead(i) => wire[i].n < m

FillsInv == WireInv /\ CountInv /\ PastInv /\ MarkInv /\ ComeInv

\* What the wire has came from d places further on it.
Shifted(d) ==
    /\ Len(wire) \in Nat /\ Len(wire') \in Nat /\ d \in {0, 1}
    /\ \A i \in 1 .. Len(wire') : FillAt(i)' \/ Mark(i)' => i + d \in Places /\ wire'[i] = wire[i + d]

\* ... and what came after those is still on it.
Stays(d) ==
    /\ Shifted(d)
    /\ \A i \in Places : i > d /\ (FillAt(i) \/ Mark(i)) => i - d \in 1 .. Len(wire') /\ wire'[i - d] = wire[i]

\* A wire that lost its head or its end keeps its order.
LEMMA WireShifts ==
    ASSUME NEW d, WireInv, Shifted(d), fillUp' = fillUp, early' => fillUp, Disconnected' => ~fillUp
    PROVE  WireInv'
<1> USE DEF Shifted, Places, FillAt, Mark
<1>1. \A i \in Places' : FillAt(i)' /\ ~wire'[i].live => fillUp'
  BY DEF WireInv
<1>2. \A e \in Places' : Mark(e)' => fillUp'
  BY DEF WireInv
<1>3. ASSUME NEW e \in Places', NEW c \in Places', Mark(e)', Mark(c)' PROVE e = c
  <2>1. e + d \in Places /\ c + d \in Places /\ Mark(e + d) /\ Mark(c + d)
    BY <1>3
  <2>2. e + d = c + d
    BY <2>1 DEF WireInv
  <2>3. QED
    BY <2>2
<1>4. ASSUME NEW i \in Places', NEW e \in Places', FillAt(i)', ~wire'[i].live, Mark(e)' PROVE i < e
  <2>1. /\ i + d \in Places /\ e + d \in Places /\ FillAt(i + d) /\ ~wire[i + d].live /\ Mark(e + d)
    BY <1>4
  <2>2. i + d < e + d
    BY <2>1 DEF WireInv
  <2>3. QED
    BY <2>2
<1>5. \A i, j \in Places' :
         FillAt(i)' /\ FillAt(j)' /\ i < j /\ (wire'[i].live => wire'[j].live) => wire'[i].n < wire'[j].n
  <2> SUFFICES ASSUME NEW i \in Places', NEW j \in Places', FillAt(i)', FillAt(j)', i < j,
                      wire'[i].live => wire'[j].live
               PROVE  wire'[i].n < wire'[j].n
    OBVIOUS
  <2>1. i + d \in Places /\ j + d \in Places /\ i + d < j + d /\ wire'[i] = wire[i + d] /\ wire'[j] = wire[j + d]
    OBVIOUS
  <2>2. QED
    BY <2>1 DEF WireInv
<1>6. QED
  BY <1>1, <1>2, <1>3, <1>4, <1>5 DEF WireInv

\* What an execution read, or a report that is not one, leaves of what is
\* missing comes as before.
LEMMA ComesStill ==
    ASSUME NEW d, FillsInv, Stays(d), UNCHANGED <<link, fillUp, hole>>, Missing' \subseteq Missing,
           d = 1 => ~Mark(1) /\ (FillAt(1) => \A m \in Missing' : wire[1].n # m),
           lastExec' = lastExec \/ (d = 1 /\ FillAt(1) /\ lastExec' = wire[1].n)
    PROVE  MarkInv' /\ ComeInv'
<1>1. MarkInv'
  <2> SUFFICES ASSUME ~hole, NEW e \in Places', Mark(e)', NEW m \in Missing'
               PROVE  \/ \E i \in 1 .. e - 1 : FillAt(i)' /\ wire'[i].n = m
                      \/ lastExec' < m /\ \A i \in 1 .. e - 1 : FillAt(i)' => wire'[i].n < m
    BY DEF MarkInv
  <2>1. e + d \in Places /\ Mark(e + d) /\ e \in Nat \ {0} /\ d \in {0, 1}
    BY DEF Stays, Shifted, Mark, Places
  <2>2. \/ \E i \in 1 .. (e + d) - 1 : FillAt(i) /\ wire[i].n = m
        \/ lastExec < m /\ \A i \in 1 .. (e + d) - 1 : FillAt(i) => wire[i].n < m
    BY <2>1 DEF FillsInv, MarkInv
  <2>3. ASSUME NEW i \in 1 .. (e + d) - 1, FillAt(i), wire[i].n = m
        PROVE  \E j \in 1 .. e - 1 : FillAt(j)' /\ wire'[j].n = m
    <3>1. i \in Places /\ i > d
      BY <2>1, <2>3 DEF Places, Stays, Shifted
    <3>2. i - d \in 1 .. e - 1 /\ wire'[i - d] = wire[i]
      BY <2>3, <3>1 DEF Stays, Shifted, Places
    <3>3. QED
      BY <2>3, <3>2 DEF FillAt
  <2>4. ASSUME lastExec < m, \A i \in 1 .. (e + d) - 1 : FillAt(i) => wire[i].n < m
        PROVE  lastExec' < m /\ \A i \in 1 .. e - 1 : FillAt(i)' => wire'[i].n < m
    <3>1. lastExec' < m
      <4>1. CASE d = 1 /\ FillAt(1) /\ lastExec' = wire[1].n
        BY <2>1, <2>4, <4>1
      <4>2. QED
        BY <2>4, <4>1
    <3>2. ASSUME NEW i \in 1 .. e - 1, FillAt(i)' PROVE wire'[i].n < m
      <4>1. i \in 1 .. Len(wire') /\ i + d \in 1 .. (e + d) - 1
        BY <2>1 DEF Stays, Shifted, Places
      <4>2. wire'[i] = wire[i + d]
        BY <3>2, <4>1 DEF Stays, Shifted
      <4>3. QED
        BY <2>4, <3>2, <4>1, <4>2 DEF FillAt
    <3>3. QED
      BY <3>1, <3>2
  <2>5. QED
    BY <2>2, <2>3, <2>4
<1>2. ComeInv'
  <2> SUFFICES ASSUME ~hole, ~Disconnected, NEW m \in Missing'
               PROVE  \/ \E i \in Places' : FillAt(i)' /\ wire'[i].n = m
                      \/ link = "down" /\ \A i \in Places' : FillAt(i)' /\ ~Ahead(i)' => wire'[i].n < m
    BY DEF ComeInv, Disconnected
  <2>1. ASSUME NEW i \in Places, FillAt(i), wire[i].n = m
        PROVE  \E j \in Places' : FillAt(j)' /\ wire'[j].n = m
    <3>1. i > d /\ i - d \in Places' /\ wire'[i - d] = wire[i]
      BY <2>1 DEF Stays, Shifted, Places
    <3>2. QED
      BY <2>1, <3>1 DEF FillAt
  <2>2. ASSUME NEW i \in Places', FillAt(i)', ~Ahead(i)'
        PROVE  i + d \in Places /\ FillAt(i + d) /\ ~Ahead(i + d) /\ wire'[i] = wire[i + d]
    <3>1. i + d \in Places /\ FillAt(i + d) /\ wire'[i] = wire[i + d]
      BY <2>2 DEF Stays, Shifted, Places, FillAt
    <3>2. ASSUME NEW e \in 1 .. i - 1, Mark(e)'
          PROVE  e + d \in 1 .. (i + d) - 1 /\ Mark(e + d)
      <4>1. e \in 1 .. Len(wire') /\ d \in {0, 1} /\ i \in Nat
        BY <2>2, <3>2 DEF Places, Stays, Shifted
      <4>2. wire'[e] = wire[e + d]
        <5> HIDE DEF Places
        <5>1. QED
          BY <3>2, <4>1 DEF Stays, Shifted
      <4>3. e + d \in 1 .. (i + d) - 1
        BY <4>1
      <4>4. QED
        BY <3>2, <4>2, <4>3 DEF Mark
    <3>3. fillUp' = fillUp
      OBVIOUS
    <3>4. CASE fillUp /\ wire'[i].live
      <4>1. PICK e \in 1 .. i - 1 : Mark(e)'
        BY <2>2, <3>3, <3>4 DEF Ahead
      <4>2. QED
        BY <3>1, <3>2, <4>1 DEF Ahead
    <3>5. QED
      BY <3>1, <3>4 DEF Ahead
  <2>3. QED
    BY <2>1, <2>2 DEF FillsInv, ComeInv
<1>3. QED
  BY <1>1, <1>2

\* A report that is no execution.
LEMMA PlainStep ==
    ASSUME NEW d, FillsInv, Stays(d), UNCHANGED <<execs, link, books, fillUp, early, hole>>,
           d = 1 => ~FillAt(1) /\ ~Mark(1)
    PROVE  FillsInv'
<1>1. WireInv'
  BY WireShifts DEF FillsInv, Stays, WireInv, Disconnected
<1>2. CountInv' /\ PastInv' /\ Missing' = Missing
  BY DEF FillsInv, CountInv, PastInv, Missing, books
<1>3. MarkInv' /\ ComeInv'
  BY <1>2, ComesStill DEF books
<1>4. QED
  BY <1>1, <1>2, <1>3 DEF FillsInv

\* The wire after its head is read.
LEMMA HeadRead ==
    ASSUME TableInv, Reading, wire' = Tail(wire)
    PROVE  /\ Stays(1) /\ 1 \in Places /\ wire[1] = Head(wire)
<1>1. wire \in Seq(Reports) /\ wire # <<>>
  BY DEF TableInv, Reading
<1>2. /\ Len(wire) \in Nat /\ Len(wire) >= 1 /\ Len(wire') = Len(wire) - 1
      /\ \A i \in 1 .. Len(wire') : wire'[i] = wire[i + 1]
      /\ wire[1] = Head(wire)
  BY <1>1, HeadTailProperties, LenProperties, EmptySeq
<1>3. QED
  BY <1>2 DEF Stays, Shifted, Places

\* An execution read is no longer missing, and nothing else is booked.
LEMMA CountStep ==
    ASSUME TypeOK, CountInv, NEW n \in 1 .. Len(execs), BookOnce(n), UNCHANGED execs
    PROVE  CountInv' /\ Missing' = Missing \ {n} /\ lastExec' \in {lastExec, n}
<1>1. CASE Seen(n)
  <2>1. n \in counted
    BY <1>1 DEF Seen, CountInv
  <2>2. UNCHANGED <<seen, lastExec, counted, execs>>
    BY <1>1 DEF BookOnce, books
  <2>3. CountInv'
    BY <2>2 DEF CountInv
  <2>4. QED
    BY <2>1, <2>2, <2>3 DEF Missing
<1>2. CASE ~Seen(n)
  <2>1. Remember(n) /\ lastExec' = n /\ counted' = counted \cup {n}
    BY <1>2 DEF BookOnce, Book
  <2>2. \A m : Seen(m)' => Seen(m) \/ m = n
    <3>1. Len(execs) \in Nat /\ Len(execs) <= MaxExecs
      BY DEF TypeOK
    <3>2. n \in 1 .. MaxExecs
      BY <3>1, OrderBookAssumption
    <3>3. QED
      BY <2>1, <3>2, Remembered
  <2>3. \A m : Seen(m) => m \in counted
    BY DEF Seen, CountInv
  <2>4. \A i \in DOMAIN seen' : seen'[i] \in counted'
    <3>1. \A m : (\E i \in DOMAIN seen' : seen'[i] = m) => m \in counted'
      BY <2>1, <2>2, <2>3 DEF Seen
    <3>2. QED
      BY <3>1
  <2>5. QED
    BY <2>1, <2>4 DEF CountInv, Missing
<1>3. QED
  BY <1>1, <1>2

\* An execution is read.
LEMMA FillStep ==
    ASSUME TypeOK, TableInv, FillsInv, Reading, Head(wire).kind = "fill", wire' = Tail(wire),
           BookOnce(Head(wire).n), early' = (early \/ (fillUp /\ Head(wire).live)),
           UNCHANGED <<execs, link, fillUp, hole>>
    PROVE  FillsInv'
<1> DEFINE n == Head(wire).n
<1>1. Stays(1) /\ 1 \in Places /\ wire[1] = Head(wire) /\ FillAt(1) /\ ~Mark(1)
  BY HeadRead DEF FillAt, Mark
<1>2. n \in 1 .. Len(execs)
  BY FillReport
<1>3. CountInv' /\ Missing' = Missing \ {n} /\ lastExec' \in {lastExec, n}
  BY <1>2, CountStep DEF FillsInv
<1>4. WireInv'
  BY <1>1, WireShifts DEF FillsInv, Stays, WireInv, Disconnected
<1>5. MarkInv' /\ ComeInv'
  BY <1>1, <1>3, ComesStill
<1>6. PastInv'
  <2> SUFFICES ASSUME ~hole, ~early, ~(fillUp /\ wire[1].live), NEW m \in Missing, m # n
               PROVE  lastExec' < m
    BY <1>1, <1>3 DEF PastInv
  <2>1. lastExec < m
    BY DEF FillsInv, PastInv
  <2>2. ~Disconnected /\ wire[1].n = n
    BY <1>1 DEF Reading
  <2>3. m \in Nat /\ n \in Nat
    BY <1>2 DEF Missing
  <2>4. n < m
    <3>1. ASSUME NEW i \in Places, FillAt(i), wire[i].n = m PROVE n < m
      <4>1. 1 < i
        BY <1>1, <2>2, <3>1 DEF Places
      <4>2. wire[1].live => wire[i].live
        BY <3>1 DEF FillsInv, WireInv
      <4>3. QED
        BY <1>1, <2>2, <3>1, <4>1, <4>2 DEF FillsInv, WireInv
    <3>2. ~Ahead(1)
      BY DEF Ahead
    <3>3. QED
      BY <1>1, <2>2, <3>1, <3>2 DEF FillsInv, ComeInv
  <2>5. QED
    BY <1>3, <2>1, <2>3, <2>4
<1>7. QED
  BY <1>3, <1>4, <1>5, <1>6 DEF FillsInv

\* The trades reply ends: what it did not bring is past the last one booked.
LEMMA EndTradesStep ==
    ASSUME TypeOK, TableInv, FillsInv, ReadEndTrades
    PROVE  FillsInv'
<1>1. /\ Reading /\ wire' = Tail(wire) /\ ~fillUp' /\ ~early' /\ Mark(1)
      /\ UNCHANGED <<execs, link, books, hole>>
  BY HeadRead DEF ReadEndTrades, Mark, server
<1>2. Stays(1) /\ 1 \in Places
  BY <1>1, HeadRead
<1>3. /\ ~Disconnected'
  BY <1>1 DEF Reading, Disconnected
<1>4. \A i \in Places' : ~Mark(i)' /\ (FillAt(i)' => wire'[i].live)
  <2> SUFFICES ASSUME NEW i \in Places', FillAt(i)' \/ Mark(i)'
               PROVE  ~Mark(i)' /\ wire'[i].live
    BY DEF Mark, FillAt
  <2>1. i \in Nat /\ i >= 1 /\ i + 1 \in Places /\ wire'[i] = wire[i + 1]
    BY <1>2 DEF Stays, Shifted, Places
  <2>2. i + 1 # 1 /\ ~(i + 1 < 1)
    BY <2>1
  <2>3. ~Mark(i + 1) /\ (FillAt(i + 1) => wire[i + 1].live)
    BY <1>1, <1>2, <2>1, <2>2 DEF FillsInv, WireInv
  <2>4. QED
    BY <2>1, <2>3 DEF Mark, FillAt
<1>5. ASSUME NEW i \in Places', NEW j \in Places', FillAt(i)', FillAt(j)', i < j
      PROVE  wire'[i].n < wire'[j].n
  <2>1. /\ i + 1 \in Places /\ j + 1 \in Places /\ i + 1 < j + 1
        /\ wire'[i] = wire[i + 1] /\ wire'[j] = wire[j + 1]
    BY <1>2, <1>5 DEF Stays, Shifted, Places
  <2>2. QED
    BY <1>4, <1>5, <2>1 DEF FillsInv, WireInv, FillAt
<1>6. WireInv'
  BY <1>1, <1>3, <1>4, <1>5 DEF WireInv
<1>7. CountInv' /\ Missing' = Missing /\ lastExec' = lastExec
  BY <1>1 DEF FillsInv, CountInv, Missing, books
<1>8. PastInv'
  BY <1>1, <1>2, <1>7 DEF FillsInv, MarkInv, PastInv
<1>9. MarkInv'
  BY <1>4 DEF MarkInv
<1>10. ComeInv'
  <2> SUFFICES ASSUME ~hole, NEW m \in Missing
               PROVE  \/ \E i \in Places' : FillAt(i)' /\ wire'[i].n = m
                      \/ link' = "down" /\ \A i \in Places' : FillAt(i)' /\ ~Ahead(i)' => wire'[i].n < m
    BY <1>1, <1>7 DEF ComeInv
  <2>1. ASSUME NEW i \in Places, FillAt(i), wire[i].n = m
        PROVE  \E j \in Places' : FillAt(j)' /\ wire'[j].n = m
    <3>1. i > 1 /\ i - 1 \in Places' /\ wire'[i - 1] = wire[i]
      BY <1>1, <1>2, <2>1 DEF Stays, Shifted, Places, FillAt, Mark
    <3>2. QED
      BY <2>1, <3>1 DEF FillAt
  <2>2. ASSUME NEW i \in Places', FillAt(i)'
        PROVE  i + 1 \in Places /\ FillAt(i + 1) /\ ~Ahead(i + 1) /\ wire'[i] = wire[i + 1]
    <3>1. i \in Nat /\ i >= 1 /\ i + 1 \in Places /\ wire'[i] = wire[i + 1]
      BY <1>2, <2>2 DEF Stays, Shifted, Places
    <3>2. 1 \in 1 .. (i + 1) - 1
      BY <3>1
    <3>3. QED
      BY <1>1, <2>2, <3>1, <3>2 DEF FillAt, Ahead
  <2>3. ~Disconnected
    BY <1>1 DEF Reading
  <2>4. QED
    BY <1>1, <2>1, <2>2, <2>3 DEF FillsInv, ComeInv
<1>11. QED
  BY <1>6, <1>7, <1>8, <1>9, <1>10 DEF FillsInv

\* The link is cut: what is lost is past what is left, but for what is ahead.
LEMMA CutStep ==
    ASSUME TypeOK, TableInv, FillsInv, Cut
    PROVE  FillsInv'
<1>1. PICK k \in 0 .. Len(wire) : wire' = SubSeq(wire, 1, k)
  BY DEF Cut
<1>2. Len(wire) \in Nat /\ k \in Nat /\ k <= Len(wire)
  BY LenProperties DEF TableInv
<1>3. Len(wire') = k /\ \A i \in 1 .. k : wire'[i] = wire[i]
  <2>1. \A i \in 1 .. k : wire[i] \in Reports
    BY <1>2, ElementOfSeq DEF TableInv
  <2>2. QED
    BY <1>1, <1>2, <2>1, SubSeqProperties
<1>4. /\ link = "up" /\ link' = "down" /\ ~Disconnected /\ ~Disconnected'
      /\ UNCHANGED <<execs, books, fillUp, early, hole>>
  BY DEF Cut, server, asked, Disconnected
<1>5. Shifted(0)
  BY <1>2, <1>3 DEF Shifted, Places
<1>6. WireInv'
  BY <1>4, <1>5, WireShifts DEF FillsInv, WireInv
<1>7. CountInv' /\ PastInv' /\ Missing' = Missing /\ lastExec' = lastExec
  BY <1>4 DEF FillsInv, CountInv, PastInv, Missing, books
<1>8. MarkInv'
  <2> SUFFICES ASSUME ~hole, NEW e \in Places', Mark(e)', NEW m \in Missing
               PROVE  \/ \E i \in 1 .. e - 1 : FillAt(i)' /\ wire'[i].n = m
                      \/ lastExec < m /\ \A i \in 1 .. e - 1 : FillAt(i)' => wire'[i].n < m
    BY <1>4, <1>7 DEF MarkInv
  <2>1. e \in Places /\ e \in 1 .. k /\ Mark(e)
    BY <1>2, <1>3 DEF Places, Mark
  <2>2. \A i \in 1 .. e - 1 : wire'[i] = wire[i]
    BY <1>2, <1>3, <2>1
  <2>3. \/ \E i \in 1 .. e - 1 : FillAt(i) /\ wire[i].n = m
        \/ lastExec < m /\ \A i \in 1 .. e - 1 : FillAt(i) => wire[i].n < m
    BY <2>1 DEF FillsInv, MarkInv
  <2>4. QED
    BY <2>2, <2>3 DEF FillAt
<1>9. ComeInv'
  <2> SUFFICES ASSUME ~hole, NEW m \in Missing, ~\E i \in Places' : FillAt(i)' /\ wire'[i].n = m,
                      NEW i \in Places', FillAt(i)', ~Ahead(i)'
               PROVE  wire'[i].n < m
    BY <1>4, <1>7 DEF ComeInv
  <2>1. PICK p \in Places : FillAt(p) /\ wire[p].n = m
    BY <1>4 DEF FillsInv, ComeInv
  <2>2. i \in 1 .. k /\ i \in Places /\ FillAt(i) /\ wire'[i] = wire[i]
    BY <1>2, <1>3 DEF Places, FillAt
  <2>3. p > k
    BY <1>2, <1>3, <2>1 DEF Places, FillAt
  <2>4. i < p
    BY <1>2, <2>2, <2>3 DEF Places
  <2>5. ASSUME wire[i].live, ~wire[p].live PROVE FALSE
    <3>1. fillUp /\ \A e \in Places : Mark(e) => p < e
      BY <2>1, <2>5 DEF FillsInv, WireInv
    <3>2. \A e \in 1 .. i - 1 : ~Mark(e)'
      <4> SUFFICES ASSUME NEW e \in 1 .. i - 1, Mark(e)' PROVE FALSE
        OBVIOUS
      <4>1. e \in 1 .. k /\ e \in Places /\ e < i
        BY <1>2, <2>2 DEF Places
      <4>2. Mark(e)
        BY <1>3, <4>1 DEF Mark
      <4>3. p < e /\ p \in Nat
        BY <2>1, <3>1, <4>1, <4>2 DEF Places
      <4>4. QED
        BY <2>2, <2>4, <4>1, <4>3
    <3>3. QED
      BY <1>4, <2>2, <2>5, <3>1, <3>2 DEF Ahead
  <2>6. QED
    BY <2>1, <2>2, <2>4, <2>5 DEF FillsInv, WireInv
<1>10. QED
  BY <1>6, <1>7, <1>8, <1>9 DEF FillsInv

\* The engine notices the loss once everything left is read.
LEMMA DisconnectStep ==
    ASSUME TypeOK, TableInv, FillsInv, HandleDisconnect
    PROVE  FillsInv'
<1>1. /\ Places' = {} /\ ~fillUp' /\ ~early' /\ hole' = (hole \/ early) /\ Disconnected'
      /\ UNCHANGED <<execs, books>>
  BY EmptySeq DEF HandleDisconnect, server, Places, Disconnected
<1>2. CountInv' /\ Missing' = Missing /\ lastExec' = lastExec
  BY <1>1 DEF FillsInv, CountInv, Missing, books
<1>3. QED
  BY <1>1, <1>2 DEF FillsInv, WireInv, PastInv, MarkInv, ComeInv

\* A report on its way is of an execution that was made.
LEMMA FillRange ==
    ASSUME TableInv, NEW i \in Places, FillAt(i)
    PROVE  wire[i].n \in 1 .. Len(execs)
<1>1. wire[i] \in Reports
  BY ElementOfSeq DEF TableInv, Places
<1>2. QED
  BY <1>1 DEF Reports, FillAt, EndTrades, EndReplay

\* An execution is made: it is past all that were.
LEMMA ExecStep ==
    ASSUME TypeOK, TableInv, FillsInv, NEW o \in Orders, ServerFills(o)
    PROVE  FillsInv'
<1> DEFINE n == Len(execs) + 1
           f == Fill(n, srvVer[o], TRUE)
<1>1. Len(wire) \in Nat /\ Len(execs) \in Nat
  BY LenProperties DEF TypeOK, TableInv
<1>2. /\ Len(execs') = n /\ UNCHANGED <<link, books, fillUp, early, hole>>
      /\ wire' = IF link \in {"up", "relogin"} THEN wire \o <<f>> ELSE wire
  BY DEF ServerFills, TypeOK, Emit, asked
<1>3. /\ f.kind = "fill" /\ f.n = n /\ f.live
  BY DEF Fill
<1> HIDE DEF f
<1>4. /\ Len(wire') \in {Len(wire), Len(wire) + 1} /\ \A i \in Places : wire'[i] = wire[i]
      /\ Len(wire') = Len(wire) + 1 => wire'[Len(wire) + 1] = f
      /\ link = "up" => Len(wire') = Len(wire) + 1
      /\ link = "down" => Len(wire') = Len(wire)
  <2>1. wire \in Seq(Reports)
    BY DEF TableInv
  <2>2. CASE link \in {"up", "relogin"}
    BY <1>2, <2>1, <2>2 DEF Places
  <2>3. CASE link \notin {"up", "relogin"}
    BY <1>1, <1>2, <2>3
  <2>4. QED
    BY <2>2, <2>3
<1>5. CountInv' /\ Missing' = Missing \cup {n} /\ lastExec' = lastExec /\ lastExec < n
  <2>1. UNCHANGED <<seen, lastExec, counted>> /\ (1 .. Len(execs')) = (1 .. Len(execs)) \cup {n}
    BY <1>1, <1>2 DEF books
  <2>2. n \notin counted /\ lastExec < n /\ lastExec \in 0 .. n
    BY <1>1 DEF FillsInv, CountInv
  <2>3. QED
    BY <1>1, <1>2, <2>1, <2>2 DEF FillsInv, CountInv, Missing
<1>6. \A i \in Places : FillAt(i) => wire[i].n < n
  BY <1>1, FillRange
<1>7. ASSUME NEW i \in Places'
      PROVE  /\ i \in Nat /\ i >= 1
             /\ \/ i \in Places /\ wire'[i] = wire[i]
                \/ i = Len(wire) + 1 /\ i = Len(wire') /\ wire'[i] = f
  BY <1>1, <1>4 DEF Places
<1>8. Places \subseteq Places'
  BY <1>1, <1>4 DEF Places
<1> HIDE DEF n
<1>9. WireInv'
  <2>1. (early' => fillUp') /\ (Disconnected' => ~fillUp')
    BY <1>2 DEF FillsInv, WireInv, Disconnected
  <2>2. \A i \in Places' : FillAt(i)' /\ ~wire'[i].live => fillUp' /\ i \in Places /\ wire'[i] = wire[i]
    BY <1>2, <1>3, <1>7 DEF FillsInv, WireInv, FillAt
  <2>3. \A e \in Places' : Mark(e)' => fillUp' /\ e \in Places /\ wire'[e] = wire[e]
    BY <1>2, <1>3, <1>7 DEF FillsInv, WireInv, Mark
  <2>4. \A e, d \in Places' : Mark(e)' /\ Mark(d)' => e = d
    BY <2>3 DEF FillsInv, WireInv, Mark
  <2>5. \A i, e \in Places' : FillAt(i)' /\ ~wire'[i].live /\ Mark(e)' => i < e
    BY <2>2, <2>3 DEF FillsInv, WireInv, Mark, FillAt
  <2>6. ASSUME NEW i \in Places', NEW j \in Places', FillAt(i)', FillAt(j)', i < j,
               wire'[i].live => wire'[j].live
        PROVE  wire'[i].n < wire'[j].n
    <3>1. i \in Places /\ wire'[i] = wire[i] /\ FillAt(i)
      BY <1>1, <1>4, <1>7, <2>6 DEF Places, FillAt
    <3>2. CASE j \in Places /\ wire'[j] = wire[j]
      BY <2>6, <3>1, <3>2 DEF FillsInv, WireInv, FillAt
    <3>3. CASE wire'[j] = f
      BY <1>3, <1>6, <3>1, <3>3
    <3>4. QED
      BY <1>7, <3>2, <3>3
  <2>7. QED
    BY <2>1, <2>2, <2>3, <2>4, <2>5, <2>6 DEF WireInv
<1>10. PastInv'
  BY <1>2, <1>5 DEF FillsInv, PastInv
<1>11. MarkInv'
  <2> SUFFICES ASSUME ~hole, NEW e \in Places', Mark(e)', NEW m \in Missing \cup {n}
               PROVE  \/ \E i \in 1 .. e - 1 : FillAt(i)' /\ wire'[i].n = m
                      \/ lastExec < m /\ \A i \in 1 .. e - 1 : FillAt(i)' => wire'[i].n < m
    BY <1>2, <1>5 DEF MarkInv
  <2>1. e \in Places /\ Mark(e)
    BY <1>3, <1>7 DEF Mark
  <2>2. \A i \in 1 .. e - 1 : i \in Places /\ wire'[i] = wire[i]
    BY <1>1, <1>4, <2>1 DEF Places
  <2>3. CASE m = n
    BY <1>5, <1>6, <2>2, <2>3 DEF FillAt
  <2>4. CASE m \in Missing
    <3>1. \/ \E i \in 1 .. e - 1 : FillAt(i) /\ wire[i].n = m
          \/ lastExec < m /\ \A i \in 1 .. e - 1 : FillAt(i) => wire[i].n < m
      BY <2>1, <2>4 DEF FillsInv, MarkInv
    <3>2. QED
      BY <2>2, <3>1 DEF FillAt
  <2>5. QED
    BY <2>3, <2>4
<1>12. ComeInv'
  <2> SUFFICES ASSUME ~hole, ~Disconnected, NEW m \in Missing \cup {n}
               PROVE  \/ \E i \in Places' : FillAt(i)' /\ wire'[i].n = m
                      \/ link = "down" /\ \A i \in Places' : FillAt(i)' /\ ~Ahead(i)' => wire'[i].n < m
    BY <1>2, <1>5 DEF ComeInv, Disconnected
  <2>1. link \in {"up", "down"}
    BY DEF Disconnected, TypeOK
  <2>2. CASE m = n /\ link = "up"
    <3>1. Len(wire') \in Places' /\ wire'[Len(wire')] = f
      BY <1>1, <1>4, <2>2 DEF Places
    <3>2. QED
      BY <1>3, <2>2, <3>1 DEF FillAt
  <2>3. CASE link = "down"
    <3>1. Places' = Places /\ \A i \in Places : wire'[i] = wire[i]
      BY <1>4, <2>3 DEF Places
    <3>2. CASE m = n
      BY <1>6, <2>3, <3>1, <3>2 DEF FillAt
    <3>3. CASE m \in Missing
      <4>1. CASE \E i \in Places : FillAt(i) /\ wire[i].n = m
        BY <3>1, <4>1 DEF FillAt
      <4>2. CASE \A i \in Places : FillAt(i) /\ ~Ahead(i) => wire[i].n < m
        <5>1. ASSUME NEW i \in Places, Ahead(i) PROVE Ahead(i)'
          <6>1. \A e \in 1 .. i - 1 : e \in Places
            BY <1>1 DEF Places
          <6>2. QED
            BY <1>2, <3>1, <5>1, <6>1 DEF Ahead, Mark
        <5>2. QED
          BY <2>3, <3>1, <4>2, <5>1 DEF FillAt
      <4>3. QED
        BY <3>3, <4>1, <4>2 DEF FillsInv, ComeInv
    <3>4. QED
      BY <3>2, <3>3
  <2>4. CASE m \in Missing /\ link = "up"
    BY <1>4, <1>8, <2>4 DEF FillsInv, ComeInv, FillAt
  <2>5. QED
    BY <2>1, <2>2, <2>3, <2>4
<1>13. QED
  BY <1>5, <1>9, <1>10, <1>11, <1>12 DEF FillsInv

\* Where the parts of a joined sequence are.
LEMMA Joined ==
    ASSUME NEW S, NEW s \in Seq(S), NEW t \in Seq(S)
    PROVE  /\ s \o t \in Seq(S) /\ Len(s \o t) = Len(s) + Len(t) /\ Len(s) \in Nat /\ Len(t) \in Nat
           /\ \A i \in 1 .. Len(s) : (s \o t)[i] = s[i]
           /\ \A i \in 1 .. Len(t) : (s \o t)[Len(s) + i] = t[i]
OBVIOUS

LEMMA JoinedOne ==
    ASSUME NEW S, NEW s \in Seq(S), NEW x \in S
    PROVE  /\ s \o <<x>> \in Seq(S) /\ Len(s \o <<x>>) = Len(s) + 1
           /\ \A i \in 1 .. Len(s) : (s \o <<x>>)[i] = s[i]
           /\ (s \o <<x>>)[Len(s) + 1] = x
OBVIOUS

\* ... and of a reply with its end marks x and y, after w.
Placed(D, w, t, x, q, y) ==
    /\ Len(w) \in Nat /\ Len(t) \in Nat /\ Len(q) \in Nat
    /\ Len(D) = Len(w) + Len(t) + 1 + Len(q) + 1
    /\ \A i \in 1 .. Len(w) : D[i] = w[i]
    /\ \A i \in 1 .. Len(t) : D[Len(w) + i] = t[i]
    /\ D[Len(w) + Len(t) + 1] = x
    /\ \A i \in 1 .. Len(q) : D[Len(w) + Len(t) + 1 + i] = q[i]
    /\ D[Len(w) + Len(t) + 1 + Len(q) + 1] = y

LEMMA ReplyPlaced ==
    ASSUME NEW R, NEW w \in Seq(R), NEW t \in Seq(R), NEW q \in Seq(R), NEW x \in R, NEW y \in R
    PROVE  Placed(w \o t \o <<x>> \o q \o <<y>>, w, t, x, q, y)
<1> DEFINE D == w \o t \o <<x>> \o q \o <<y>>
           E == Len(w) + Len(t) + 1
<1> DEFINE A == w \o t
           B == A \o <<x>>
           C == B \o q
           Q == Len(q)
<1>1. /\ A \in Seq(R) /\ Len(A) = Len(w) + Len(t) /\ Len(w) \in Nat /\ Len(t) \in Nat
      /\ \A i \in 1 .. Len(w) : A[i] = w[i]
      /\ \A i \in 1 .. Len(t) : A[Len(w) + i] = t[i]
  BY Joined
<1>2. Q \in Nat
  BY LenProperties
<1> HIDE DEF A
<1>3. /\ B \in Seq(R) /\ Len(B) = Len(A) + 1 /\ (\A i \in 1 .. Len(A) : B[i] = A[i])
      /\ B[Len(A) + 1] = x
  <2>1. A \in Seq(R) /\ x \in R
    BY <1>1
  <2>2. QED
    BY ONLY <2>1, JoinedOne DEF B
<1> HIDE DEF B
<1>4. /\ C \in Seq(R) /\ Len(C) = Len(B) + Q /\ (\A i \in 1 .. Len(B) : C[i] = B[i])
      /\ \A i \in 1 .. Q : C[Len(B) + i] = q[i]
  <2>1. B \in Seq(R) /\ q \in Seq(R)
    BY <1>3
  <2>2. QED
    BY ONLY <2>1, Joined
<1> HIDE DEF C
<1>5. D = C \o <<y>>
  BY DEF A, B, C, D
<1> HIDE DEF D
<1>6. /\ Len(D) = Len(C) + 1 /\ (\A i \in 1 .. Len(C) : D[i] = C[i])
      /\ D[Len(C) + 1] = y
  <2>1. C \in Seq(R) /\ y \in R
    BY <1>4
  <2>2. QED
    BY ONLY <2>1, <1>5, JoinedOne
<1>7. E \in Nat /\ Len(B) = E /\ Len(A) = E - 1 /\ Len(C) = E + Q
  BY <1>1, <1>2, <1>3, <1>4
<1> HIDE DEF E
<1> HIDE DEF Q
<1>8. /\ \A i \in 1 .. E : D[i] = B[i]
      /\ \A i \in 1 .. Q : D[E + i] = q[i]
  <2>1. \A i \in 1 .. Len(C) : D[i] = C[i]
    BY <1>6
  <2>2. \A i \in 1 .. E : i \in 1 .. Len(C) /\ C[i] = B[i]
    BY ONLY <1>2, <1>4, <1>7
  <2>3. \A i \in 1 .. Q : E + i \in 1 .. Len(C) /\ C[E + i] = q[i]
    BY ONLY <1>2, <1>4, <1>7
  <2>4. QED
    BY ONLY <2>1, <2>2, <2>3
<1>9. \A i \in 1 .. E - 1 : D[i] = A[i]
  <2>1. \A i \in 1 .. E - 1 : i \in 1 .. E /\ B[i] = A[i]
    BY ONLY <1>3, <1>7
  <2>2. QED
    BY ONLY <1>8, <2>1
<1>10. /\ \A i \in 1 .. Len(w) : D[i] = w[i]
       /\ \A i \in 1 .. Len(t) : D[Len(w) + i] = t[i]
       /\ D[E] = x
  <2>1. \A i \in 1 .. Len(w) : i \in 1 .. E - 1
    BY <1>1, <1>7
  <2>2. \A i \in 1 .. Len(t) : Len(w) + i \in 1 .. E - 1
    BY <1>1, <1>7
  <2>3. D[E] = B[E] /\ B[E] = x
    BY <1>3, <1>7, <1>8
  <2>4. QED
    BY <1>1, <1>9, <2>1, <2>2, <2>3
<1>11. Placed(D, w, t, x, q, y)
  BY <1>1, <1>2, <1>6, <1>7, <1>8, <1>10 DEF Q, E, Placed
<1>12. QED
  BY <1>11 DEF D

\* The wire of a reconnect.
LEMMA ReconnectWire ==
    ASSUME TableInv, NEW trades, NEW replayed, ReplyOf(trades, replayed)
    PROVE  Placed(wire', wire, trades, EndTrades, replayed, EndReplay)
<1> DEFINE R == Reports \cup Reports' \cup {EndTrades, EndReplay}
<1>1. wire \in Seq(Reports) /\ trades \in Seq(Reports') /\ replayed \in Seq(Reports')
  BY DEF ReplyOf, TableInv
<1>2. Reports \subseteq R /\ Reports' \subseteq R /\ EndTrades \in R /\ EndReplay \in R
  OBVIOUS
<1> HIDE DEF R
<1>3. wire \in Seq(R) /\ trades \in Seq(R) /\ replayed \in Seq(R)
  BY <1>1, <1>2, SeqMonotonic
<1>4. wire' = wire \o trades \o <<EndTrades>> \o replayed \o <<EndReplay>>
  BY DEF ReplyOf
<1>5. Placed(wire \o trades \o <<EndTrades>> \o replayed \o <<EndReplay>>, wire, trades, EndTrades, replayed, EndReplay)
  BY ONLY <1>2, <1>3, ReplyPlaced
<1>6. QED
  BY <1>4, <1>5

\* A reconnect: everything missing is in the trades reply.
LEMMA ReconnectStep ==
    ASSUME TypeOK, TypeOK', TableInv, Known \subseteq Known', FillsInv, Reconnect
    PROVE  FillsInv'
<1>1. PICK trades, replayed : ReplyOf(trades, replayed)
  BY ReconnectReply
<1> DEFINE L == Len(wire)
           T == Len(trades)
           E == L + T + 1
<1>2. /\ Disconnected /\ link' = "up" /\ ~Disconnected' /\ fillUp'
      /\ UNCHANGED <<execs, books, early, hole>>
  BY DEF Reconnect, Disconnected, server
<1>3. ~fillUp /\ ~early
  BY <1>2 DEF FillsInv, WireInv
<1>4. \A i \in Places : ~Mark(i) /\ (FillAt(i) => wire[i].live)
  BY <1>3 DEF FillsInv, WireInv
<1>5. CountInv' /\ PastInv' /\ Missing' = Missing /\ lastExec' = lastExec
  BY <1>2 DEF FillsInv, CountInv, PastInv, Missing, books
<1>6. /\ Len(execs) \in Nat /\ FirstAsked \in 1 .. Len(execs) + 1 /\ L \in Nat
      /\ \A m \in Nat : lastExec < m => FirstAsked <= m
  <2>1. Len(execs) \in Nat /\ lastExec \in 0 .. Len(execs) /\ L \in Nat
    BY LenProperties DEF TypeOK, TableInv, FillsInv, CountInv
  <2>2. QED
    BY <2>1 DEF FirstAsked
<1>7. /\ T \in Nat /\ T = Len(execs) + 1 - FirstAsked
      /\ \A i \in 1 .. T : trades[i].kind = "fill" /\ trades[i].n = FirstAsked + i - 1 /\ ~trades[i].live
  <2>1. T \in Nat /\ DOMAIN trades = 1 .. T /\ DOMAIN trades = 1 .. Len(execs) + 1 - FirstAsked
    BY <1>1, LenProperties DEF ReplyOf
  <2>2. T = Len(execs) + 1 - FirstAsked
    BY <1>6, <2>1
  <2>3. QED
    BY <1>1, <2>1, <2>2 DEF ReplyOf
<1>8. /\ Len(wire') \in Nat /\ Len(wire') >= E
      /\ \A i \in 1 .. L : wire'[i] = wire[i]
      /\ \A i \in 1 .. T : wire'[L + i] = trades[i]
      /\ wire'[E] = EndTrades
      /\ \A i \in E + 1 .. Len(wire') : wire'[i].kind \in {"order", "endReplay"}
  <2>1. /\ Len(replayed) \in Nat /\ Len(wire') = E + Len(replayed) + 1
        /\ \A i \in 1 .. L : wire'[i] = wire[i]
        /\ \A i \in 1 .. T : wire'[L + i] = trades[i]
        /\ wire'[E] = EndTrades
        /\ \A i \in 1 .. Len(replayed) : wire'[E + i] = replayed[i]
        /\ wire'[E + Len(replayed) + 1] = EndReplay
    BY <1>1, ReconnectWire DEF Placed
  <2>2. EndReplay.kind = "endReplay" /\ \A i \in 1 .. Len(replayed) : replayed[i].kind = "order"
    BY <1>1, LenProperties DEF EndReplay, ReplyOf
  <2>3. E \in Nat
    BY <1>6, <1>7
  <2> HIDE DEF L, T, E
  <2>4. ASSUME NEW i \in E + 1 .. Len(wire') PROVE wire'[i].kind \in {"order", "endReplay"}
    <3>1. CASE i = E + Len(replayed) + 1
      BY <2>1, <2>2, <3>1
    <3>2. CASE i # E + Len(replayed) + 1
      <4>1. i - E \in 1 .. Len(replayed) /\ E + (i - E) = i
        BY <2>1, <2>3, <2>4, <3>2
      <4>2. wire'[E + (i - E)] = replayed[i - E]
        BY <2>1, <4>1
      <4>3. QED
        BY <2>2, <4>1, <4>2
    <3>3. QED
      BY <3>1, <3>2
  <2>5. Len(wire') \in Nat /\ Len(wire') >= E
    BY <2>1, <2>3
  <2>6. QED
    BY <2>1, <2>4, <2>5
<1>9. ASSUME NEW i \in Places'
      PROVE  /\ i \in Nat
             /\ \/ i \in Places /\ i <= L /\ ~Mark(i)' /\ wire'[i] = wire[i] /\ (FillAt(i)' => wire'[i].live)
                \/ /\ L < i /\ i < E /\ ~Mark(i)' /\ FillAt(i)' /\ ~wire'[i].live
                   /\ wire'[i].n = FirstAsked + (i - L) - 1
                \/ i = E /\ ~FillAt(i)'
                \/ i > E /\ ~Mark(i)' /\ ~FillAt(i)'
  <2> HIDE DEF T
  <2>1. i \in Nat /\ i >= 1 /\ i <= Len(wire')
    BY <1>8 DEF Places
  <2>2. CASE i <= L
    <3>1. i \in Places
      BY <1>6, <2>1, <2>2 DEF Places
    <3>2. wire'[i] = wire[i]
      BY <1>8, <3>1 DEF Places
    <3>3. QED
      BY <1>4, <2>1, <2>2, <3>1, <3>2 DEF Mark, FillAt
  <2>3. CASE L < i /\ i < E
    <3>1. i - L \in 1 .. T /\ L + (i - L) = i
      BY <1>6, <1>7, <2>1, <2>3
    <3>2. wire'[i] = trades[i - L]
      BY <1>8, <3>1
    <3>3. QED
      BY <1>7, <2>1, <2>3, <3>1, <3>2 DEF Mark, FillAt
  <2>4. CASE i = E
    BY <1>8, <2>1, <2>4 DEF FillAt, EndTrades
  <2>5. CASE i > E
    <3>1. i \in E + 1 .. Len(wire')
      BY <1>6, <1>7, <2>1, <2>5
    <3>2. QED
      BY <1>8, <2>1, <2>5, <3>1 DEF FillAt, Mark
  <2>6. i <= L \/ (L < i /\ i < E) \/ i = E \/ i > E
    <3>1. L \in Nat /\ E \in Nat
      BY <1>6, <1>7
    <3>2. QED
      BY <2>1, <3>1
  <2>7. QED
    BY <2>2, <2>3, <2>4, <2>5, <2>6
<1>10. ASSUME NEW m \in Missing, ~hole PROVE \E i \in 1 .. E - 1 : FillAt(i)' /\ wire'[i].n = m
  <2>1. m \in 1 .. Len(execs) /\ lastExec < m
    BY <1>3, <1>10 DEF FillsInv, PastInv, Missing
  <2> DEFINE i == L + (m - FirstAsked + 1)
  <2>2. m - FirstAsked + 1 \in 1 .. T
    BY <1>6, <1>7, <2>1
  <2>3. i \in 1 .. E - 1
    BY <1>6, <1>7, <2>2
  <2>4. wire'[i] = trades[m - FirstAsked + 1]
    BY <1>8, <2>2
  <2>5. FirstAsked + (m - FirstAsked + 1) - 1 = m
    BY <1>6, <2>1
  <2>6. trades[m - FirstAsked + 1].kind = "fill" /\ trades[m - FirstAsked + 1].n = m
    BY <1>7, <2>2, <2>5
  <2>7. QED
    BY <2>3, <2>4, <2>6 DEF FillAt
<1> HIDE DEF T
<1>11. 1 .. E - 1 \subseteq Places'
  BY <1>6, <1>7, <1>8 DEF Places
<1> HIDE DEF E
<1>12. WireInv'
  <2>1. \A e, d \in Places' : Mark(e)' /\ Mark(d)' => e = d
    BY <1>9
  <2>2. \A i, e \in Places' : FillAt(i)' /\ ~wire'[i].live /\ Mark(e)' => i < e
    BY <1>9
  <2>3. ASSUME NEW i \in Places', NEW j \in Places', FillAt(i)', FillAt(j)', i < j,
               wire'[i].live => wire'[j].live
        PROVE  wire'[i].n < wire'[j].n
    <3>1. CASE wire'[i].live
      <4>1. i \in Places /\ j \in Places /\ wire'[i] = wire[i] /\ wire'[j] = wire[j]
        BY <1>9, <2>3, <3>1
      <4>2. QED
        BY <2>3, <4>1 DEF FillsInv, WireInv, FillAt
    <3>2. CASE ~wire'[i].live
      <4>1. L < i /\ wire'[i].n = FirstAsked + (i - L) - 1 /\ i \in Nat /\ j \in Nat
        BY <1>9, <2>3, <3>2
      <4>2. ~(j <= L)
        BY <1>6, <2>3, <4>1
      <4>3. wire'[j].n = FirstAsked + (j - L) - 1
        BY <1>9, <2>3, <4>2
      <4>4. QED
        BY <1>6, <2>3, <4>1, <4>3
    <3>3. QED
      BY <3>1, <3>2
  <2>4. QED
    BY <1>2, <2>1, <2>2, <2>3 DEF WireInv
<1>13. MarkInv'
  <2>1. \A e \in Places' : Mark(e)' => e = E
    BY <1>9
  <2>2. QED
    BY <1>2, <1>5, <1>10, <2>1 DEF MarkInv
<1>14. ComeInv'
  BY <1>2, <1>5, <1>10, <1>11 DEF ComeInv
<1>15. QED
  BY <1>5, <1>12, <1>13, <1>14 DEF FillsInv

\* A report that is no execution and no end of the trades reply.
Plain(r) == r.kind \notin {"fill", "endTrades"}

\* Such reports are sent, after what is on its way.
LEMMA PlainSent ==
    ASSUME TableInv, NEW x, Plain(x), NEW y, Plain(y),
           wire' \in {wire, Append(wire, x), wire \o <<x>>, wire \o <<x, y>>}
    PROVE  Stays(0)
<1>1. wire \in Seq(Reports) /\ Len(wire) \in Nat
  BY LenProperties DEF TableInv
<1>2. /\ Len(wire') \in Nat /\ Len(wire) <= Len(wire') /\ \A i \in 1 .. Len(wire) : wire'[i] = wire[i]
      /\ \A i \in 1 .. Len(wire') : i <= Len(wire) \/ wire'[i] \in {x, y}
  BY <1>1
<1>3. QED
  BY <1>1, <1>2 DEF Stays, Shifted, Places, FillAt, Mark, Plain

\* Such a report is read, and may be answered.
LEMMA PlainRead ==
    ASSUME TableInv, Reading, Plain(Head(wire)), NEW x, Plain(x),
           wire' \in {Tail(wire), Append(Tail(wire), x)}
    PROVE  Stays(1) /\ ~FillAt(1) /\ ~Mark(1)
<1>1. wire \in Seq(Reports) /\ wire # <<>>
  BY DEF TableInv, Reading
<1>2. /\ Len(wire) \in Nat /\ Len(wire) >= 1 /\ wire[1] = Head(wire)
      /\ Len(wire') \in Nat /\ Len(wire) - 1 <= Len(wire')
      /\ \A i \in 1 .. Len(wire) - 1 : wire'[i] = wire[i + 1]
      /\ \A i \in 1 .. Len(wire') : i <= Len(wire) - 1 \/ wire'[i] = x
  <2> DEFINE w == Tail(wire)
  <2>1. /\ Len(wire) \in Nat /\ Len(wire) >= 1 /\ wire[1] = Head(wire)
        /\ w \in Seq(Reports) /\ Len(w) = Len(wire) - 1
        /\ \A i \in 1 .. Len(wire) - 1 : w[i] = wire[i + 1]
    BY <1>1, HeadTailProperties, LenProperties, EmptySeq
  <2> HIDE DEF w
  <2>2. wire' \in {w, Append(w, x)}
    BY DEF w
  <2>3. CASE wire' = w
    BY <2>1, <2>3
  <2>4. CASE wire' = Append(w, x)
    <3>1. /\ Len(wire') = Len(w) + 1 /\ (\A i \in 1 .. Len(w) : wire'[i] = w[i])
          /\ wire'[Len(w) + 1] = x
      BY <2>1, <2>4
    <3>2. QED
      BY <2>1, <3>1
  <2>5. QED
    BY <2>2, <2>3, <2>4
<1>3. QED
  BY <1>2 DEF Stays, Shifted, Places, FillAt, Mark, Plain

\* What the server answers to the requests are reports of an order.
LEMMA OrderReports ==
    ASSUME NEW o, NEW v, NEW st, NEW q
    PROVE  Plain(Report(o, v, st, q)) /\ Plain(CancelReject(o, v)) /\ Plain(StatusAnswer(o))
BY DEF Plain, Report, CancelReject, StatusAnswer

\* Every step keeps what is missing on its way or within reach of a reply.
LEMMA FillsStep ==
    ASSUME TypeOK, TableInv, FillsInv, [Next]_vars
    PROVE  FillsInv'
<1> USE DEF server, asked
<1>1. ASSUME NEW x, Plain(x), NEW y, Plain(y),
             wire' \in {wire, Append(wire, x), wire \o <<x>>, wire \o <<x, y>>},
             UNCHANGED <<execs, link, books, fillUp, early, hole>>
      PROVE  FillsInv'
  BY <1>1, PlainSent, PlainStep
<1>2. ASSUME NEW x, Plain(x), Reading, Plain(Head(wire)), wire' \in {Tail(wire), Append(Tail(wire), x)},
             UNCHANGED <<execs, link, books, fillUp, early, hole>>
      PROVE  FillsInv'
  BY <1>2, PlainRead, PlainStep
<1>3. ASSUME NEW o, WriteLost \/ WriteFails \/ TakesNew(o) \/ (\E v : TakesCancel(o, v, Orig(o)) \/ TakesModify(o, v, Orig(o))),
             UNCHANGED <<link, books, fillUp, early, hole>>
      PROVE  FillsInv'
  <2>1. UNCHANGED execs
    BY <1>3 DEF WriteLost, WriteFails, TakesNew, TakesCancel, TakesModify, Refuses
  <2>2. \E x, y : /\ Plain(x) /\ Plain(y)
                  /\ wire' \in {wire, Append(wire, x), wire \o <<x>>, wire \o <<x, y>>}
    <3>1. CASE WriteLost \/ WriteFails
      BY <3>1, OrderReports DEF WriteLost, WriteFails
    <3>2. CASE TakesNew(o)
      BY <3>2, OrderReports DEF TakesNew
    <3>3. ASSUME NEW v, TakesCancel(o, v, Orig(o)) \/ TakesModify(o, v, Orig(o))
          PROVE  \E x, y : /\ Plain(x) /\ Plain(y)
                           /\ wire' \in {wire, Append(wire, x), wire \o <<x>>, wire \o <<x, y>>}
      BY <3>3, OrderReports DEF TakesCancel, TakesModify, Refuses
    <3>4. QED
      BY <1>3, <3>1, <3>2, <3>3
  <2>3. QED
    BY <1>1, <1>3, <2>1, <2>2
<1>4. CASE UNCHANGED <<wire, execs, link, books, fillUp, early, hole>>
  BY <1>1, <1>4, OrderReports
<1>5. CASE SendNew
  BY <1>3, <1>5 DEF SendNew
<1>6. CASE SendCancel \/ \E o \in Orders : WalkCancel(o)
  BY <1>3, <1>4, <1>6 DEF SendCancel, WalkCancel, CancelWritten
<1>7. CASE SendModify
  BY <1>3, <1>4, <1>7 DEF SendModify
<1>8. CASE ReadOrder \/ ReadEndReplay
  <2>1. Plain(Head(wire)) /\ Reading /\ wire' = Tail(wire) /\ UNCHANGED <<execs, link, books, fillUp, early, hole>>
    BY <1>8 DEF ReadOrder, ReadEndReplay, Plain
  <2>2. QED
    BY <1>2, <2>1
<1>9. CASE ReadCancelReject
  <2>1. /\ Plain(Head(wire)) /\ Reading /\ UNCHANGED <<execs, link, books, fillUp, early, hole>>
        /\ wire' \in {Tail(wire), Append(Tail(wire), StatusAnswer(Head(wire).o))}
    BY <1>9 DEF ReadCancelReject, Plain
  <2>2. QED
    BY <1>2, <2>1, OrderReports
<1>10. CASE ReadFill \/ ReadOutageFill
  <2>1. /\ Reading /\ Head(wire).kind = "fill" /\ wire' = Tail(wire) /\ BookOnce(Head(wire).n)
        /\ early' = (early \/ (fillUp /\ Head(wire).live)) /\ UNCHANGED <<execs, link, fillUp, hole>>
    BY <1>10 DEF ReadFill, ReadOutageFill
  <2>2. QED
    BY <2>1, FillStep
<1>11. CASE \E o \in Orders : ServerCancels(o)
  BY <1>1, <1>11, OrderReports DEF ServerCancels, Emit
<1>12. CASE Relogin
  BY <1>12 DEF Relogin, FillsInv, WireInv, CountInv, PastInv, MarkInv, ComeInv, Missing, Places, FillAt, Mark,
               Disconnected, books
<1>13. CASE Reconnect
  BY <1>13, ReconnectStep, NextEffect, ReportsGrow
<1>14. CASE (\E r \in Request : Command(r)) \/ StartGlobalCancel \/ UNCHANGED vars
  BY <1>4, <1>14 DEF Command, StartGlobalCancel, vars
<1>15. QED
  BY <1>5, <1>6, <1>7, <1>8, <1>9, <1>10, <1>11, <1>12, <1>13, <1>14,
     EndTradesStep, ExecStep, CutStep, DisconnectStep DEF Next

\* No execution is lost: once the reports are read, on a link that is up, the
\* position has every execution the server made, through any number of lost
\* links and cut replies, unless a live fill was read ahead of a trades reply
\* the next loss cut.
THEOREM NoFillLost == Spec => []FillsComplete
<1>1. Init => FillsInv
  BY EmptySeq DEF Init, FillsInv, WireInv, CountInv, PastInv, MarkInv, ComeInv, Missing, Places, Disconnected
<1>2. TypeOK /\ TableInv /\ FillsInv /\ [Next]_vars => TypeOK' /\ TableInv' /\ FillsInv'
  BY TableStep, FillsStep
<1>3. TypeOK /\ FillsInv => FillsComplete
  <2> SUFFICES ASSUME TypeOK, FillsInv, Quiet, ~hole PROVE counted = DOMAIN execs
    BY DEF FillsComplete
  <2>1. Places = {} /\ link = "up" /\ ~Disconnected
    BY EmptySeq DEF Quiet, Places, Disconnected
  <2>2. Missing = {}
    BY <2>1 DEF FillsInv, ComeInv
  <2>3. DOMAIN execs = 1 .. Len(execs)
    BY DEF TypeOK
  <2>4. QED
    BY <2>2, <2>3 DEF FillsInv, CountInv, Missing
<1>4. QED
  BY <1>1, <1>2, <1>3, InvInit, PTL DEF Spec
-----------------------------------------------------------------------------
(***************************************************************************)
(* The orders that work.  What the reports on the wire say of an order     *)
(* that works, the versions they carry and the version the table has for   *)
(* it fit together, so that the last report read leaves the server's       *)
(* ClOrdID and a working status.                                           *)
(***************************************************************************)
AtWork(o)       == srv[o] = "working"
StatusAt(i, o)  == wire[i].kind = "order" /\ wire[i].o = o
AboutAt(i, o)   == StatusAt(i, o) \/ (FillAt(i) /\ execs[wire[i].n] = o)
RejectAt(i, o)  == wire[i].kind = "reject" /\ wire[i].o = o
AmendAt(i, o) == StatusAt(i, o) /\ wire[i].st = "6"
AnswerAt(i, o)  == StatusAt(i, o) /\ wire[i].query
ReplayEnd(i)    == wire[i].kind = "endReplay"

Good == {"PreSubmitted", "Submitted", "PartiallyFilled"}

\* The reject of the version the table has for the order is on its way.
Refused(o) == \E i \in Places : RejectAt(i, o) /\ wire[i].ver = version[o]

\* The status replay has still to give the order's status.
Replayed(o) == replay /\ \E i \in Places : AnswerAt(i, o) /\ \A j \in 1 .. i : ~ReplayEnd(j)

\* A cancel's ClOrdID is of a version given out, and goes with the order.
KeptInv(o) ==
    /\ cancelClord[o] <= version[o]
    /\ held[o] = None => cancelClord[o] = NoClord
    /\ srv[o] = None => srvVer[o] = 0

\* Between two links the server only sends what it does by itself.
OffLineInv == Disconnected => \A i \in Places : FillAt(i) \/ (wire[i].kind = "order" /\ wire[i].st = "4")

\* Nothing ends an order that works: no execution, and no report on its way.
AliveInv(o) ==
    AtWork(o) =>
        /\ finished[o] = None
        /\ \A n \in 0 .. Len(execs) : FillsUpTo(o, n) < Qty
        /\ \A i \in Places : StatusAt(i, o) =>
              wire[i].st \in {"0", "1", "5", "6"} /\ (wire[i].query => wire[i].st \in {"0", "1"})

\* What is refused or accepted carries a version given out, each its own, and
\* an accepted modify none of a cancel's.
NumberedInv(o) ==
    AtWork(o) /\ (link = "up" \/ o \notin dropped) =>
        /\ \A i \in Places : RejectAt(i, o) \/ AmendAt(i, o) => held[o] # None /\ wire[i].ver <= version[o]
        /\ \A i \in Places : AmendAt(i, o) => wire[i].ver # cancelClord[o]
        /\ \A i, j \in Places :
              i # j /\ RejectAt(i, o) /\ (RejectAt(j, o) \/ AmendAt(j, o)) => wire[i].ver # wire[j].ver

\* The server's version was given out, to no cancel and to nothing refused,
\* and the reports carry it or an earlier one.
ClordsInv(o) ==
    AtWork(o) /\ o \notin dropped =>
        /\ held[o] # None
        /\ srvVer[o] <= version[o] /\ srvVer[o] # cancelClord[o]
        /\ \A i \in Places : RejectAt(i, o) => wire[i].ver # srvVer[o]
        /\ \A i \in Places : AboutAt(i, o) => wire[i].ver <= srvVer[o] /\ wire[i].ver # cancelClord[o]

\* The last report of the order has the server's version; the table has it too,
\* or a report will bring it, or the modify that changed it is refused.
LastInv(o) ==
    AtWork(o) /\ o \notin dropped /\ link = "up" =>
        /\ \A i \in Places : AboutAt(i, o) /\ wire[i].ver # srvVer[o] =>
              \E j \in Places : i < j /\ AboutAt(j, o)
        /\ lastClord[o] = srvVer[o] \/ Refused(o) \/ \E i \in Places : AboutAt(i, o)

\* The order is held as working, or what puts it right is on its way.
HeldInv(o) ==
    AtWork(o) /\ link = "up" =>
        \/ held[o] \in Good
        \/ Replayed(o)
        \/ held[o] = "PendingSubmit" /\ \E i \in Places : StatusAt(i, o)
        \/ held[o] = "PendingCancel" /\ Refused(o)
        \/ held[o] = "PendingCancel" /\ o \in queries /\ \E i \in Places : AnswerAt(i, o)

AgreeInv(o) ==
    /\ KeptInv(o) /\ AliveInv(o) /\ NumberedInv(o) /\ ClordsInv(o) /\ LastInv(o) /\ HeldInv(o)

-----------------------------------------------------------------------------
(***************************************************************************)
(* The wire: k of its reports go on, past the d that are read, and the     *)
(* rest is new.                                                            *)
(***************************************************************************)
Flows(d, k) ==
    /\ Len(wire) \in Nat /\ Len(wire') \in Nat /\ d \in {0, 1} /\ k \in Nat
    /\ k + d <= Len(wire) /\ k <= Len(wire')
    /\ \A i \in 1 .. k : wire'[i] = wire[i + d]

\* The executions that were made stay.
ExecsKept == \A n \in 1 .. Len(execs) : execs'[n] = execs[n]

\* A report that goes on is about what it was.
LEMMA GoesOn ==
    ASSUME TableInv, NEW o, NEW d, NEW k, Flows(d, k), ExecsKept, NEW i \in 1 .. k
    PROVE  /\ i + d \in Places /\ i \in Places' /\ i \in Nat /\ wire'[i] = wire[i + d]
           /\ StatusAt(i, o)' <=> StatusAt(i + d, o)
           /\ AboutAt(i, o)' <=> AboutAt(i + d, o)
           /\ RejectAt(i, o)' <=> RejectAt(i + d, o)
           /\ AmendAt(i, o)' <=> AmendAt(i + d, o)
           /\ AnswerAt(i, o)' <=> AnswerAt(i + d, o)
           /\ ReplayEnd(i)' <=> ReplayEnd(i + d)
<1>1. i + d \in Places /\ i \in Places' /\ i \in Nat /\ wire'[i] = wire[i + d]
  BY DEF Flows, Places
<1>2. FillAt(i + d) => wire[i + d].n \in 1 .. Len(execs)
  BY <1>1, FillRange
<1>3. FillAt(i + d) => execs'[wire[i + d].n] = execs[wire[i + d].n]
  BY <1>2 DEF ExecsKept
<1>4. QED
  BY <1>1, <1>3 DEF StatusAt, AboutAt, RejectAt, AmendAt, AnswerAt, ReplayEnd, FillAt

\* ... and one that is not read is still there.
LEMMA ComesOn ==
    ASSUME NEW d, NEW k, Flows(d, k), k + d = Len(wire), NEW i \in Places, i > d
    PROVE  i - d \in 1 .. k /\ (i - d) + d = i /\ i \in Nat /\ d \in {0, 1}
BY DEF Flows, Places

\* The wire with reports sent.
LEMMA SentFlows ==
    ASSUME TableInv, NEW x, NEW y
    PROVE  /\ wire' = wire => Flows(0, Len(wire)) /\ Len(wire') = Len(wire)
           /\ wire' = Append(wire, x) \/ wire' = wire \o <<x>> =>
                Flows(0, Len(wire)) /\ Len(wire') = Len(wire) + 1 /\ wire'[Len(wire) + 1] = x
           /\ wire' = wire \o <<x, y>> =>
                /\ Flows(0, Len(wire)) /\ Len(wire') = Len(wire) + 2
                /\ wire'[Len(wire) + 1] = x /\ wire'[Len(wire) + 2] = y
<1>1. wire \in Seq(Reports) /\ Len(wire) \in Nat
  BY LenProperties DEF TableInv
<1>2. CASE wire' = wire
  BY <1>1, <1>2 DEF Flows
<1>3. CASE wire' = Append(wire, x)
  BY <1>1, <1>3 DEF Flows
<1>4. CASE wire' = wire \o <<x>>
  BY <1>1, <1>4 DEF Flows
<1>5. CASE wire' = wire \o <<x, y>>
  BY <1>1, <1>5 DEF Flows
<1>6. QED
  BY <1>2, <1>3, <1>4, <1>5

\* The wire with its head read, and answered or not.
LEMMA ReadFlows ==
    ASSUME TableInv, Reading, NEW x
    PROVE  /\ 1 \in Places /\ wire[1] = Head(wire) /\ Len(wire) \in Nat
           /\ wire' = Tail(wire) => Flows(1, Len(wire) - 1) /\ Len(wire') = Len(wire) - 1
           /\ wire' = Append(Tail(wire), x) =>
                Flows(1, Len(wire) - 1) /\ Len(wire') = Len(wire) /\ wire'[Len(wire)] = x
<1> DEFINE w == Tail(wire)
<1>1. wire \in Seq(Reports) /\ wire # <<>>
  BY DEF TableInv, Reading
<1>2. /\ Len(wire) \in Nat /\ Len(wire) >= 1 /\ wire[1] = Head(wire)
      /\ w \in Seq(Reports) /\ Len(w) = Len(wire) - 1
      /\ \A i \in 1 .. Len(wire) - 1 : w[i] = wire[i + 1]
  BY <1>1, HeadTailProperties, LenProperties, EmptySeq
<1> HIDE DEF w
<1>3. ASSUME wire' = w PROVE Flows(1, Len(wire) - 1) /\ Len(wire') = Len(wire) - 1
  BY <1>2, <1>3 DEF Flows
<1>4. ASSUME wire' = Append(w, x)
      PROVE  Flows(1, Len(wire) - 1) /\ Len(wire') = Len(wire) /\ wire'[Len(wire)] = x
  <2>1. /\ Len(wire') = Len(w) + 1 /\ (\A i \in 1 .. Len(w) : wire'[i] = w[i])
        /\ wire'[Len(w) + 1] = x
    BY <1>2, <1>4
  <2>2. QED
    BY <1>2, <2>1 DEF Flows
<1>5. wire' = Tail(wire) => wire' = w
  BY DEF w
<1>6. wire' = Append(Tail(wire), x) => wire' = Append(w, x)
  BY DEF w
<1>7. 1 \in Places
  BY <1>2 DEF Places
<1>8. QED
  BY <1>2, <1>3, <1>4, <1>5, <1>6, <1>7

\* What a step leaves of an order it is not about.
Untouched(o) ==
    /\ srv'[o] = srv[o] /\ srvVer'[o] = srvVer[o] /\ held'[o] = held[o] /\ version'[o] = version[o]
    /\ lastClord'[o] = lastClord[o] /\ cancelClord'[o] = cancelClord[o] /\ finished'[o] = finished[o]
    /\ o \in queries' <=> o \in queries
    /\ o \in dropped' <=> o \in dropped

\* ... and at least one that is reported on: an order held keeps its version.
Goes(o) ==
    /\ srv'[o] = srv[o] /\ srvVer'[o] = srvVer[o] /\ cancelClord'[o] = cancelClord[o]
    /\ held[o] # None => held'[o] # None /\ version'[o] = version[o]
    /\ o \in dropped' <=> o \in dropped

\* Nothing new on the wire is about the order.
NoNews(o, k) == \A i \in Places' : i > k => ~AboutAt(i, o)' /\ ~RejectAt(i, o)'

LEMMA OldNews ==
    ASSUME TableInv, NEW o, NEW d, NEW k, Flows(d, k), ExecsKept, NoNews(o, k),
           NEW i \in Places', AboutAt(i, o)' \/ RejectAt(i, o)'
    PROVE  /\ i \in 1 .. k /\ i + d \in Places /\ wire'[i] = wire[i + d] /\ i \in Nat /\ d \in Nat
           /\ StatusAt(i, o)' <=> StatusAt(i + d, o)
           /\ AboutAt(i, o)' <=> AboutAt(i + d, o)
           /\ RejectAt(i, o)' <=> RejectAt(i + d, o)
           /\ AmendAt(i, o)' <=> AmendAt(i + d, o)
           /\ AnswerAt(i, o)' <=> AnswerAt(i + d, o)
<1>1. ~(i > k)
  BY DEF NoNews
<1>2. i \in 1 .. k /\ d \in Nat
  BY <1>1 DEF Flows, Places
<1>3. QED
  BY <1>2, GoesOn

\* A report about an order is of its status, or of one of its executions.
LEMMA Kinds ==
    ASSUME NEW o, NEW i
    PROVE  /\ StatusAt(i, o) => AboutAt(i, o)
           /\ AmendAt(i, o) => StatusAt(i, o) /\ wire[i].st = "6"
           /\ AnswerAt(i, o) => StatusAt(i, o) /\ wire[i].query
           /\ RejectAt(i, o) => ~AboutAt(i, o) /\ ~ReplayEnd(i)
           /\ AboutAt(i, o) => ~ReplayEnd(i)
           /\ StatusAt(i, o)' => AboutAt(i, o)'
           /\ AmendAt(i, o)' => StatusAt(i, o)' /\ wire'[i].st = "6"
           /\ AnswerAt(i, o)' => StatusAt(i, o)' /\ wire'[i].query
           /\ RejectAt(i, o)' => ~AboutAt(i, o)'
BY DEF StatusAt, AboutAt, AmendAt, AnswerAt, RejectAt, FillAt, ReplayEnd

\* The versions on the wire stay right for an order nothing new is about.
LEMMA NumbersElsewhere ==
    ASSUME TableInv, NEW o \in Orders, NEW d, NEW k, Flows(d, k), ExecsKept, NoNews(o, k),
           Goes(o), link' = "up" => link = "up", NumberedInv(o), ClordsInv(o)
    PROVE  NumberedInv(o)' /\ ClordsInv(o)'
<1>1. NumberedInv(o)'
  <2> SUFFICES ASSUME AtWork(o)', link' = "up" \/ o \notin dropped'
               PROVE  /\ \A i \in Places' : RejectAt(i, o)' \/ AmendAt(i, o)' =>
                            held'[o] # None /\ wire'[i].ver <= version'[o]
                      /\ \A i \in Places' : AmendAt(i, o)' => wire'[i].ver # cancelClord'[o]
                      /\ \A i, j \in Places' :
                            i # j /\ RejectAt(i, o)' /\ (RejectAt(j, o)' \/ AmendAt(j, o)') =>
                                wire'[i].ver # wire'[j].ver
    BY DEF NumberedInv
  <2>1. AtWork(o) /\ (link = "up" \/ o \notin dropped)
    BY DEF AtWork, Goes
  <2>2. ASSUME NEW i \in Places', RejectAt(i, o)' \/ AmendAt(i, o)'
        PROVE  /\ i + d \in Places /\ wire'[i] = wire[i + d] /\ i \in Nat /\ d \in Nat
               /\ RejectAt(i, o)' <=> RejectAt(i + d, o)
               /\ AmendAt(i, o)' <=> AmendAt(i + d, o)
    BY <2>2, OldNews, Kinds
  <2>3. \A i \in Places' : RejectAt(i, o)' \/ AmendAt(i, o)' => held'[o] # None /\ wire'[i].ver <= version'[o]
    BY <2>1, <2>2 DEF NumberedInv, Goes
  <2>4. \A i \in Places' : AmendAt(i, o)' => wire'[i].ver # cancelClord'[o]
    BY <2>1, <2>2 DEF NumberedInv, Goes
  <2>5. ASSUME NEW i \in Places', NEW j \in Places', i # j, RejectAt(i, o)', RejectAt(j, o)' \/ AmendAt(j, o)'
        PROVE  wire'[i].ver # wire'[j].ver
    <3>1. i + d \in Places /\ wire'[i] = wire[i + d] /\ i \in Nat /\ d \in Nat /\ RejectAt(i + d, o)
      BY <2>2, <2>5
    <3>2. j + d \in Places /\ wire'[j] = wire[j + d] /\ j \in Nat /\ (RejectAt(j + d, o) \/ AmendAt(j + d, o))
      BY <2>2, <2>5
    <3>3. i + d # j + d
      BY <2>5, <3>1, <3>2
    <3>4. QED
      BY <2>1, <3>1, <3>2, <3>3 DEF NumberedInv
  <2>6. QED
    BY <2>3, <2>4, <2>5
<1>2. ClordsInv(o)'
  <2> SUFFICES ASSUME AtWork(o)', o \notin dropped'
               PROVE  /\ held'[o] # None
                      /\ srvVer'[o] <= version'[o] /\ srvVer'[o] # cancelClord'[o]
                      /\ \A i \in Places' : RejectAt(i, o)' => wire'[i].ver # srvVer'[o]
                      /\ \A i \in Places' : AboutAt(i, o)' =>
                            wire'[i].ver <= srvVer'[o] /\ wire'[i].ver # cancelClord'[o]
    BY DEF ClordsInv
  <2>1. AtWork(o) /\ o \notin dropped
    BY DEF AtWork, Goes
  <2>2. ASSUME NEW i \in Places', RejectAt(i, o)' \/ AboutAt(i, o)'
        PROVE  /\ i + d \in Places /\ wire'[i] = wire[i + d]
               /\ RejectAt(i, o)' <=> RejectAt(i + d, o)
               /\ AboutAt(i, o)' <=> AboutAt(i + d, o)
    BY <2>2, OldNews
  <2>3. \A i \in Places' : RejectAt(i, o)' => wire'[i].ver # srvVer'[o]
    BY <2>1, <2>2 DEF ClordsInv, Goes
  <2>4. \A i \in Places' : AboutAt(i, o)' => wire'[i].ver <= srvVer'[o] /\ wire'[i].ver # cancelClord'[o]
    BY <2>1, <2>2 DEF ClordsInv, Goes
  <2>5. QED
    BY <2>1, <2>3, <2>4 DEF ClordsInv, Goes
<1>3. QED
  BY <1>1, <1>2

\* A report that is not read is still on its way.
LEMMA StillThere ==
    ASSUME TableInv, NEW o, NEW d, NEW k, Flows(d, k), k + d = Len(wire), ExecsKept, NEW i \in Places, i > d
    PROVE  /\ i - d \in Places' /\ i \in Nat /\ d \in {0, 1} /\ wire'[i - d] = wire[i]
           /\ StatusAt(i - d, o)' <=> StatusAt(i, o)
           /\ AboutAt(i - d, o)' <=> AboutAt(i, o)
           /\ RejectAt(i - d, o)' <=> RejectAt(i, o)
           /\ AnswerAt(i - d, o)' <=> AnswerAt(i, o)
<1>1. i - d \in 1 .. k /\ (i - d) + d = i /\ i \in Nat /\ d \in {0, 1}
  BY ComesOn
<1> DEFINE j == i - d
<1>2. j \in 1 .. k /\ j + d = i
  BY <1>1
<1> HIDE DEF j
<1>3. /\ j \in Places' /\ wire'[j] = wire[i]
      /\ StatusAt(j, o)' <=> StatusAt(i, o)
      /\ AboutAt(j, o)' <=> AboutAt(i, o)
      /\ RejectAt(j, o)' <=> RejectAt(i, o)
      /\ AnswerAt(j, o)' <=> AnswerAt(i, o)
  BY <1>2, GoesOn
<1>4. QED
  BY <1>1, <1>3 DEF j

\* The reject of the current version stays, unless it is what is read.
LEMMA RefusedStays ==
    ASSUME TableInv, NEW o \in Orders, NEW d, NEW k, Flows(d, k), k + d = Len(wire), ExecsKept,
           version'[o] = version[o], d = 1 => ~(RejectAt(1, o) /\ wire[1].ver = version[o]), Refused(o)
    PROVE  Refused(o)'
<1>1. PICK i \in Places : RejectAt(i, o) /\ wire[i].ver = version[o]
  BY DEF Refused
<1>2. i > d
  <2>1. i \in Nat /\ i >= 1 /\ d \in {0, 1}
    BY DEF Flows, Places
  <2>2. d = 1 => i # 1
    BY <1>1
  <2>3. QED
    BY <2>1, <2>2
<1>3. i - d \in Places' /\ RejectAt(i - d, o)' /\ wire'[i - d].ver = version'[o]
  BY <1>1, <1>2, StillThere
<1>4. QED
  BY <1>3 DEF Refused

\* The order's status stays in the replay, unless it is what is read.
LEMMA ReplayStays ==
    ASSUME TableInv, NEW o \in Orders, NEW d, NEW k, Flows(d, k), k + d = Len(wire), ExecsKept,
           d = 1 => ~AnswerAt(1, o), replay' = replay \/ (d = 1 /\ ReplayEnd(1)), Replayed(o)
    PROVE  Replayed(o)'
<1>1. PICK i \in Places : AnswerAt(i, o) /\ \A j \in 1 .. i : ~ReplayEnd(j)
  BY DEF Replayed
<1>2. i > d /\ i \in Nat /\ i >= 1 /\ d \in {0, 1} /\ i <= Len(wire) /\ Len(wire) \in Nat
  <2>1. i \in Nat /\ i >= 1 /\ d \in {0, 1} /\ i <= Len(wire) /\ Len(wire) \in Nat
    BY DEF Flows, Places
  <2>2. d = 1 => i # 1
    BY <1>1
  <2>3. QED
    BY <2>1, <2>2
<1>3. i - d \in Places' /\ AnswerAt(i - d, o)'
  BY <1>1, <1>2, StillThere
<1>4. replay'
  <2>1. ~ReplayEnd(1)
    BY <1>1, <1>2
  <2>2. QED
    BY <2>1, Zenon DEF Replayed
<1>5. ASSUME NEW j \in 1 .. i - d PROVE ~ReplayEnd(j)'
  <2>1. j \in 1 .. k /\ j + d \in 1 .. i
    BY <1>2 DEF Flows
  <2>2. QED
    BY <1>1, <2>1, GoesOn
<1>6. QED
  BY <1>3, <1>4, <1>5 DEF Replayed

\* A step of another order, or a report of nothing that counts for this one:
\* what puts it right is still on its way.
LEMMA CorrectedElsewhere ==
    ASSUME TableInv, NEW o \in Orders, NEW d, NEW k, Flows(d, k), k + d = Len(wire), ExecsKept,
           NoNews(o, k), Untouched(o), link' = link,
           d = 1 => ~AboutAt(1, o) /\ (RejectAt(1, o) => wire[1].ver # version[o]),
           replay' = replay \/ (d = 1 /\ ReplayEnd(1)),
           LastInv(o), HeldInv(o)
    PROVE  LastInv(o)' /\ HeldInv(o)'
<1>1. ASSUME NEW i \in Places, i > d
      PROVE  /\ i - d \in Places' /\ i \in Nat /\ d \in {0, 1} /\ wire'[i - d] = wire[i]
             /\ StatusAt(i - d, o)' <=> StatusAt(i, o)
             /\ AboutAt(i - d, o)' <=> AboutAt(i, o)
             /\ RejectAt(i - d, o)' <=> RejectAt(i, o)
             /\ AnswerAt(i - d, o)' <=> AnswerAt(i, o)
  BY <1>1, StillThere
<1>2. ASSUME NEW i \in Places, AboutAt(i, o) PROVE i > d
  <2>1. i \in Nat /\ i >= 1 /\ d \in {0, 1}
    BY DEF Flows, Places
  <2>2. d = 1 => i # 1
    BY <1>2
  <2>3. QED
    BY <2>1, <2>2
<1>3. Refused(o) => Refused(o)'
  BY RefusedStays DEF Untouched
<1>4. (\E i \in Places : AboutAt(i, o)) => \E i \in Places' : AboutAt(i, o)'
  BY <1>1, <1>2
<1>5. (\E i \in Places : StatusAt(i, o)) => \E i \in Places' : StatusAt(i, o)'
  BY <1>1, <1>2, Kinds
<1>6. (\E i \in Places : AnswerAt(i, o)) => \E i \in Places' : AnswerAt(i, o)'
  BY <1>1, <1>2, Kinds
<1>7. Replayed(o) => Replayed(o)'
  BY ReplayStays, Kinds
<1>8. LastInv(o)'
  <2> SUFFICES ASSUME AtWork(o)', o \notin dropped', link' = "up"
               PROVE  /\ \A i \in Places' : AboutAt(i, o)' /\ wire'[i].ver # srvVer'[o] =>
                            \E j \in Places' : i < j /\ AboutAt(j, o)'
                      /\ lastClord'[o] = srvVer'[o] \/ Refused(o)' \/ \E i \in Places' : AboutAt(i, o)'
    BY DEF LastInv
  <2>1. AtWork(o) /\ o \notin dropped /\ link = "up"
    BY DEF AtWork, Untouched
  <2>2. ASSUME NEW i \in Places', AboutAt(i, o)', wire'[i].ver # srvVer'[o]
        PROVE  \E j \in Places' : i < j /\ AboutAt(j, o)'
    <3>1. i + d \in Places /\ wire'[i] = wire[i + d] /\ i \in Nat /\ d \in Nat /\ AboutAt(i + d, o)
      BY <2>2, OldNews
    <3>2. PICK j \in Places : i + d < j /\ AboutAt(j, o)
      BY <2>1, <2>2, <3>1 DEF LastInv, Untouched
    <3>3. j - d \in Places' /\ AboutAt(j - d, o)' /\ j \in Nat
      BY <1>1, <1>2, <3>2
    <3>4. i < j - d
      BY <3>1, <3>2, <3>3
    <3>5. QED
      BY <3>3, <3>4
  <2>3. lastClord'[o] = srvVer'[o] \/ Refused(o)' \/ \E i \in Places' : AboutAt(i, o)'
    BY <1>3, <1>4, <2>1 DEF LastInv, Untouched
  <2>4. QED
    BY <2>2, <2>3
<1>9. HeldInv(o)'
  <2> SUFFICES ASSUME AtWork(o)', link' = "up"
               PROVE  \/ held'[o] \in Good
                      \/ Replayed(o)'
                      \/ held'[o] = "PendingSubmit" /\ \E i \in Places' : StatusAt(i, o)'
                      \/ held'[o] = "PendingCancel" /\ Refused(o)'
                      \/ held'[o] = "PendingCancel" /\ o \in queries' /\ \E i \in Places' : AnswerAt(i, o)'
    BY DEF HeldInv
  <2>1. AtWork(o) /\ link = "up"
    BY DEF AtWork, Untouched
  <2>2. QED
    BY <1>3, <1>5, <1>6, <1>7, <2>1 DEF HeldInv, Untouched
<1>10. QED
  BY <1>8, <1>9

\* The versions are numbers.
LEMMA VersionTyped ==
    ASSUME TypeOK, TableInv, NEW o \in Orders
    PROVE  /\ version[o] \in Nat /\ srvVer[o] \in Nat /\ cancelClord[o] \in Nat \cup {-1} /\ NoClord = -1
           /\ \A i \in Places : AboutAt(i, o) \/ RejectAt(i, o) => wire[i].ver \in Nat
<1>1. ASSUME NEW i \in Places, AboutAt(i, o) \/ RejectAt(i, o) PROVE wire[i].ver \in Nat
  <2>1. wire[i] \in Reports
    BY ElementOfSeq DEF TableInv, Places
  <2>2. wire[i].kind \in {"fill", "order", "reject"}
    BY <1>1 DEF AboutAt, RejectAt, StatusAt, FillAt
  <2>3. QED
    BY <2>1, <2>2 DEF Reports, EndTrades, EndReplay
<1>2. QED
  BY <1>1 DEF TypeOK, NoClord

\* What was on the wire before something is sent.
LEMMA WasSent ==
    ASSUME TableInv, NEW o, Flows(0, Len(wire)), ExecsKept, NEW i \in Places', ~(i > Len(wire))
    PROVE  /\ i \in Places /\ wire'[i] = wire[i]
           /\ StatusAt(i, o)' <=> StatusAt(i, o)
           /\ AboutAt(i, o)' <=> AboutAt(i, o)
           /\ RejectAt(i, o)' <=> RejectAt(i, o)
           /\ AmendAt(i, o)' <=> AmendAt(i, o)
           /\ AnswerAt(i, o)' <=> AnswerAt(i, o)
<1>1. i \in 1 .. Len(wire) /\ i + 0 = i /\ i \in Places
  BY DEF Flows, Places
<1>2. wire'[i] = wire[i]
  BY <1>1 DEF Flows
<1>3. FillAt(i) => wire[i].n \in 1 .. Len(execs)
  BY <1>1, FillRange
<1>4. FillAt(i) => execs'[wire[i].n] = execs[wire[i].n]
  BY <1>3 DEF ExecsKept
<1>5. QED
  BY <1>1, <1>2, <1>4 DEF StatusAt, AboutAt, RejectAt, AmendAt, AnswerAt, FillAt

\* A report of the order is read: its ClOrdID is the server's, or a later
\* report brings that.
LEMMA ReadLast ==
    ASSUME TypeOK, TableInv, NEW o \in Orders, NEW k, Flows(1, k), k + 1 = Len(wire), Len(wire') = k,
           ExecsKept, 1 \in Places, AboutAt(1, o), Goes(o), link' = link,
           lastClord'[o] = IF wire[1].ver = cancelClord[o] THEN lastClord[o] ELSE wire[1].ver,
           ClordsInv(o), LastInv(o)
    PROVE  LastInv(o)'
<1> SUFFICES ASSUME AtWork(o)', o \notin dropped', link' = "up"
             PROVE  /\ \A i \in Places' : AboutAt(i, o)' /\ wire'[i].ver # srvVer'[o] =>
                          \E j \in Places' : i < j /\ AboutAt(j, o)'
                    /\ lastClord'[o] = srvVer'[o] \/ Refused(o)' \/ \E i \in Places' : AboutAt(i, o)'
  BY DEF LastInv
<1>1. AtWork(o) /\ o \notin dropped /\ link = "up"
  BY DEF AtWork, Goes
<1>2. ASSUME NEW i \in Places, AboutAt(i, o), 1 < i
      PROVE  i - 1 \in Places' /\ AboutAt(i - 1, o)' /\ i \in Nat
  BY <1>2, StillThere
<1>3. ASSUME NEW i \in Places', AboutAt(i, o)', wire'[i].ver # srvVer'[o]
      PROVE  \E j \in Places' : i < j /\ AboutAt(j, o)'
  <2>1. i \in 1 .. k /\ k \in Nat
    BY DEF Places, Flows
  <2>2. i + 1 \in Places /\ wire'[i] = wire[i + 1] /\ i \in Nat /\ i >= 1 /\ AboutAt(i + 1, o)
    <3>1. /\ i + 1 \in Places /\ wire'[i] = wire[i + 1]
          /\ AboutAt(i, o)' <=> AboutAt(i + 1, o)
      BY ONLY TableInv, Flows(1, k), ExecsKept, <2>1, GoesOn
    <3>2. QED
      BY <1>3, <2>1, <3>1
  <2>3. PICK j \in Places : i + 1 < j /\ AboutAt(j, o)
    BY <1>1, <1>3, <2>2 DEF LastInv, Goes
  <2>4. j \in Nat /\ 1 < j
    BY <2>2, <2>3 DEF Places
  <2>5. j - 1 \in Places' /\ AboutAt(j - 1, o)' /\ i < j - 1
    BY <1>2, <2>2, <2>3, <2>4
  <2>6. QED
    BY <2>5
<1>4. CASE wire[1].ver = srvVer[o]
  BY <1>1, <1>3, <1>4 DEF ClordsInv, Goes
<1>5. CASE wire[1].ver # srvVer[o]
  <2>1. PICK j \in Places : 1 < j /\ AboutAt(j, o)
    BY <1>1, <1>5 DEF LastInv
  <2>2. QED
    BY <1>2, <1>3, <2>1
<1>6. QED
  BY <1>4, <1>5

\* A request of the order goes out and is refused or lost: nothing on its way
\* has its version but its own reject.
LEMMA RefusalNumbers ==
    ASSUME TypeOK, TableInv, NEW o \in Orders, Flows(0, Len(wire)), ExecsKept, Len(wire') <= Len(wire) + 1,
           \A i \in Places' : i > Len(wire) => ~AboutAt(i, o)' /\ wire'[i].ver = version[o] + 1,
           srv'[o] = srv[o], srvVer'[o] = srvVer[o], link' = link, o \in dropped' <=> o \in dropped,
           held[o] # None, held'[o] # None, version'[o] = version[o] + 1,
           cancelClord'[o] \in {cancelClord[o], version[o] + 1},
           KeptInv(o), NumberedInv(o), ClordsInv(o)
    PROVE  NumberedInv(o)' /\ ClordsInv(o)'
<1>1. /\ version[o] \in Nat /\ srvVer[o] \in Nat /\ cancelClord[o] \in Nat \cup {-1}
      /\ \A i \in Places : AboutAt(i, o) \/ RejectAt(i, o) => wire[i].ver \in Nat
  BY VersionTyped
<1>2. cancelClord[o] <= version[o]
  BY DEF KeptInv
<1>3. ASSUME NEW i \in Places', ~(i > Len(wire))
      PROVE  /\ i \in Places /\ wire'[i] = wire[i]
             /\ AboutAt(i, o)' <=> AboutAt(i, o)
             /\ RejectAt(i, o)' <=> RejectAt(i, o)
             /\ AmendAt(i, o)' <=> AmendAt(i, o)
  BY <1>3, WasSent
<1>4. ASSUME NEW i \in Places', NEW j \in Places', i > Len(wire), j > Len(wire) PROVE i = j
  BY <1>4 DEF Flows, Places
<1>5. NumberedInv(o)'
  <2> SUFFICES ASSUME AtWork(o)', link' = "up" \/ o \notin dropped'
               PROVE  /\ \A i \in Places' : RejectAt(i, o)' \/ AmendAt(i, o)' =>
                            held'[o] # None /\ wire'[i].ver <= version'[o]
                      /\ \A i \in Places' : AmendAt(i, o)' => wire'[i].ver # cancelClord'[o]
                      /\ \A i, j \in Places' :
                            i # j /\ RejectAt(i, o)' /\ (RejectAt(j, o)' \/ AmendAt(j, o)') =>
                                wire'[i].ver # wire'[j].ver
    BY DEF NumberedInv
  <2>1. AtWork(o) /\ (link = "up" \/ o \notin dropped)
    BY DEF AtWork
  <2>2. ASSUME NEW i \in Places', RejectAt(i, o)' \/ AmendAt(i, o)', ~(i > Len(wire))
        PROVE  /\ i \in Places /\ wire'[i] = wire[i] /\ wire[i].ver \in Nat /\ wire[i].ver <= version[o]
               /\ RejectAt(i, o)' <=> RejectAt(i, o)
               /\ AmendAt(i, o)' <=> AmendAt(i, o)
    <3>1. /\ i \in Places /\ wire'[i] = wire[i]
          /\ RejectAt(i, o)' <=> RejectAt(i, o)
          /\ AmendAt(i, o)' <=> AmendAt(i, o)
      BY <1>3, <2>2
    <3>2. wire[i].ver \in Nat
      BY <1>1, <2>2, <3>1, Kinds
    <3>3. wire[i].ver <= version[o]
      BY <2>1, <2>2, <3>1 DEF NumberedInv
    <3>4. QED
      BY <3>1, <3>2, <3>3
  <2>3. \A i \in Places' : RejectAt(i, o)' \/ AmendAt(i, o)' => held'[o] # None /\ wire'[i].ver <= version'[o]
    BY <1>1, <2>2
  <2>4. ASSUME NEW i \in Places', AmendAt(i, o)' PROVE wire'[i].ver # cancelClord'[o]
    <3>1. ~(i > Len(wire))
      BY <2>4, Kinds
    <3>2. wire[i].ver # cancelClord[o]
      BY <2>1, <2>2, <2>4, <3>1 DEF NumberedInv
    <3>3. QED
      BY <1>1, <2>2, <2>4, <3>1, <3>2
  <2>5. ASSUME NEW i \in Places', NEW j \in Places', i # j, RejectAt(i, o)', RejectAt(j, o)' \/ AmendAt(j, o)'
        PROVE  wire'[i].ver # wire'[j].ver
    <3>1. CASE i > Len(wire)
      <4>1. ~(j > Len(wire))
        BY <1>4, <2>5, <3>1
      <4>2. wire'[j].ver \in Nat /\ wire'[j].ver <= version[o]
        BY <2>2, <2>5, <4>1
      <4>3. QED
        BY <1>1, <3>1, <4>2
    <3>2. CASE ~(i > Len(wire)) /\ j > Len(wire)
      BY <1>1, <2>2, <2>5, <3>2
    <3>3. CASE ~(i > Len(wire)) /\ ~(j > Len(wire))
      BY <2>1, <2>2, <2>5, <3>3 DEF NumberedInv
    <3>4. QED
      BY <3>1, <3>2, <3>3
  <2>6. QED
    BY <2>3, <2>4, <2>5
<1>6. ClordsInv(o)'
  <2> SUFFICES ASSUME AtWork(o)', o \notin dropped'
               PROVE  /\ held'[o] # None
                      /\ srvVer'[o] <= version'[o] /\ srvVer'[o] # cancelClord'[o]
                      /\ \A i \in Places' : RejectAt(i, o)' => wire'[i].ver # srvVer'[o]
                      /\ \A i \in Places' : AboutAt(i, o)' =>
                            wire'[i].ver <= srvVer'[o] /\ wire'[i].ver # cancelClord'[o]
    BY DEF ClordsInv
  <2>1. AtWork(o) /\ o \notin dropped
    BY DEF AtWork
  <2>2. srvVer[o] <= version[o] /\ srvVer[o] # cancelClord[o]
    BY <2>1 DEF ClordsInv
  <2>3. ASSUME NEW i \in Places', RejectAt(i, o)' PROVE wire'[i].ver # srvVer'[o]
    <3>1. CASE i > Len(wire)
      BY <1>1, <2>2, <3>1
    <3>2. CASE ~(i > Len(wire))
      BY <1>3, <2>1, <2>3, <3>2 DEF ClordsInv
    <3>3. QED
      BY <3>1, <3>2
  <2>4. ASSUME NEW i \in Places', AboutAt(i, o)'
        PROVE  wire'[i].ver <= srvVer'[o] /\ wire'[i].ver # cancelClord'[o]
    <3>1. ~(i > Len(wire))
      BY <2>4
    <3>2. /\ wire'[i] = wire[i] /\ wire[i].ver \in Nat /\ wire[i].ver <= srvVer[o]
          /\ wire[i].ver # cancelClord[o]
      BY <1>1, <1>3, <2>1, <2>4, <3>1 DEF ClordsInv
    <3>3. QED
      BY <1>1, <2>2, <3>2
  <2>5. QED
    BY <1>1, <1>2, <2>2, <2>3, <2>4
<1>7. QED
  BY <1>5, <1>6

\* A modify of the order is accepted: the server has the version given out last.
LEMMA AcceptedNumbers ==
    ASSUME TypeOK, TableInv, NEW o \in Orders, Flows(0, Len(wire)), ExecsKept,
           \A i \in Places' : i > Len(wire) => ~RejectAt(i, o)' /\ wire'[i].ver = version[o] + 1,
           srv'[o] = srv[o], srvVer'[o] = version[o] + 1, link' = link, o \in dropped' <=> o \in dropped,
           held[o] # None, held'[o] = held[o], version'[o] = version[o] + 1, cancelClord'[o] = cancelClord[o],
           KeptInv(o), NumberedInv(o), ClordsInv(o)
    PROVE  NumberedInv(o)' /\ ClordsInv(o)'
<1>1. /\ version[o] \in Nat /\ srvVer[o] \in Nat /\ cancelClord[o] \in Nat \cup {-1}
      /\ \A i \in Places : AboutAt(i, o) \/ RejectAt(i, o) => wire[i].ver \in Nat
  BY VersionTyped
<1>2. cancelClord[o] <= version[o]
  BY DEF KeptInv
<1>3. ASSUME NEW i \in Places', RejectAt(i, o)' \/ AboutAt(i, o)', ~(i > Len(wire))
      PROVE  /\ i \in Places /\ wire'[i] = wire[i] /\ wire[i].ver \in Nat
             /\ RejectAt(i, o)' <=> RejectAt(i, o)
             /\ AboutAt(i, o)' <=> AboutAt(i, o)
             /\ AmendAt(i, o)' <=> AmendAt(i, o)
  BY <1>1, <1>3, WasSent
<1>4. NumberedInv(o)'
  <2> SUFFICES ASSUME AtWork(o)', link' = "up" \/ o \notin dropped'
               PROVE  /\ \A i \in Places' : RejectAt(i, o)' \/ AmendAt(i, o)' =>
                            held'[o] # None /\ wire'[i].ver <= version'[o]
                      /\ \A i \in Places' : AmendAt(i, o)' => wire'[i].ver # cancelClord'[o]
                      /\ \A i, j \in Places' :
                            i # j /\ RejectAt(i, o)' /\ (RejectAt(j, o)' \/ AmendAt(j, o)') =>
                                wire'[i].ver # wire'[j].ver
    BY DEF NumberedInv
  <2>1. AtWork(o) /\ (link = "up" \/ o \notin dropped)
    BY DEF AtWork
  <2>2. ASSUME NEW i \in Places', RejectAt(i, o)' \/ AmendAt(i, o)', ~(i > Len(wire))
        PROVE  wire[i].ver <= version[o]
    BY <1>3, <2>1, <2>2, Kinds DEF NumberedInv
  <2>3. ASSUME NEW i \in Places', RejectAt(i, o)' \/ AmendAt(i, o)' PROVE wire'[i].ver <= version'[o]
    <3>1. CASE i > Len(wire)
      BY <1>1, <3>1
    <3>2. CASE ~(i > Len(wire))
      BY <1>1, <1>3, <2>2, <2>3, <3>2, Kinds
    <3>3. QED
      BY <3>1, <3>2
  <2>4. ASSUME NEW i \in Places', AmendAt(i, o)' PROVE wire'[i].ver # cancelClord'[o]
    <3>1. CASE i > Len(wire)
      BY <1>1, <1>2, <3>1
    <3>2. CASE ~(i > Len(wire))
      BY <1>3, <2>1, <2>4, <3>2, Kinds DEF NumberedInv
    <3>3. QED
      BY <3>1, <3>2
  <2>5. ASSUME NEW i \in Places', NEW j \in Places', i # j, RejectAt(i, o)', RejectAt(j, o)' \/ AmendAt(j, o)'
        PROVE  wire'[i].ver # wire'[j].ver
    <3>1. ~(i > Len(wire))
      BY <2>5
    <3>2. wire'[i] = wire[i] /\ wire[i].ver \in Nat /\ wire[i].ver <= version[o] /\ RejectAt(i, o) /\ i \in Places
      BY <1>3, <2>2, <2>5, <3>1
    <3>3. CASE j > Len(wire)
      BY <1>1, <3>2, <3>3
    <3>4. CASE ~(j > Len(wire))
      <4>1. wire'[j] = wire[j] /\ j \in Places /\ (RejectAt(j, o) \/ AmendAt(j, o))
        BY <1>3, <2>5, <3>4, Kinds
      <4>2. QED
        BY <2>1, <2>5, <3>2, <4>1 DEF NumberedInv
    <3>5. QED
      BY <3>3, <3>4
  <2>6. QED
    BY <2>3, <2>4, <2>5
<1>5. ClordsInv(o)'
  <2> SUFFICES ASSUME AtWork(o)', o \notin dropped'
               PROVE  /\ held'[o] # None
                      /\ srvVer'[o] <= version'[o] /\ srvVer'[o] # cancelClord'[o]
                      /\ \A i \in Places' : RejectAt(i, o)' => wire'[i].ver # srvVer'[o]
                      /\ \A i \in Places' : AboutAt(i, o)' =>
                            wire'[i].ver <= srvVer'[o] /\ wire'[i].ver # cancelClord'[o]
    BY DEF ClordsInv
  <2>1. AtWork(o) /\ o \notin dropped
    BY DEF AtWork
  <2>2. srvVer[o] <= version[o] /\ srvVer[o] # cancelClord[o]
    BY <2>1 DEF ClordsInv
  <2>3. ASSUME NEW i \in Places', RejectAt(i, o)' PROVE wire'[i].ver # srvVer'[o]
    <3>1. ~(i > Len(wire))
      BY <2>3
    <3>2. wire'[i] = wire[i] /\ wire[i].ver \in Nat /\ wire[i].ver <= version[o]
      BY <1>3, <2>1, <2>3, <3>1 DEF NumberedInv
    <3>3. QED
      BY <1>1, <3>2
  <2>4. ASSUME NEW i \in Places', AboutAt(i, o)'
        PROVE  wire'[i].ver <= srvVer'[o] /\ wire'[i].ver # cancelClord'[o]
    <3>1. CASE i > Len(wire)
      BY <1>1, <1>2, <3>1
    <3>2. CASE ~(i > Len(wire))
      <4>1. wire'[i] = wire[i] /\ wire[i].ver \in Nat /\ wire[i].ver <= srvVer[o] /\ wire[i].ver # cancelClord[o]
        BY <1>3, <2>1, <2>4, <3>2 DEF ClordsInv
      <4>2. QED
        BY <1>1, <2>2, <4>1
    <3>3. QED
      BY <3>1, <3>2
  <2>5. QED
    BY <1>1, <1>2, <2>3, <2>4
<1>6. QED
  BY <1>4, <1>5

\* Reports of the server's version are sent after what is on its way.
LEMMA SentLast ==
    ASSUME TypeOK, TableInv, NEW o \in Orders, NEW d, NEW k, Flows(d, k), Len(wire') > k,
           \A i \in Places' : i > k => AboutAt(i, o)' /\ wire'[i].ver = srvVer'[o]
    PROVE  LastInv(o)'
<1>1. k \in Nat /\ Len(wire') \in Nat /\ Len(wire') \in Places' /\ \A i \in Places' : i \in Nat
  BY DEF Flows, Places
<1>2. PICK n \in Places' : n = Len(wire')
  BY <1>1
<1>3. AboutAt(n, o)'
  BY <1>2
<1>4. ASSUME NEW i \in Places', wire'[i].ver # srvVer'[o] PROVE i < n
  <2>1. ~(i > k)
    BY <1>4
  <2>2. QED
    BY <1>1, <1>2, <2>1
<1>5. QED
  BY <1>3, <1>4 DEF LastInv

\* A request of the order is refused.
LEMMA RefusalLast ==
    ASSUME TypeOK, TableInv, NEW o \in Orders, Flows(0, Len(wire)), ExecsKept, Len(wire') = Len(wire) + 1,
           NEW n, n = Len(wire'), RejectAt(n, o)', wire'[n].ver = version'[o],
           srv'[o] = srv[o], srvVer'[o] = srvVer[o], link' = link, o \in dropped' <=> o \in dropped, LastInv(o)
    PROVE  LastInv(o)' /\ Refused(o)'
<1>1. n \in Places' /\ Len(wire) \in Nat
  BY DEF Flows, Places
<1>2. \A i \in Places' : i > Len(wire) => i = n
  BY DEF Flows, Places
<1>3. Refused(o)'
  BY <1>1 DEF Refused
<1>4. ASSUME AtWork(o)', o \notin dropped', link' = "up", NEW i \in Places', AboutAt(i, o)', wire'[i].ver # srvVer'[o]
      PROVE  \E j \in Places' : i < j /\ AboutAt(j, o)'
  <2>1. AtWork(o) /\ o \notin dropped /\ link = "up"
    BY <1>4 DEF AtWork
  <2>2. ~(i > Len(wire))
    BY <1>2, <1>4, Kinds
  <2>3. i \in Places /\ wire'[i] = wire[i] /\ AboutAt(i, o)
    BY <1>4, <2>2, WasSent
  <2>4. PICK j \in Places : i < j /\ AboutAt(j, o)
    BY <1>4, <2>1, <2>3 DEF LastInv
  <2>5. j \in Places' /\ ~(j > Len(wire))
    BY <2>4 DEF Places, Flows
  <2>6. AboutAt(j, o)'
    BY <2>4, <2>5, WasSent
  <2>7. QED
    BY <2>4, <2>5, <2>6
<1>5. QED
  BY <1>3, <1>4 DEF LastInv

\* Something is sent of an order held as it was: what puts it right stays.
LEMMA SentHeld ==
    ASSUME TableInv, NEW o \in Orders, Flows(0, Len(wire)), ExecsKept, srv'[o] = srv[o], held'[o] = held[o],
           link' = link, replay' = replay, o \in queries' <=> o \in queries,
           held[o] = "PendingCancel" => version'[o] = version[o], HeldInv(o)
    PROVE  HeldInv(o)'
<1> SUFFICES ASSUME AtWork(o)', link' = "up"
             PROVE  \/ held'[o] \in Good
                    \/ Replayed(o)'
                    \/ held'[o] = "PendingSubmit" /\ \E i \in Places' : StatusAt(i, o)'
                    \/ held'[o] = "PendingCancel" /\ Refused(o)'
                    \/ held'[o] = "PendingCancel" /\ o \in queries' /\ \E i \in Places' : AnswerAt(i, o)'
  BY DEF HeldInv
<1>1. AtWork(o) /\ link = "up"
  BY DEF AtWork
<1>2. ASSUME NEW i \in Places PROVE i \in Places' /\ ~(i > Len(wire))
  BY DEF Flows, Places
<1>3. (\E i \in Places : StatusAt(i, o)) => \E i \in Places' : StatusAt(i, o)'
  BY <1>2, WasSent
<1>4. (\E i \in Places : AnswerAt(i, o)) => \E i \in Places' : AnswerAt(i, o)'
  BY <1>2, WasSent
<1>5. Len(wire) + 0 = Len(wire)
  BY DEF Flows
<1>6. Replayed(o) => Replayed(o)'
  BY <1>5, ReplayStays
<1>7. Refused(o) /\ version'[o] = version[o] => Refused(o)'
  BY <1>5, RefusedStays
<1>8. QED
  BY <1>1, <1>3, <1>4, <1>6, <1>7 DEF HeldInv

\* The reject of the current version is read: the version goes back to one
\* nothing on its way has, and the status asked for is on its way.
LEMMA RejectRead ==
    ASSUME TypeOK, TableInv, NEW o \in Orders, NEW k, Flows(1, k), k + 1 = Len(wire), ExecsKept,
           1 \in Places, RejectAt(1, o), wire[1].ver = version[o],
           srv'[o] = srv[o], srvVer'[o] = srvVer[o], held'[o] = held[o], o \in dropped' <=> o \in dropped,
           link' = link, replay' = replay, version'[o] = version[o] - 1,
           cancelClord'[o] = IF cancelClord[o] = wire[1].ver THEN NoClord ELSE cancelClord[o],
           held[o] # None => o \in queries',
           AtWork(o) => \A i \in Places' : i > k =>
              AnswerAt(i, o)' /\ wire'[i].ver = srvVer[o] /\ wire'[i].st \in {"0", "1"},
           link = "up" => Len(wire') > k,
           NumberedInv(o), ClordsInv(o), HeldInv(o)
    PROVE  NumberedInv(o)' /\ ClordsInv(o)' /\ LastInv(o)' /\ HeldInv(o)'
<1>1. /\ version[o] \in Nat /\ srvVer[o] \in Nat /\ cancelClord[o] \in Nat \cup {-1} /\ NoClord = -1
      /\ \A i \in Places : AboutAt(i, o) \/ RejectAt(i, o) => wire[i].ver \in Nat
  BY VersionTyped
<1>2. ASSUME NEW i \in Places', ~(i > k)
      PROVE  /\ i + 1 \in Places /\ wire'[i] = wire[i + 1] /\ i \in Nat /\ i >= 1
             /\ StatusAt(i, o)' <=> StatusAt(i + 1, o)
             /\ AboutAt(i, o)' <=> AboutAt(i + 1, o)
             /\ RejectAt(i, o)' <=> RejectAt(i + 1, o)
             /\ AmendAt(i, o)' <=> AmendAt(i + 1, o)
  <2>1. i \in 1 .. k /\ i \in Nat /\ i >= 1
    BY <1>2 DEF Flows, Places
  <2>2. QED
    BY ONLY <2>1, TableInv, Flows(1, k), ExecsKept, GoesOn
<1>3. ASSUME AtWork(o), NEW i \in Places', RejectAt(i, o)' \/ AmendAt(i, o)' PROVE ~(i > k)
  BY <1>3, Kinds
<1>4. NumberedInv(o)'
  <2> SUFFICES ASSUME AtWork(o)', link' = "up" \/ o \notin dropped'
               PROVE  /\ \A i \in Places' : RejectAt(i, o)' \/ AmendAt(i, o)' =>
                            held'[o] # None /\ wire'[i].ver <= version'[o]
                      /\ \A i \in Places' : AmendAt(i, o)' => wire'[i].ver # cancelClord'[o]
                      /\ \A i, j \in Places' :
                            i # j /\ RejectAt(i, o)' /\ (RejectAt(j, o)' \/ AmendAt(j, o)') =>
                                wire'[i].ver # wire'[j].ver
    BY DEF NumberedInv
  <2>1. AtWork(o) /\ (link = "up" \/ o \notin dropped)
    BY DEF AtWork
  <2>2. ASSUME NEW i \in Places', RejectAt(i, o)' \/ AmendAt(i, o)'
        PROVE  /\ i + 1 \in Places /\ wire'[i] = wire[i + 1] /\ i \in Nat /\ i + 1 # 1
               /\ wire[i + 1].ver \in Nat
               /\ RejectAt(i, o)' <=> RejectAt(i + 1, o)
               /\ AmendAt(i, o)' <=> AmendAt(i + 1, o)
    BY <1>1, <1>2, <1>3, <2>1, <2>2, Kinds
  <2>3. ASSUME NEW i \in Places', RejectAt(i, o)' \/ AmendAt(i, o)'
        PROVE  held'[o] # None /\ wire'[i].ver <= version'[o]
    <3>1. held[o] # None /\ wire[i + 1].ver <= version[o] /\ wire[i + 1].ver # wire[1].ver
      BY <2>1, <2>2, <2>3 DEF NumberedInv
    <3>2. QED
      BY <1>1, <2>2, <2>3, <3>1
  <2>4. ASSUME NEW i \in Places', AmendAt(i, o)' PROVE wire'[i].ver # cancelClord'[o]
    <3>1. wire[i + 1].ver # cancelClord[o]
      BY <2>1, <2>2, <2>4 DEF NumberedInv
    <3>2. QED
      BY <1>1, <2>2, <2>4, <3>1
  <2>5. ASSUME NEW i \in Places', NEW j \in Places', i # j, RejectAt(i, o)', RejectAt(j, o)' \/ AmendAt(j, o)'
        PROVE  wire'[i].ver # wire'[j].ver
    <3>1. i + 1 # j + 1
      BY <2>2, <2>5
    <3>2. QED
      BY <2>1, <2>2, <2>5, <3>1 DEF NumberedInv
  <2>6. QED
    BY <2>3, <2>4, <2>5
<1>5. ClordsInv(o)'
  <2> SUFFICES ASSUME AtWork(o)', o \notin dropped'
               PROVE  /\ held'[o] # None
                      /\ srvVer'[o] <= version'[o] /\ srvVer'[o] # cancelClord'[o]
                      /\ \A i \in Places' : RejectAt(i, o)' => wire'[i].ver # srvVer'[o]
                      /\ \A i \in Places' : AboutAt(i, o)' =>
                            wire'[i].ver <= srvVer'[o] /\ wire'[i].ver # cancelClord'[o]
    BY DEF ClordsInv
  <2>1. AtWork(o) /\ o \notin dropped
    BY DEF AtWork
  <2>2. srvVer[o] <= version[o] /\ srvVer[o] # cancelClord[o] /\ held[o] # None /\ wire[1].ver # srvVer[o]
    BY <2>1 DEF ClordsInv
  <2>3. \A i \in Places' : RejectAt(i, o)' => wire'[i].ver # srvVer'[o]
    BY <1>2, <1>3, <2>1 DEF ClordsInv
  <2>4. ASSUME NEW i \in Places', AboutAt(i, o)'
        PROVE  wire'[i].ver <= srvVer'[o] /\ wire'[i].ver # cancelClord'[o]
    <3>1. CASE i > k
      BY <1>1, <2>1, <2>2, <3>1
    <3>2. CASE ~(i > k)
      <4>1. /\ wire'[i] = wire[i + 1] /\ wire[i + 1].ver \in Nat /\ wire[i + 1].ver <= srvVer[o]
            /\ wire[i + 1].ver # cancelClord[o]
        BY <1>1, <1>2, <2>1, <2>4, <3>2 DEF ClordsInv
      <4>2. QED
        BY <1>1, <4>1
    <3>3. QED
      BY <3>1, <3>2
  <2>5. QED
    BY <1>1, <2>2, <2>3, <2>4
<1>6. LastInv(o)'
  <2>1. CASE ~(AtWork(o) /\ link = "up")
    BY <2>1 DEF LastInv, AtWork
  <2>2. CASE AtWork(o) /\ link = "up"
    <3>1. \A i \in Places' : i > k => AboutAt(i, o)' /\ wire'[i].ver = srvVer'[o]
      BY <2>2, Kinds
    <3>2. Len(wire') > k
      BY <2>2
    <3>3. QED
      BY <3>1, <3>2, SentLast
  <2>3. QED
    BY <2>1, <2>2
<1>7. HeldInv(o)'
  <2> SUFFICES ASSUME AtWork(o)', link' = "up"
               PROVE  \/ held'[o] \in Good
                      \/ Replayed(o)'
                      \/ held'[o] = "PendingSubmit" /\ \E i \in Places' : StatusAt(i, o)'
                      \/ held'[o] = "PendingCancel" /\ Refused(o)'
                      \/ held'[o] = "PendingCancel" /\ o \in queries' /\ \E i \in Places' : AnswerAt(i, o)'
    BY DEF HeldInv
  <2>1. AtWork(o) /\ link = "up"
    BY DEF AtWork
  <2>2. Replayed(o) => Replayed(o)'
    BY ReplayStays, Kinds
  <2>3. PICK n \in Places' : n = Len(wire')
    BY <2>1 DEF Flows, Places
  <2>4. AnswerAt(n, o)' /\ StatusAt(n, o)'
    BY <2>1, <2>3, Kinds
  <2>5. held[o] # None
    BY <2>1 DEF NumberedInv
  <2>6. QED
    BY <2>1, <2>2, <2>4, <2>5 DEF HeldInv
<1>8. QED
  BY <1>4, <1>5, <1>6, <1>7

\* An execution of the order is reported with the server's version.
LEMMA OwnFill ==
    ASSUME TypeOK, TableInv, NEW o \in Orders, Flows(0, Len(wire)), ExecsKept, AtWork(o), AtWork(o)',
           \A i \in Places' : i > Len(wire) =>
              ~StatusAt(i, o)' /\ ~RejectAt(i, o)' /\ AboutAt(i, o)' /\ wire'[i].ver = srvVer[o],
           link = "up" => Len(wire') > Len(wire),
           Untouched(o), link' = link, replay' = replay,
           NumberedInv(o), ClordsInv(o), HeldInv(o)
    PROVE  NumberedInv(o)' /\ ClordsInv(o)' /\ LastInv(o)' /\ HeldInv(o)'
<1>1. ASSUME NEW i \in Places', RejectAt(i, o)' \/ AmendAt(i, o)'
      PROVE  /\ i \in Places /\ wire'[i] = wire[i]
             /\ RejectAt(i, o)' <=> RejectAt(i, o)
             /\ AmendAt(i, o)' <=> AmendAt(i, o)
  <2>1. ~(i > Len(wire))
    BY <1>1, Kinds
  <2>2. QED
    BY <2>1, WasSent
<1>2. NumberedInv(o)'
  BY <1>1 DEF NumberedInv, Untouched
<1>3. ClordsInv(o)'
  <2> SUFFICES ASSUME o \notin dropped'
               PROVE  /\ held'[o] # None
                      /\ srvVer'[o] <= version'[o] /\ srvVer'[o] # cancelClord'[o]
                      /\ \A i \in Places' : RejectAt(i, o)' => wire'[i].ver # srvVer'[o]
                      /\ \A i \in Places' : AboutAt(i, o)' =>
                            wire'[i].ver <= srvVer'[o] /\ wire'[i].ver # cancelClord'[o]
    BY DEF ClordsInv
  <2>1. o \notin dropped /\ srvVer[o] \in Nat
    BY VersionTyped DEF Untouched
  <2>2. \A i \in Places' : RejectAt(i, o)' => wire'[i].ver # srvVer'[o]
    BY <1>1, <2>1 DEF ClordsInv, Untouched
  <2>3. ASSUME NEW i \in Places', AboutAt(i, o)'
        PROVE  wire'[i].ver <= srvVer'[o] /\ wire'[i].ver # cancelClord'[o]
    <3>1. CASE i > Len(wire)
      BY <2>1, <3>1 DEF ClordsInv, Untouched
    <3>2. CASE ~(i > Len(wire))
      BY <2>1, <2>3, <3>2, WasSent DEF ClordsInv, Untouched
    <3>3. QED
      BY <3>1, <3>2
  <2>4. QED
    BY <2>1, <2>2, <2>3 DEF ClordsInv, Untouched
<1>4. LastInv(o)'
  <2>1. CASE link # "up"
    BY <2>1 DEF LastInv
  <2>2. CASE link = "up"
    <3>1. \A i \in Places' : i > Len(wire) => AboutAt(i, o)' /\ wire'[i].ver = srvVer'[o]
      BY DEF Untouched
    <3>2. QED
      BY <2>2, <3>1, SentLast
  <2>3. QED
    BY <2>1, <2>2
<1>5. HeldInv(o)'
  BY SentHeld DEF Untouched
<1>6. QED
  BY <1>2, <1>3, <1>4, <1>5

\* A new order is accepted: nothing was about it before.
LEMMA OwnNew ==
    ASSUME TypeOK, TableInv, NEW o \in Orders, Flows(0, Len(wire)), ExecsKept, Len(wire') = Len(wire) + 1,
           \A i \in Places : ~AboutAt(i, o) /\ ~RejectAt(i, o),
           \A i \in Places' : i > Len(wire) => StatusAt(i, o)' /\ ~AmendAt(i, o)' /\ wire'[i].ver = 0,
           srvVer'[o] = 0, held'[o] = "PendingSubmit", version'[o] = version[o], cancelClord'[o] = NoClord
    PROVE  NumberedInv(o)' /\ ClordsInv(o)' /\ LastInv(o)' /\ HeldInv(o)'
<1>1. version[o] \in Nat /\ NoClord = -1
  BY VersionTyped
<1>2. ASSUME NEW i \in Places', RejectAt(i, o)' \/ AboutAt(i, o)' PROVE i > Len(wire)
  BY <1>2, WasSent
<1>3. \A i \in Places' : ~RejectAt(i, o)' /\ ~AmendAt(i, o)'
  BY <1>2, Kinds
<1>4. NumberedInv(o)'
  BY <1>3 DEF NumberedInv
<1>5. ClordsInv(o)'
  BY <1>1, <1>2, <1>3 DEF ClordsInv, None
<1>6. LastInv(o)'
  <2>1. \A i \in Places' : i > Len(wire) => AboutAt(i, o)' /\ wire'[i].ver = srvVer'[o]
    BY Kinds
  <2>2. Len(wire') > Len(wire)
    BY DEF Flows
  <2>3. QED
    BY <2>1, <2>2, SentLast
<1>7. HeldInv(o)'
  <2>1. PICK n \in Places' : n = Len(wire')
    BY DEF Flows, Places
  <2>2. StatusAt(n, o)'
    BY <2>1 DEF Flows
  <2>3. QED
    BY <2>2 DEF HeldInv
<1>8. QED
  BY <1>4, <1>5, <1>6, <1>7

\* The answer to a status request of an order that works.
LEMMA WorkingAnswer ==
    ASSUME NEW o, AtWork(o)
    PROVE  /\ StatusAnswer(o).kind = "order" /\ StatusAnswer(o).o = o /\ StatusAnswer(o).ver = srvVer[o]
           /\ StatusAnswer(o).query /\ StatusAnswer(o).st \in {"0", "1"}
BY DEF StatusAnswer, Report, AtWork

\* What the wire of a reconnect says of an order that works.
LEMMA ReconnectSays ==
    ASSUME TypeOK, TypeOK', TableInv, Known \subseteq Known', OffLineInv, Reconnect,
           NEW o \in Orders, AtWork(o), AliveInv(o)
    PROVE  /\ \A i \in Places' : ~RejectAt(i, o)'
           /\ \A i \in Places' : StatusAt(i, o)' => wire'[i].query /\ wire'[i].st \in {"0", "1"}
           /\ \A i \in Places' : AboutAt(i, o)' =>
                 \/ wire'[i].ver = srvVer[o]
                 \/ i \in Places /\ wire'[i] = wire[i] /\ AboutAt(i, o)
           /\ \E a \in Places' :
                 /\ AnswerAt(a, o)' /\ \A j \in 1 .. a : ~ReplayEnd(j)'
                 /\ \A i \in Places : i < a
<1>1. PICK trades, replayed : ReplyOf(trades, replayed)
  BY ReconnectReply
<1> DEFINE L == Len(wire)
           T == Len(trades)
           E == L + T + 1
           Q == Len(replayed)
<1>2. /\ L \in Nat /\ T \in Nat /\ Q \in Nat /\ Len(wire') = E + Q + 1
      /\ \A i \in 1 .. L : wire'[i] = wire[i]
      /\ \A i \in 1 .. T : wire'[L + i] = trades[i]
      /\ wire'[E] = EndTrades
      /\ \A i \in 1 .. Q : wire'[E + i] = replayed[i]
      /\ wire'[E + Q + 1] = EndReplay
  BY <1>1, ReconnectWire DEF Placed
<1>3. /\ DOMAIN trades = 1 .. T /\ DOMAIN replayed = 1 .. Q
  BY <1>1, LenProperties DEF ReplyOf
<1>4. \A i \in 1 .. T : trades[i].kind = "fill" /\ trades[i].ver = srvVer[execs[trades[i].n]]
  BY <1>1, <1>3 DEF ReplyOf
<1>5. /\ \A i \in 1 .. Q : \E p \in Orders : AtWork(p) /\ replayed[i] = StatusAnswer(p)
      /\ \E i \in 1 .. Q : replayed[i] = StatusAnswer(o)
  BY <1>1, <1>3 DEF ReplyOf, AtWork
<1>6. execs' = execs /\ Disconnected
  BY DEF Reconnect, Disconnected, server
<1>7. ASSUME NEW i \in Places' PROVE
        \/ i \in Places /\ wire'[i] = wire[i] /\ i <= L
        \/ wire'[i].kind = "fill" /\ wire'[i].ver = srvVer[execs[wire'[i].n]]
        \/ wire'[i] = EndTrades
        \/ i > E /\ \E p \in Orders : AtWork(p) /\ wire'[i] = StatusAnswer(p)
        \/ i = E + Q + 1 /\ wire'[i] = EndReplay
  <2>0. i \in Nat /\ i >= 1 /\ i <= E + Q + 1 /\ E \in Nat
    BY <1>2 DEF Places
  <2>1. CASE i <= L
    BY <1>2, <2>0, <2>1 DEF Places
  <2>2. CASE L < i /\ i < E
    <3>1. i - L \in 1 .. T /\ L + (i - L) = i
      BY <1>2, <2>0, <2>2
    <3>2. wire'[i] = trades[i - L]
      BY <1>2, <3>1
    <3>3. QED
      BY <1>4, <3>1, <3>2
  <2>3. CASE i = E
    BY <1>2, <2>3
  <2>4. CASE E < i /\ i < E + Q + 1
    <3>1. i - E \in 1 .. Q /\ E + (i - E) = i
      BY <1>2, <2>0, <2>4
    <3>2. wire'[i] = replayed[i - E]
      BY <1>2, <3>1
    <3>3. QED
      BY <1>5, <2>4, <3>1, <3>2
  <2>5. CASE i = E + Q + 1
    BY <1>2, <2>5
  <2>6. QED
    BY <1>2, <2>0, <2>1, <2>2, <2>3, <2>4, <2>5
<1>8. \A i \in Places : ~RejectAt(i, o) /\ ~StatusAt(i, o) /\ ~ReplayEnd(i)
  <2>1. ASSUME NEW i \in Places PROVE FillAt(i) \/ (wire[i].kind = "order" /\ wire[i].st = "4")
    BY <1>6 DEF OffLineInv
  <2>2. QED
    BY <2>1 DEF RejectAt, StatusAt, ReplayEnd, FillAt, AliveInv
<1> HIDE DEF L, T, E, Q
<1>9. ASSUME NEW i \in Places' PROVE ~RejectAt(i, o)'
  <2>1. CASE i \in Places /\ wire'[i] = wire[i]
    BY <1>8, <2>1 DEF RejectAt
  <2>2. CASE wire'[i].kind = "fill" \/ wire'[i] = EndTrades \/ wire'[i] = EndReplay
    BY <2>2 DEF RejectAt, EndTrades, EndReplay
  <2>3. ASSUME NEW p \in Orders, AtWork(p), wire'[i] = StatusAnswer(p) PROVE ~RejectAt(i, o)'
    BY <2>3, WorkingAnswer DEF RejectAt
  <2>4. QED
    BY <1>7, <2>1, <2>2, <2>3
<1>10. ASSUME NEW i \in Places', StatusAt(i, o)'
       PROVE  wire'[i].query /\ wire'[i].st \in {"0", "1"} /\ wire'[i].ver = srvVer[o]
  <2>1. ~(i \in Places /\ wire'[i] = wire[i])
    BY <1>8, <1>10 DEF StatusAt
  <2>2. ~(wire'[i].kind = "fill" \/ wire'[i] = EndTrades \/ wire'[i] = EndReplay)
    BY <1>10 DEF StatusAt, EndTrades, EndReplay
  <2>3. PICK p \in Orders : AtWork(p) /\ wire'[i] = StatusAnswer(p)
    BY <1>7, <2>1, <2>2
  <2>4. p = o
    BY <1>10, <2>3, WorkingAnswer DEF StatusAt
  <2>5. QED
    BY <2>3, <2>4, WorkingAnswer
<1>11. ASSUME NEW i \in Places', AboutAt(i, o)'
       PROVE  \/ wire'[i].ver = srvVer[o]
              \/ i \in Places /\ wire'[i] = wire[i] /\ AboutAt(i, o)
  <2>1. CASE StatusAt(i, o)'
    BY <1>10, <2>1
  <2>2. CASE ~StatusAt(i, o)'
    <3>1. wire'[i].kind = "fill" /\ execs[wire'[i].n] = o
      BY <1>6, <1>11, <2>2 DEF AboutAt, FillAt
    <3>2. ASSUME NEW p \in Orders, AtWork(p) PROVE wire'[i] # StatusAnswer(p)
      BY <3>1, <3>2, WorkingAnswer
    <3>3. wire'[i] # EndTrades /\ wire'[i] # EndReplay
      BY <3>1 DEF EndTrades, EndReplay
    <3>4. QED
      BY <1>7, <3>1, <3>2, <3>3 DEF AboutAt, FillAt
  <2>3. QED
    BY <2>1, <2>2
<1>12. \E a \in Places' :
          /\ AnswerAt(a, o)' /\ \A j \in 1 .. a : ~ReplayEnd(j)'
          /\ \A i \in Places : i < a
  <2>1. PICK q \in 1 .. Q : replayed[q] = StatusAnswer(o)
    BY <1>5
  <2>2. E \in Nat /\ E > L /\ Q \in Nat /\ L \in Nat /\ Len(wire') = E + Q + 1
    BY <1>2 DEF E
  <2>3. E + q \in Places' /\ E + q < E + Q + 1 /\ wire'[E + q] = StatusAnswer(o)
    BY <1>2, <2>1, <2>2 DEF Places
  <2>4. PICK a \in Places' : a = E + q
    BY <2>3
  <2>5. AnswerAt(a, o)'
    BY <2>3, <2>4, WorkingAnswer DEF AnswerAt, StatusAt
  <2>6. ASSUME NEW i \in Places PROVE i < a
    BY <2>1, <2>2, <2>4 DEF Places, L
  <2>7. ASSUME NEW j \in 1 .. a PROVE ~ReplayEnd(j)'
    <3>1. j \in Places' /\ j # E + Q + 1
      BY <2>1, <2>2, <2>3, <2>4 DEF Places
    <3>2. CASE j \in Places /\ wire'[j] = wire[j]
      BY <1>8, <3>2 DEF ReplayEnd
    <3>3. CASE wire'[j].kind = "fill" \/ wire'[j] = EndTrades
      BY <3>3 DEF ReplayEnd, EndTrades
    <3>4. ASSUME NEW p \in Orders, AtWork(p), wire'[j] = StatusAnswer(p) PROVE ~ReplayEnd(j)'
      BY <3>4, WorkingAnswer DEF ReplayEnd
    <3>5. QED
      BY <1>7, <3>1, <3>2, <3>3, <3>4
  <2>8. QED
    BY <2>5, <2>6, <2>7
<1>13. QED
  BY <1>9, <1>10, <1>11, <1>12

\* A reconnect: the replay puts every working order right.
LEMMA ReconnectAgrees ==
    ASSUME TypeOK, TypeOK', TableInv, Known \subseteq Known', OffLineInv, Reconnect,
           NEW o \in Orders, AtWork(o), AliveInv(o), ClordsInv(o)
    PROVE  NumberedInv(o)' /\ ClordsInv(o)' /\ LastInv(o)' /\ HeldInv(o)'
<1>1. /\ \A i \in Places' : ~RejectAt(i, o)'
      /\ \A i \in Places' : StatusAt(i, o)' => wire'[i].query /\ wire'[i].st \in {"0", "1"}
      /\ \A i \in Places' : AboutAt(i, o)' =>
            \/ wire'[i].ver = srvVer[o]
            \/ i \in Places /\ wire'[i] = wire[i] /\ AboutAt(i, o)
  BY ReconnectSays
<1>2. PICK a \in Places' :
        /\ AnswerAt(a, o)' /\ \A j \in 1 .. a : ~ReplayEnd(j)'
        /\ \A i \in Places : i < a
  BY ReconnectSays
<1>3. UNCHANGED <<srv, srvVer, held, version, cancelClord, dropped>> /\ replay'
  BY DEF Reconnect, server, table, client
<1>4. \A i \in Places' : ~AmendAt(i, o)'
  BY <1>1, Kinds
<1>5. NumberedInv(o)'
  BY <1>1, <1>4 DEF NumberedInv
<1>6. ClordsInv(o)'
  <2> SUFFICES ASSUME o \notin dropped
               PROVE  /\ held'[o] # None
                      /\ srvVer'[o] <= version'[o] /\ srvVer'[o] # cancelClord'[o]
                      /\ \A i \in Places' : RejectAt(i, o)' => wire'[i].ver # srvVer'[o]
                      /\ \A i \in Places' : AboutAt(i, o)' =>
                            wire'[i].ver <= srvVer'[o] /\ wire'[i].ver # cancelClord'[o]
    BY <1>3 DEF ClordsInv
  <2>1. srvVer[o] \in Nat
    BY VersionTyped
  <2>2. QED
    BY <1>1, <1>3, <2>1 DEF ClordsInv
<1>7. LastInv(o)'
  BY <1>1, <1>2, <1>3, Kinds DEF LastInv
<1>8. HeldInv(o)'
  BY <1>2, <1>3 DEF HeldInv, Replayed
<1>9. QED
  BY <1>5, <1>6, <1>7, <1>8

\* The executions of an order.
LEMMA FillsSame ==
    ASSUME NEW o, NEW m \in Nat, NEW n \in 0 .. m, \A i \in 1 .. m : execs'[i] = execs[i]
    PROVE  FillsUpTo(o, n)' = FillsUpTo(o, n)
<1>1. {i \in 1 .. n : execs'[i] = o} = {i \in 1 .. n : execs[i] = o}
  OBVIOUS
<1>2. QED
  BY <1>1 DEF FillsUpTo

\* ... and those it has with one more, its own or another's.
LEMMA FillsMore ==
    ASSUME NEW o, NEW p, NEW m \in Nat, \A i \in 1 .. m : execs'[i] = execs[i], NEW n, n = m + 1, execs'[n] = p
    PROVE  /\ o = p => FillsUpTo(o, n)' = FillsUpTo(o, m) + 1
           /\ o # p => FillsUpTo(o, n)' = FillsUpTo(o, m)
           /\ FillsUpTo(o, m) \in Nat
<1> DEFINE S == {i \in 1 .. m : execs[i] = o}
           T == {i \in 1 .. n : execs'[i] = o}
<1>1. IsFiniteSet(S) /\ Cardinality(S) \in Nat
  <2>1. IsFiniteSet(1 .. m) /\ S \subseteq 1 .. m
    BY FS_Interval
  <2>2. IsFiniteSet(S)
    BY <2>1, FS_Subset
  <2>3. QED
    BY <2>2, FS_CardinalityType
<1>2. n \notin S
  OBVIOUS
<1>3. o = p => T = S \cup {n}
  OBVIOUS
<1>4. o # p => T = S
  OBVIOUS
<1>5. FillsUpTo(o, m) = Cardinality(S) /\ FillsUpTo(o, n)' = Cardinality(T)
  BY DEF FillsUpTo
<1> HIDE DEF S, T
<1>6. Cardinality(S \cup {n}) = Cardinality(S) + 1
  BY <1>1, <1>2, FS_AddElement
<1>7. QED
  BY <1>1, <1>3, <1>4, <1>5, <1>6

\* An order the server has not taken has none.
LEMMA FillsNone ==
    ASSUME TypeOK, TableInv, NEW o \in Orders, srv[o] = None
    PROVE  \A n \in 0 .. Len(execs) : FillsUpTo(o, n) < Qty
<1> SUFFICES ASSUME NEW n \in 0 .. Len(execs) PROVE FillsUpTo(o, n) < Qty
  OBVIOUS
<1>1. Len(execs) \in Nat
  BY DEF TypeOK
<1>2. {i \in 1 .. n : execs[i] = o} = {}
  BY <1>1 DEF TableInv
<1>3. FillsUpTo(o, n) = 0
  BY <1>2, FS_EmptySet DEF FillsUpTo
<1>4. QED
  BY <1>3, OrderBookAssumption

\* The executions made leave an order that works with something to fill.
Unfilled(o) == \A n \in 0 .. Len(execs) : FillsUpTo(o, n) < Qty

LEMMA UnfilledStays ==
    ASSUME TypeOK, execs' = execs, NEW o, Unfilled(o)
    PROVE  Unfilled(o)' /\ ExecsKept
BY DEF Unfilled, FillsUpTo, ExecsKept, TypeOK

\* Reports that keep an order at work.
AlivePlaces(o, k) ==
    \A i \in Places' : i > k /\ StatusAt(i, o)' =>
        wire'[i].st \in {"0", "1", "5", "6"} /\ (wire'[i].query => wire'[i].st \in {"0", "1"})

LEMMA AliveStays ==
    ASSUME TableInv, NEW o, NEW d, NEW k, Flows(d, k), ExecsKept, AliveInv(o), AtWork(o)' => AtWork(o),
           AtWork(o) /\ AtWork(o)' => finished'[o] = None /\ Unfilled(o)' /\ AlivePlaces(o, k)
    PROVE  AliveInv(o)'
<1> SUFFICES ASSUME AtWork(o)'
             PROVE  /\ finished'[o] = None
                    /\ Unfilled(o)'
                    /\ \A i \in Places' : StatusAt(i, o)' =>
                          wire'[i].st \in {"0", "1", "5", "6"} /\ (wire'[i].query => wire'[i].st \in {"0", "1"})
  BY DEF AliveInv, Unfilled
<1>1. AtWork(o) /\ finished'[o] = None /\ Unfilled(o)' /\ AlivePlaces(o, k)
  OBVIOUS
<1>2. ASSUME NEW i \in Places', StatusAt(i, o)'
      PROVE  wire'[i].st \in {"0", "1", "5", "6"} /\ (wire'[i].query => wire'[i].st \in {"0", "1"})
  <2>1. CASE i > k
    BY <1>1, <1>2, <2>1 DEF AlivePlaces
  <2>2. CASE ~(i > k)
    <3>1. i \in 1 .. k
      BY <2>2 DEF Flows, Places
    <3>2. i + d \in Places /\ wire'[i] = wire[i + d] /\ StatusAt(i + d, o)
      BY <1>2, <3>1, GoesOn
    <3>3. QED
      BY <1>1, <3>2 DEF AliveInv
  <2>3. QED
    BY <2>1, <2>2
<1>3. QED
  BY <1>1, <1>2

\* A step that is not about an order keeps all that holds of it.
LEMMA Elsewhere ==
    ASSUME TypeOK, TableInv, NEW o \in Orders, NEW d, NEW k, Flows(d, k), k + d = Len(wire), ExecsKept,
           NoNews(o, k), Untouched(o), link' = link, AtWork(o) => Unfilled(o)',
           d = 1 => ~AboutAt(1, o) /\ (RejectAt(1, o) => wire[1].ver # version[o]),
           replay' = replay \/ (d = 1 /\ ReplayEnd(1)),
           AgreeInv(o)
    PROVE  AgreeInv(o)'
<1>1. KeptInv(o) /\ AliveInv(o) /\ NumberedInv(o) /\ ClordsInv(o) /\ LastInv(o) /\ HeldInv(o)
  BY DEF AgreeInv
<1>2. LastInv(o)' /\ HeldInv(o)'
  BY <1>1, CorrectedElsewhere
<1>3. Goes(o)
  BY DEF Goes, Untouched
<1>4. NumberedInv(o)' /\ ClordsInv(o)'
  BY <1>1, <1>3, NumbersElsewhere
<1>5. KeptInv(o)'
  BY <1>1 DEF KeptInv, Untouched
<1>6. AliveInv(o)'
  <2>1. AtWork(o)' <=> AtWork(o)
    BY DEF AtWork, Untouched
  <2>2. AtWork(o) => finished'[o] = None
    BY <1>1 DEF AliveInv, Untouched
  <2>3. AlivePlaces(o, k)
    BY Kinds DEF AlivePlaces, NoNews
  <2>4. QED
    BY <1>1, <2>1, <2>2, <2>3, AliveStays
<1>7. QED
  BY <1>2, <1>4, <1>5, <1>6 DEF AgreeInv

\* An order that does not work promises nothing but its versions.
LEMMA AtRest ==
    ASSUME NEW o, ~AtWork(o)', KeptInv(o)'
    PROVE  AgreeInv(o)'
BY DEF AgreeInv, AliveInv, NumberedInv, ClordsInv, LastInv, HeldInv

-----------------------------------------------------------------------------
(***************************************************************************)
(* What each action does to what holds of an order.                        *)
(***************************************************************************)
\* A step that leaves the table and the server alone.
LEMMA OthersUntouched ==
    ASSUME UNCHANGED <<server, table, client>>, NEW o
    PROVE  Untouched(o) /\ execs' = execs
BY DEF Untouched, server, table, client

\* Nothing is sent or read.
LEMMA NothingSent ==
    ASSUME TypeOK, TableInv, NEW o \in Orders, wire' = wire, execs' = execs, Untouched(o), link' = link,
           replay' = replay, AgreeInv(o)
    PROVE  AgreeInv(o)'
<1>1. Flows(0, Len(wire)) /\ Len(wire') = Len(wire) /\ Len(wire) \in Nat
  <2>1. Flows(0, Len(wire)) /\ Len(wire') = Len(wire)
    BY SentFlows
  <2>2. QED
    BY <2>1 DEF Flows
<1>2. ExecsKept
  BY DEF ExecsKept
<1>3. AtWork(o) => Unfilled(o)'
  BY UnfilledStays DEF AgreeInv, AliveInv, Unfilled
<1>4. NoNews(o, Len(wire))
  BY <1>1 DEF NoNews, Places
<1>5. PICK d, k : d = 0 /\ k = Len(wire)
  OBVIOUS
<1>6. Flows(d, k) /\ k + d = Len(wire) /\ NoNews(o, k) /\ d # 1
  BY <1>1, <1>4, <1>5
<1>7. QED
  BY <1>2, <1>3, <1>6, Elsewhere

\* The head is read, and is nothing that counts for the order.
LEMMA HeadElsewhere ==
    ASSUME TypeOK, TableInv, NEW o \in Orders, Reading, wire' = Tail(wire), execs' = execs, Untouched(o),
           link' = link, ~AboutAt(1, o), RejectAt(1, o) => wire[1].ver # version[o],
           replay' = replay \/ ReplayEnd(1), AgreeInv(o)
    PROVE  AgreeInv(o)'
<1>1. Flows(1, Len(wire) - 1) /\ Len(wire') = Len(wire) - 1 /\ Len(wire) \in Nat
  BY ReadFlows
<1>2. ExecsKept
  BY DEF ExecsKept
<1>3. AtWork(o) => Unfilled(o)'
  BY UnfilledStays DEF AgreeInv, AliveInv, Unfilled
<1>4. NoNews(o, Len(wire) - 1)
  BY <1>1 DEF NoNews, Places
<1>5. PICK d, k : d = 1 /\ k = Len(wire) - 1
  OBVIOUS
<1>6. Flows(d, k) /\ k + d = Len(wire) /\ NoNews(o, k) /\ d = 1
  BY <1>1, <1>4, <1>5
<1>7. QED
  BY <1>2, <1>3, <1>6, Elsewhere

LEMMA ReadEndAgrees ==
    ASSUME TypeOK, TableInv, ReadEndTrades \/ ReadEndReplay, NEW o \in Orders, AgreeInv(o)
    PROVE  AgreeInv(o)'
<1>1. /\ Reading /\ wire' = Tail(wire) /\ link' = link /\ UNCHANGED <<server, table, client>>
      /\ Head(wire).kind \in {"endTrades", "endReplay"}
      /\ replay' = replay \/ Head(wire).kind = "endReplay"
  BY DEF ReadEndTrades, ReadEndReplay
<1>2. wire[1] = Head(wire)
  BY <1>1, ReadFlows
<1>3. ~AboutAt(1, o) /\ ~RejectAt(1, o) /\ (replay' = replay \/ ReplayEnd(1))
  BY <1>1, <1>2 DEF AboutAt, StatusAt, FillAt, RejectAt, ReplayEnd
<1>4. Untouched(o) /\ execs' = execs
  BY <1>1, OthersUntouched
<1>5. QED
  BY <1>1, <1>3, <1>4, HeadElsewhere

\* What follows the head, and one report more.
LEMMA HeadAnswered ==
    ASSUME TypeOK, TableInv, NEW o \in Orders, Reading, NEW x, wire' = Append(Tail(wire), x), execs' = execs,
           x.kind = "order", x.o # o, Untouched(o), link' = link, ~AboutAt(1, o), ~RejectAt(1, o),
           replay' = replay, AgreeInv(o)
    PROVE  AgreeInv(o)'
<1>1. Flows(1, Len(wire) - 1) /\ Len(wire') = Len(wire) /\ Len(wire) \in Nat /\ wire'[Len(wire)] = x
  BY ReadFlows
<1>2. ExecsKept
  BY DEF ExecsKept
<1>3. AtWork(o) => Unfilled(o)'
  BY UnfilledStays DEF AgreeInv, AliveInv, Unfilled
<1>4. NoNews(o, Len(wire) - 1)
  <2>1. ASSUME NEW i \in Places', i > Len(wire) - 1 PROVE wire'[i] = x
    BY <1>1, <2>1 DEF Places
  <2>2. QED
    BY <2>1 DEF NoNews, AboutAt, RejectAt, StatusAt, FillAt
<1>5. PICK d, k : d = 1 /\ k = Len(wire) - 1
  OBVIOUS
<1>6. Flows(d, k) /\ k + d = Len(wire) /\ NoNews(o, k) /\ d = 1
  BY <1>1, <1>4, <1>5
<1>7. QED
  BY <1>2, <1>3, <1>6, Elsewhere

LEMMA ReadCancelRejectAgrees ==
    ASSUME TypeOK, TableInv, ReadCancelReject, NEW o \in Orders, AgreeInv(o)
    PROVE  AgreeInv(o)'
<1> DEFINE f == Head(wire)
           p == f.o
<1>1. /\ Reading /\ f.kind = "reject" /\ link' = link /\ replay' = replay
      /\ UNCHANGED <<srv, srvVer, execs, told, completed, dropped>>
  BY DEF ReadCancelReject, server, client, asked
<1>2. p \in Orders /\ f.ver \in Nat \ {0}
  BY <1>1, HeadReport DEF Known
<1>3. 1 \in Places /\ wire[1] = f /\ Len(wire) \in Nat
  BY <1>1, ReadFlows
<1>4. ~AboutAt(1, o) /\ (RejectAt(1, o) <=> o = p)
  BY <1>1, <1>3 DEF AboutAt, StatusAt, FillAt, RejectAt
<1>5. CASE version[p] # f.ver
  <2>1. wire' = Tail(wire) /\ UNCHANGED table
    BY <1>5 DEF ReadCancelReject
  <2>2. Untouched(o)
    BY <1>1, <2>1 DEF Untouched, table
  <2>3. QED
    BY <1>1, <1>3, <1>4, <1>5, <2>1, <2>2, HeadElsewhere
<1>6. CASE version[p] = f.ver
  <2>1. /\ version' = [version EXCEPT ![p] = @ - 1]
        /\ lastClord' = [lastClord EXCEPT ![p] = IF @ = f.ver THEN f.ver - 1 ELSE @]
        /\ cancelClord' = [cancelClord EXCEPT ![p] = IF @ = f.ver THEN NoClord ELSE @]
        /\ queries' = IF held[p] # None THEN queries \cup {p} ELSE queries
        /\ wire' = IF link = "up" THEN Append(Tail(wire), StatusAnswer(p)) ELSE Tail(wire)
        /\ UNCHANGED <<held, finished>>
    BY <1>6 DEF ReadCancelReject
  <2>2. CASE o # p
    <3>1. Untouched(o)
      BY <1>1, <1>2, <2>1, <2>2 DEF Untouched, TypeOK
    <3>2. StatusAnswer(p).kind = "order" /\ StatusAnswer(p).o = p
      BY DEF StatusAnswer, Report
    <3>3. CASE link = "up"
      <4>1. PICK x : x = StatusAnswer(p)
        OBVIOUS
      <4>2. wire' = Append(Tail(wire), x) /\ x.kind = "order" /\ x.o # o
        BY <2>1, <2>2, <3>2, <3>3, <4>1
      <4> HIDE DEF f, p
      <4>3. QED
        BY <1>1, <1>4, <2>2, <3>1, <4>2, HeadAnswered
    <3>4. CASE link # "up"
      BY <1>1, <1>4, <2>1, <2>2, <3>1, <3>4, HeadElsewhere
    <3>5. QED
      BY <3>3, <3>4
  <2>3. CASE o = p
    <3>1. PICK k : k = Len(wire) - 1
      OBVIOUS
    <3>2. PICK x : x = StatusAnswer(p)
      OBVIOUS
    <3>3. Flows(1, k) /\ k + 1 = Len(wire) /\ (link = "up" => Len(wire') = k + 1 /\ wire'[k + 1] = x)
          /\ (link # "up" => Len(wire') = k) /\ k \in Nat
      <4>1. CASE link = "up"
        BY <1>1, <1>3, <2>1, <3>1, <3>2, <4>1, ReadFlows DEF Flows
      <4>2. CASE link # "up"
        BY <1>1, <1>3, <2>1, <3>1, <4>2, ReadFlows DEF Flows
      <4>3. QED
        BY <4>1, <4>2
    <3>4. ASSUME NEW i \in Places', i > k PROVE wire'[i] = x /\ link = "up"
      BY <3>3, <3>4 DEF Places
    <3>5. ExecsKept
      BY <1>1 DEF ExecsKept
    <3>6. AtWork(o) => \A i \in Places' : i > k =>
             AnswerAt(i, o)' /\ wire'[i].ver = srvVer[o] /\ wire'[i].st \in {"0", "1"}
      <4>1. ASSUME AtWork(o), NEW i \in Places', i > k
            PROVE  AnswerAt(i, o)' /\ wire'[i].ver = srvVer[o] /\ wire'[i].st \in {"0", "1"}
        <5>1. /\ x.kind = "order" /\ x.o = o /\ x.ver = srvVer[o] /\ x.query /\ x.st \in {"0", "1"}
          BY <2>3, <3>2, <4>1, WorkingAnswer
        <5>2. QED
          BY <3>4, <4>1, <5>1 DEF AnswerAt, StatusAt
      <4>2. QED
        BY <4>1
    <3>7. /\ version[o] \in Nat /\ cancelClord[o] \in Nat \cup {-1} /\ NoClord = -1 /\ version[o] = f.ver
          /\ RejectAt(1, o) /\ wire[1].ver = version[o]
      BY <1>3, <1>4, <1>6, <2>3, VersionTyped
    <3>8. /\ srv'[o] = srv[o] /\ srvVer'[o] = srvVer[o] /\ held'[o] = held[o] /\ finished'[o] = finished[o]
          /\ o \in dropped' <=> o \in dropped
          /\ version'[o] = version[o] - 1
          /\ cancelClord'[o] = IF cancelClord[o] = wire[1].ver THEN NoClord ELSE cancelClord[o]
          /\ held[o] # None => o \in queries'
      BY <1>1, <1>3, <2>1, <2>3 DEF TypeOK
    <3>9. KeptInv(o) /\ AliveInv(o) /\ NumberedInv(o) /\ ClordsInv(o) /\ HeldInv(o)
      BY DEF AgreeInv
    <3>10. link = "up" => Len(wire') > k
      BY <3>3
    <3> HIDE DEF f, p
    <3>11. NumberedInv(o)' /\ ClordsInv(o)' /\ LastInv(o)' /\ HeldInv(o)'
      BY ONLY TypeOK, TableInv, o \in Orders, <1>1, <1>3, <3>3, <3>5, <3>6, <3>7, <3>8, <3>9, <3>10, RejectRead
    <3>12. KeptInv(o)'
      BY <1>2, <1>3, <3>7, <3>8, <3>9 DEF KeptInv
    <3>13. AliveInv(o)'
      <4>1. AtWork(o)' <=> AtWork(o)
        BY <3>8 DEF AtWork
      <4>2. AtWork(o) => finished'[o] = None /\ Unfilled(o)'
        BY <1>1, <3>8, <3>9, UnfilledStays DEF AliveInv, Unfilled
      <4>3. AtWork(o) => AlivePlaces(o, k)
        BY <3>6 DEF AlivePlaces
      <4>4. PICK d : d = 1
        OBVIOUS
      <4>5. Flows(d, k)
        BY <3>3, <4>4
      <4>6. QED
        BY <3>5, <3>9, <4>1, <4>2, <4>3, <4>5, AliveStays
    <3>14. QED
      BY <3>11, <3>12, <3>13 DEF AgreeInv
  <2>4. QED
    BY <2>2, <2>3
<1>7. QED
  BY <1>5, <1>6

\* Something is sent that is not about the order.
LEMMA SentElsewhere ==
    ASSUME TypeOK, TableInv, NEW o \in Orders, Flows(0, Len(wire)), ExecsKept, NoNews(o, Len(wire)),
           Untouched(o), link' = link, replay' = replay, AtWork(o) => Unfilled(o)', AgreeInv(o)
    PROVE  AgreeInv(o)'
<1>1. PICK d, k : d = 0 /\ k = Len(wire)
  OBVIOUS
<1>2. Flows(d, k) /\ k + d = Len(wire) /\ NoNews(o, k) /\ d # 1
  BY <1>1 DEF Flows
<1>3. QED
  BY <1>2, Elsewhere

\* What the server sends by itself.
LEMMA Emitted ==
    ASSUME TableInv, NEW x, Emit(<<x>>)
    PROVE  /\ Flows(0, Len(wire)) /\ Len(wire) \in Nat
           /\ \A i \in Places' : i > Len(wire) => wire'[i] = x
           /\ link = "up" => Len(wire') > Len(wire)
<1>1. CASE link \in {"up", "relogin"}
  <2>1. wire' = wire \o <<x>>
    BY <1>1 DEF Emit
  <2>2. Flows(0, Len(wire)) /\ Len(wire') = Len(wire) + 1 /\ wire'[Len(wire) + 1] = x
    BY <2>1, SentFlows
  <2>3. QED
    BY <2>2 DEF Flows, Places
<1>2. CASE link \notin {"up", "relogin"}
  <2>1. wire' = wire
    BY <1>2 DEF Emit
  <2>2. Flows(0, Len(wire)) /\ Len(wire') = Len(wire)
    BY <2>1, SentFlows
  <2>3. QED
    BY <1>2, <2>2 DEF Flows, Places
<1>3. QED
  BY <1>1, <1>2

LEMMA ServerFillsAgrees ==
    ASSUME TypeOK, TableInv, NEW p \in Orders, ServerFills(p), NEW o \in Orders, AgreeInv(o)
    PROVE  AgreeInv(o)'
<1> DEFINE m == Len(execs)
           x == Fill(m + 1, srvVer[p], TRUE)
<1>1. /\ Emit(<<x>>) /\ execs' = Append(execs, p) /\ srv[p] = "working"
      /\ srv' = [srv EXCEPT ![p] = IF FillsUpTo(p, m) + 1 = Qty THEN "filled" ELSE @]
      /\ UNCHANGED <<srvVer, link, held, version, lastClord, cancelClord, queries, finished, dropped, replay>>
  BY DEF ServerFills, table, client, asked
<1>2. m \in Nat /\ Len(execs') = m + 1 /\ execs'[m + 1] = p /\ \A i \in 1 .. m : execs'[i] = execs[i]
  BY <1>1 DEF TypeOK
<1>3. ExecsKept
  BY <1>2 DEF ExecsKept
<1>4. x.kind = "fill" /\ x.n = m + 1 /\ x.ver = srvVer[p]
  BY DEF Fill
<1> HIDE DEF x
<1>5. /\ Flows(0, Len(wire)) /\ Len(wire) \in Nat
      /\ \A i \in Places' : i > Len(wire) => wire'[i] = x
      /\ link = "up" => Len(wire') > Len(wire)
  BY <1>1, Emitted
<1> HIDE DEF m
<1>6. ASSUME NEW n \in 0 .. m + 1
      PROVE  /\ n \in 0 .. m => FillsUpTo(o, n)' = FillsUpTo(o, n)
             /\ n = m + 1 => /\ o = p => FillsUpTo(o, n)' = FillsUpTo(o, m) + 1
                             /\ o # p => FillsUpTo(o, n)' = FillsUpTo(o, m)
             /\ FillsUpTo(o, m) \in Nat
  <2>1. n \in 0 .. m => FillsUpTo(o, n)' = FillsUpTo(o, n)
    BY <1>2, FillsSame
  <2>2. PICK l : l = m + 1
    OBVIOUS
  <2>3. /\ o = p => FillsUpTo(o, l)' = FillsUpTo(o, m) + 1
        /\ o # p => FillsUpTo(o, l)' = FillsUpTo(o, m)
        /\ FillsUpTo(o, m) \in Nat
    BY <1>2, <2>2, FillsMore
  <2>4. QED
    BY <2>1, <2>2, <2>3
<1>7. AtWork(o) => \A n \in 0 .. m : FillsUpTo(o, n) < Qty
  BY DEF AgreeInv, AliveInv, m
<1>8. AtWork(o) /\ AtWork(o)' => Unfilled(o)'
  <2> SUFFICES ASSUME AtWork(o), AtWork(o)', NEW n \in 0 .. m + 1 PROVE FillsUpTo(o, n)' < Qty
    BY <1>2 DEF Unfilled
  <2>1. FillsUpTo(o, m) < Qty /\ Qty \in Nat
    BY <1>2, <1>7, OrderBookAssumption
  <2>2. o = p => FillsUpTo(o, m) + 1 # Qty
    BY <1>1 DEF AtWork, TypeOK
  <2>3. CASE n \in 0 .. m
    BY <1>6, <1>7, <2>3
  <2>4. CASE n = m + 1
    BY <1>6, <2>1, <2>2, <2>4
  <2>5. QED
    BY <1>2, <2>3, <2>4
<1>9. ASSUME NEW i \in Places', i > Len(wire)
      PROVE  ~StatusAt(i, o)' /\ ~RejectAt(i, o)' /\ (AboutAt(i, o)' <=> o = p) /\ wire'[i].ver = srvVer[p]
  BY <1>2, <1>4, <1>5, <1>9 DEF StatusAt, RejectAt, AboutAt, FillAt
<1>10. KeptInv(o) /\ AliveInv(o) /\ NumberedInv(o) /\ ClordsInv(o) /\ HeldInv(o)
  BY DEF AgreeInv
<1>11. CASE o # p
  <2>1. Untouched(o)
    BY <1>1, <1>11 DEF Untouched, TypeOK
  <2>2. NoNews(o, Len(wire))
    BY <1>9, <1>11 DEF NoNews
  <2>3. AtWork(o)' <=> AtWork(o)
    BY <2>1 DEF AtWork, Untouched
  <2>4. QED
    BY <1>1, <1>3, <1>5, <1>8, <2>1, <2>2, <2>3, SentElsewhere
<1>12. CASE o = p
  <2>1. KeptInv(o)'
    BY <1>1, <1>10, <1>12 DEF KeptInv, None
  <2>2. CASE ~AtWork(o)'
    BY <2>1, <2>2, AtRest
  <2>3. CASE AtWork(o)'
    <3>1. Untouched(o) /\ AtWork(o)
      BY <1>1, <1>12, <2>3 DEF Untouched, AtWork
    <3>2. \A i \in Places' : i > Len(wire) =>
             ~StatusAt(i, o)' /\ ~RejectAt(i, o)' /\ AboutAt(i, o)' /\ wire'[i].ver = srvVer[o]
      BY <1>9, <1>12
    <3>3. NumberedInv(o)' /\ ClordsInv(o)' /\ LastInv(o)' /\ HeldInv(o)'
      BY <1>1, <1>3, <1>5, <1>10, <2>3, <3>1, <3>2, OwnFill
    <3>4. AliveInv(o)'
      <4>1. PICK d, k : d = 0 /\ k = Len(wire)
        OBVIOUS
      <4>2. Flows(d, k) /\ AlivePlaces(o, k)
        BY <1>5, <1>9, <4>1 DEF AlivePlaces
      <4>3. finished'[o] = None
        BY <1>1, <1>10, <3>1 DEF AliveInv
      <4>4. QED
        BY <1>3, <1>8, <1>10, <3>1, <4>2, <4>3, AliveStays
    <3>5. QED
      BY <2>1, <3>3, <3>4 DEF AgreeInv
  <2>4. QED
    BY <2>2, <2>3
<1>13. QED
  BY <1>11, <1>12

LEMMA ServerCancelsAgrees ==
    ASSUME TypeOK, TableInv, NEW p \in Orders, ServerCancels(p), NEW o \in Orders, AgreeInv(o)
    PROVE  AgreeInv(o)'
<1> DEFINE x == Report(p, srvVer[p], "4", FALSE)
<1>1. /\ Emit(<<x>>) /\ srv' = [srv EXCEPT ![p] = "cancelled"]
      /\ UNCHANGED <<srvVer, execs, link, held, version, lastClord, cancelClord, queries, finished, dropped, replay>>
  BY DEF ServerCancels, table, client, asked
<1>2. x.kind = "order" /\ x.o = p
  BY DEF Report
<1> HIDE DEF x
<1>3. Flows(0, Len(wire)) /\ \A i \in Places' : i > Len(wire) => wire'[i] = x
  BY <1>1, Emitted
<1>4. CASE o # p
  <2>1. Untouched(o)
    BY <1>1, <1>4 DEF Untouched, TypeOK
  <2>2. NoNews(o, Len(wire))
    BY <1>2, <1>3, <1>4 DEF NoNews, AboutAt, StatusAt, FillAt, RejectAt
  <2>3. ExecsKept /\ (AtWork(o) => Unfilled(o)')
    BY <1>1, UnfilledStays DEF AgreeInv, AliveInv, Unfilled, ExecsKept
  <2>4. QED
    BY <1>1, <1>3, <2>1, <2>2, <2>3, SentElsewhere
<1>5. CASE o = p
  <2>1. ~AtWork(o)'
    BY <1>1, <1>5 DEF AtWork, TypeOK
  <2>2. KeptInv(o)'
    BY <1>1, <1>5 DEF AgreeInv, KeptInv, None, TypeOK
  <2>3. QED
    BY <2>1, <2>2, AtRest
<1>6. QED
  BY <1>4, <1>5

\* The link is lost, or still is: nothing is promised but the versions.
LEMMA LinkLost ==
    ASSUME TypeOK, TableInv, NEW o \in Orders, NEW d, NEW k, Flows(d, k), Len(wire') = k, execs' = execs,
           Untouched(o), link' # "up", AgreeInv(o)
    PROVE  AgreeInv(o)'
<1>1. KeptInv(o) /\ AliveInv(o) /\ NumberedInv(o) /\ ClordsInv(o)
  BY DEF AgreeInv
<1>2. ExecsKept /\ (AtWork(o) => Unfilled(o)')
  BY <1>1, UnfilledStays DEF AliveInv, Unfilled, ExecsKept
<1>3. NoNews(o, k)
  BY DEF NoNews, Places, Flows
<1>4. Goes(o)
  BY DEF Goes, Untouched
<1>5. NumberedInv(o)' /\ ClordsInv(o)'
  BY <1>1, <1>2, <1>3, <1>4, NumbersElsewhere
<1>6. KeptInv(o)'
  BY <1>1 DEF KeptInv, Untouched
<1>7. AliveInv(o)'
  <2>1. AtWork(o)' <=> AtWork(o)
    BY DEF AtWork, Untouched
  <2>2. AtWork(o) => finished'[o] = None
    BY <1>1 DEF AliveInv, Untouched
  <2>3. AlivePlaces(o, k)
    BY <1>3, Kinds DEF AlivePlaces, NoNews
  <2>4. QED
    BY <1>1, <1>2, <2>1, <2>2, <2>3, AliveStays
<1>8. LastInv(o)' /\ HeldInv(o)'
  BY DEF LastInv, HeldInv
<1>9. QED
  BY <1>5, <1>6, <1>7, <1>8 DEF AgreeInv

LEMMA CutAgrees ==
    ASSUME TypeOK, TableInv, Cut, NEW o \in Orders, AgreeInv(o)
    PROVE  AgreeInv(o)'
<1>1. link' = "down" /\ UNCHANGED <<server, table, client>>
  BY DEF Cut
<1>2. Untouched(o) /\ execs' = execs
  BY <1>1, OthersUntouched
<1>3. PICK k \in 0 .. Len(wire) : wire' = SubSeq(wire, 1, k)
  BY DEF Cut
<1>4. wire \in Seq(Reports) /\ Len(wire) \in Nat
  BY LenProperties DEF TableInv
<1>5. Len(wire') = k /\ \A i \in 1 .. k : wire'[i] = wire[i]
  BY <1>3, <1>4
<1>6. PICK d : d = 0
  OBVIOUS
<1>7. Flows(d, k)
  BY <1>4, <1>5, <1>6 DEF Flows
<1>8. QED
  BY <1>1, <1>2, <1>5, <1>7, LinkLost

LEMMA OutageAgrees ==
    ASSUME TypeOK, TableInv, HandleDisconnect \/ Relogin, NEW o \in Orders, AgreeInv(o)
    PROVE  AgreeInv(o)'
<1>1. link' # "up" /\ wire' = wire /\ UNCHANGED <<server, table, client>>
  BY DEF HandleDisconnect, Relogin
<1>2. Untouched(o) /\ execs' = execs
  BY <1>1, OthersUntouched
<1>3. Flows(0, Len(wire)) /\ Len(wire') = Len(wire)
  BY <1>1, SentFlows
<1>4. PICK d, k : d = 0 /\ k = Len(wire)
  OBVIOUS
<1>5. Flows(d, k) /\ Len(wire') = k
  BY <1>3, <1>4
<1>6. QED
  BY <1>1, <1>2, <1>5, LinkLost

LEMMA ReconnectedAgrees ==
    ASSUME TypeOK, TypeOK', TableInv, Known \subseteq Known', OffLineInv, Reconnect, NEW o \in Orders, AgreeInv(o)
    PROVE  AgreeInv(o)'
<1>1. UNCHANGED <<server, table, client>>
  BY DEF Reconnect
<1>2. Untouched(o) /\ execs' = execs
  BY <1>1, OthersUntouched
<1>3. KeptInv(o) /\ AliveInv(o) /\ ClordsInv(o)
  BY DEF AgreeInv
<1>4. KeptInv(o)'
  BY <1>2, <1>3 DEF KeptInv, Untouched
<1>5. AtWork(o)' <=> AtWork(o)
  BY <1>2 DEF AtWork, Untouched
<1>6. CASE ~AtWork(o)
  BY <1>4, <1>5, <1>6, AtRest
<1>7. CASE AtWork(o)
  <2>1. NumberedInv(o)' /\ ClordsInv(o)' /\ LastInv(o)' /\ HeldInv(o)'
    BY <1>3, <1>7, ReconnectAgrees
  <2>2. \A i \in Places' : StatusAt(i, o)' => wire'[i].query /\ wire'[i].st \in {"0", "1"}
    BY <1>3, <1>7, ReconnectSays
  <2>3. finished'[o] = None /\ Unfilled(o)'
    BY <1>2, <1>3, <1>7, UnfilledStays DEF AliveInv, Unfilled, Untouched
  <2>4. AliveInv(o)'
    BY <2>2, <2>3 DEF AliveInv, Unfilled
  <2>5. QED
    BY <1>4, <2>1, <2>4 DEF AgreeInv
<1>8. QED
  BY <1>6, <1>7

\* Nothing is sent or read between two links.
LEMMA OffLineStep ==
    ASSUME TypeOK, TableInv, OffLineInv, Next
    PROVE  OffLineInv'
<1> USE DEF OffLineInv, Disconnected
<1>1. ASSUME link' = link, ~Disconnected PROVE OffLineInv'
  BY <1>1
<1>2. ASSUME wire' = wire, link' = "relogin" \/ link' = link, Disconnected \/ link' = link PROVE OffLineInv'
  BY <1>2 DEF Places, FillAt
<1>3. ASSUME NEW r \in Request, Command(r) PROVE OffLineInv'
  BY <1>2, <1>3 DEF Command
<1>4. CASE SendNew \/ SendCancel \/ SendModify \/ StartGlobalCancel
  BY <1>1, <1>4 DEF SendNew, SendCancel, SendModify, StartGlobalCancel, Drain
<1>5. ASSUME NEW o \in Orders, WalkCancel(o) PROVE OffLineInv'
  BY <1>1, <1>5 DEF WalkCancel, CancelWritten, WriteLost, WriteFails
<1>6. CASE ReadOrder \/ ReadOutageFill \/ ReadFill \/ ReadCancelReject \/ ReadEndTrades \/ ReadEndReplay
  BY <1>1, <1>6 DEF ReadOrder, ReadOutageFill, ReadFill, ReadCancelReject, ReadEndTrades, ReadEndReplay, Reading
<1>7. ASSUME NEW x, Emit(<<x>>), link' = link, x.kind = "fill" \/ (x.kind = "order" /\ x.st = "4")
      PROVE  OffLineInv'
  <2>1. /\ Flows(0, Len(wire)) /\ Len(wire) \in Nat
        /\ \A i \in Places' : i > Len(wire) => wire'[i] = x
    BY <1>7, Emitted
  <2>2. ASSUME Disconnected, NEW i \in Places' PROVE FillAt(i)' \/ (wire'[i].kind = "order" /\ wire'[i].st = "4")
    <3>1. CASE i > Len(wire)
      BY <1>7, <2>1, <3>1 DEF FillAt
    <3>2. CASE ~(i > Len(wire))
      <4>1. i \in Places /\ wire'[i] = wire[i]
        BY <2>1, <3>2 DEF Flows, Places
      <4>2. QED
        BY <2>2, <4>1 DEF FillAt
    <3>3. QED
      BY <3>1, <3>2
  <2>3. QED
    BY <1>7, <2>2
<1>8. ASSUME NEW o \in Orders, ServerFills(o) PROVE OffLineInv'
  <2>1. PICK x : x = Fill(Len(execs) + 1, srvVer[o], TRUE)
    OBVIOUS
  <2>2. Emit(<<x>>) /\ link' = link /\ x.kind = "fill"
    BY <1>8, <2>1 DEF ServerFills, Fill
  <2>3. QED
    BY <1>7, <2>2
<1>9. ASSUME NEW o \in Orders, ServerCancels(o) PROVE OffLineInv'
  <2>1. PICK x : x = Report(o, srvVer[o], "4", FALSE)
    OBVIOUS
  <2>2. Emit(<<x>>) /\ link' = link /\ x.kind = "order" /\ x.st = "4"
    BY <1>9, <2>1 DEF ServerCancels, Report
  <2>3. QED
    BY <1>7, <2>2
<1>10. CASE Cut \/ Reconnect
  BY <1>10 DEF Cut, Reconnect
<1>11. CASE HandleDisconnect
  BY <1>11, EmptySeq DEF HandleDisconnect, Places
<1>12. CASE Relogin
  BY <1>2, <1>12 DEF Relogin
<1>13. QED
  BY <1>3, <1>4, <1>5, <1>6, <1>8, <1>9, <1>10, <1>11, <1>12 DEF Next

\* An order whose request could not be written is dropped.
LEMMA DropAgrees ==
    ASSUME TypeOK, TableInv, NEW p \in Orders, WriteFails, DropUnsent(p), link' = link, replay' = replay,
           NEW o \in Orders, AgreeInv(o)
    PROVE  AgreeInv(o)'
<1>1. /\ link = "down" /\ wire' = wire /\ UNCHANGED <<srv, srvVer, execs, finished>>
      /\ held' = [held EXCEPT ![p] = None] /\ version' = [version EXCEPT ![p] = 0]
      /\ lastClord' = [lastClord EXCEPT ![p] = NoClord] /\ cancelClord' = [cancelClord EXCEPT ![p] = NoClord]
      /\ queries' = queries \ {p} /\ dropped' = dropped \cup {p}
  BY DEF WriteFails, DropUnsent, server
<1>2. CASE o # p
  <2>1. Untouched(o)
    BY <1>1, <1>2 DEF Untouched, TypeOK
  <2>2. QED
    BY <1>1, <2>1, NothingSent
<1>3. CASE o = p
  <2>1. KeptInv(o) /\ AliveInv(o)
    BY DEF AgreeInv
  <2>2. KeptInv(o)'
    BY <1>1, <1>3, <2>1 DEF KeptInv, NoClord, TypeOK
  <2>3. AliveInv(o)'
    BY <1>1, <2>1 DEF AliveInv, AtWork, FillsUpTo, Places, StatusAt
  <2>4. NumberedInv(o)' /\ ClordsInv(o)' /\ LastInv(o)' /\ HeldInv(o)'
    BY <1>1, <1>3 DEF NumberedInv, ClordsInv, LastInv, HeldInv
  <2>5. QED
    BY <2>2, <2>3, <2>4 DEF AgreeInv
<1>4. QED
  BY <1>2, <1>3

\* A step that sends reports of one order only leaves the others.
LEMMA SentOfAnother ==
    ASSUME TypeOK, TableInv, NEW o \in Orders, NEW p, o # p, Flows(0, Len(wire)), execs' = execs,
           \A i \in Places' : i > Len(wire) => wire'[i].kind \in {"order", "reject"} /\ wire'[i].o = p,
           Untouched(o), link' = link, replay' = replay, AgreeInv(o)
    PROVE  AgreeInv(o)'
<1>1. NoNews(o, Len(wire))
  BY DEF NoNews, AboutAt, StatusAt, FillAt, RejectAt
<1>2. ExecsKept /\ (AtWork(o) => Unfilled(o)')
  BY UnfilledStays DEF AgreeInv, AliveInv, Unfilled, ExecsKept
<1>3. QED
  BY <1>1, <1>2, SentElsewhere

\* The orders keep working when a request of theirs is answered.
LEMMA AnsweredAlive ==
    ASSUME TypeOK, TableInv, NEW o \in Orders, Flows(0, Len(wire)), execs' = execs, AtWork(o)' => AtWork(o),
           finished'[o] = finished[o],
           \A i \in Places' : i > Len(wire) /\ StatusAt(i, o)' => ~wire'[i].query /\ wire'[i].st \in {"5", "6"},
           AgreeInv(o)
    PROVE  AliveInv(o)'
<1>1. PICK d, k : d = 0 /\ k = Len(wire)
  OBVIOUS
<1>2. Flows(d, k) /\ AlivePlaces(o, k)
  BY <1>1 DEF AlivePlaces
<1>3. AliveInv(o) /\ ExecsKept
  BY DEF AgreeInv, ExecsKept
<1>4. AtWork(o) => finished'[o] = None /\ Unfilled(o)'
  BY <1>3, UnfilledStays DEF AliveInv, Unfilled
<1>5. QED
  BY <1>2, <1>3, <1>4, AliveStays

\* A cancel goes out: its order ends, or its refusal is on its way, or it is lost.
LEMMA CancelAgrees ==
    ASSUME TypeOK, TableInv, NEW p \in Orders, held[p] # None, CancelFields(p),
           \/ /\ (link = "up" /\ TakesCancel(p, version[p] + 1, Orig(p))) \/ WriteLost
              /\ PendingCancel(p)
           \/ WriteFails /\ UNCHANGED held,
           UNCHANGED client, link' = link, replay' = replay,
           NEW o \in Orders, AgreeInv(o)
    PROVE  AgreeInv(o)'
<1>1. /\ version' = [version EXCEPT ![p] = @ + 1] /\ cancelClord' = [cancelClord EXCEPT ![p] = version[p] + 1]
      /\ UNCHANGED <<lastClord, queries, finished, dropped>>
      /\ held' = held \/ held' = [held EXCEPT ![p] = "PendingCancel"]
  BY DEF CancelFields, PendingCancel, client
<1>2. version[p] \in Nat /\ srvVer[o] \in Nat /\ cancelClord[o] \in Nat \cup {-1}
  BY DEF TypeOK, NoClord
<1>3. KeptInv(o) /\ AliveInv(o) /\ NumberedInv(o) /\ ClordsInv(o) /\ LastInv(o) /\ HeldInv(o)
  BY DEF AgreeInv
<1>4. held'[p] # None
  BY <1>1 DEF TypeOK, None
<1>5. ASSUME srv'[o] = srv[o] \/ o = p, srvVer'[o] = srvVer[o], srv'[o] # None \/ srv'[o] = srv[o] PROVE KeptInv(o)'
  BY <1>1, <1>2, <1>3, <1>4, <1>5 DEF KeptInv, TypeOK
<1>6. CASE link = "up" /\ TakesCancel(p, version[p] + 1, Orig(p)) /\ ~(Refuses(p, version[p] + 1))
  <2> DEFINE x == Report(p, version[p] + 1, "4", FALSE)
  <2>1. /\ srv' = [srv EXCEPT ![p] = "cancelled"] /\ wire' = Append(wire, x) /\ UNCHANGED <<srvVer, execs>>
    BY <1>6 DEF TakesCancel
  <2>2. x.kind = "order" /\ x.o = p
    BY DEF Report
  <2> HIDE DEF x
  <2>3. Flows(0, Len(wire)) /\ \A i \in Places' : i > Len(wire) => wire'[i] = x
    <3>1. Flows(0, Len(wire)) /\ Len(wire') = Len(wire) + 1 /\ wire'[Len(wire) + 1] = x
      BY <2>1, SentFlows
    <3>2. QED
      BY <3>1 DEF Flows, Places
  <2>4. CASE o # p
    <3>1. Untouched(o)
      BY <1>1, <2>1, <2>4 DEF Untouched, TypeOK
    <3>2. QED
      BY <2>1, <2>2, <2>3, <2>4, <3>1, SentOfAnother
  <2>5. CASE o = p
    <3>1. ~AtWork(o)' /\ srv'[o] # None
      BY <2>1, <2>5 DEF AtWork, TypeOK, None
    <3>2. QED
      BY <1>5, <2>1, <2>5, <3>1, AtRest
  <2>6. QED
    BY <2>4, <2>5
<1>7. CASE link = "up" /\ Refuses(p, version[p] + 1) /\ PendingCancel(p)
  <2> DEFINE x == CancelReject(p, version[p] + 1)
  <2>1. wire' = Append(wire, x) /\ UNCHANGED <<srv, srvVer, execs>>
    BY <1>7 DEF Refuses, server
  <2>2. x.kind = "reject" /\ x.o = p /\ x.ver = version[p] + 1
    BY DEF CancelReject
  <2> HIDE DEF x
  <2>3. /\ Flows(0, Len(wire)) /\ Len(wire') = Len(wire) + 1 /\ wire'[Len(wire) + 1] = x /\ Len(wire) \in Nat
        /\ \A i \in Places' : i > Len(wire) => wire'[i] = x
    <3>1. Flows(0, Len(wire)) /\ Len(wire') = Len(wire) + 1 /\ wire'[Len(wire) + 1] = x
      BY <2>1, SentFlows
    <3>2. QED
      BY <3>1 DEF Flows, Places
  <2>4. CASE o # p
    <3>1. Untouched(o)
      BY <1>1, <2>1, <2>4 DEF Untouched, TypeOK
    <3>2. QED
      BY <2>1, <2>2, <2>3, <2>4, <3>1, SentOfAnother
  <2>5. CASE o = p
    <3>1. /\ srv'[o] = srv[o] /\ srvVer'[o] = srvVer[o] /\ held'[o] = "PendingCancel"
          /\ version'[o] = version[o] + 1 /\ cancelClord'[o] = version[o] + 1 /\ finished'[o] = finished[o]
          /\ o \in dropped' <=> o \in dropped
      BY <1>1, <1>7, <2>1, <2>5 DEF PendingCancel, TypeOK
    <3>2. ExecsKept
      BY <2>1 DEF ExecsKept
    <3>3. \A i \in Places' : i > Len(wire) =>
             ~AboutAt(i, o)' /\ ~StatusAt(i, o)' /\ wire'[i].ver = version[o] + 1
      BY <2>2, <2>3, <2>5 DEF AboutAt, StatusAt, FillAt
    <3>4. NumberedInv(o)' /\ ClordsInv(o)'
      BY <1>3, <1>4, <2>3, <2>5, <3>1, <3>2, <3>3, RefusalNumbers
    <3>5. PICK n : n = Len(wire) + 1
      OBVIOUS
    <3>6. n = Len(wire') /\ RejectAt(n, o)' /\ wire'[n].ver = version'[o]
      BY <2>2, <2>3, <2>5, <3>1, <3>5 DEF RejectAt
    <3>7. LastInv(o)' /\ Refused(o)'
      BY <1>3, <2>3, <3>1, <3>2, <3>6, RefusalLast
    <3>8. HeldInv(o)'
      BY <3>1, <3>7 DEF HeldInv
    <3>9. AliveInv(o)'
      BY <2>1, <2>3, <3>1, <3>3, AnsweredAlive DEF AtWork
    <3>10. QED
      BY <1>5, <2>5, <3>1, <3>4, <3>7, <3>8, <3>9 DEF AgreeInv
  <2>6. QED
    BY <2>4, <2>5
<1>8. CASE link = "down" /\ wire' = wire /\ UNCHANGED server
  <2>1. UNCHANGED <<srv, srvVer, execs>>
    BY <1>8 DEF server
  <2>2. CASE o # p
    <3>1. Untouched(o)
      BY <1>1, <2>1, <2>2 DEF Untouched, TypeOK
    <3>2. QED
      BY <1>8, <2>1, <3>1, NothingSent
  <2>3. CASE o = p
    <3>1. Flows(0, Len(wire)) /\ Len(wire') = Len(wire) /\ Len(wire) \in Nat
      <4>1. Flows(0, Len(wire)) /\ Len(wire') = Len(wire)
        BY <1>8, SentFlows
      <4>2. QED
        BY <4>1 DEF Flows
    <3>2. /\ srv'[o] = srv[o] /\ srvVer'[o] = srvVer[o] /\ held'[o] # None /\ held[o] # None
          /\ version'[o] = version[o] + 1 /\ cancelClord'[o] = version[o] + 1 /\ finished'[o] = finished[o]
          /\ o \in dropped' <=> o \in dropped
      BY <1>1, <1>4, <2>1, <2>3 DEF TypeOK
    <3>3. ExecsKept
      BY <2>1 DEF ExecsKept
    <3>4. \A i \in Places' : ~(i > Len(wire))
      BY <3>1 DEF Places
    <3>5. Len(wire') <= Len(wire) + 1
      BY <3>1
    <3>6. NumberedInv(o)' /\ ClordsInv(o)'
      BY <1>3, <3>1, <3>2, <3>3, <3>4, <3>5, RefusalNumbers
    <3>7. LastInv(o)' /\ HeldInv(o)'
      BY <1>8 DEF LastInv, HeldInv
    <3>8. AliveInv(o)'
      BY <2>1, <3>1, <3>2, <3>4, AnsweredAlive DEF AtWork
    <3>9. QED
      BY <1>5, <2>3, <3>2, <3>6, <3>7, <3>8 DEF AgreeInv
  <2>4. QED
    BY <2>2, <2>3
<1>9. QED
  BY <1>6, <1>7, <1>8 DEF WriteLost, WriteFails, TakesCancel

\* An order that is held is not a new one, and one that is not may be.
LEMMA SendCancelAgrees ==
    ASSUME TypeOK, TableInv, SendCancel, NEW o \in Orders, AgreeInv(o)
    PROVE  AgreeInv(o)'
<1> DEFINE p == Head(pend).o
<1>1. p \in Orders /\ link' = link /\ replay' = replay
  BY HeadRequest DEF SendCancel, asked
<1>2. \/ Cancellable(p) /\ CancelWritten(p)
      \/ WriteFails /\ DropUnsent(p)
      \/ UNCHANGED <<server, wire, table, client>>
  BY DEF SendCancel
<1> HIDE DEF p
<1>3. CASE Cancellable(p) /\ CancelWritten(p)
  <2>1. held[p] # None
    BY <1>3 DEF Cancellable
  <2>2. QED
    BY <1>1, <1>3, <2>1, CancelAgrees DEF CancelWritten
<1>4. CASE WriteFails /\ DropUnsent(p)
  BY <1>1, <1>4, DropAgrees
<1>5. CASE UNCHANGED <<server, wire, table, client>>
  <2>1. Untouched(o) /\ execs' = execs /\ wire' = wire
    BY <1>5, OthersUntouched
  <2>2. QED
    BY <1>1, <2>1, NothingSent
<1>6. QED
  BY <1>2, <1>3, <1>4, <1>5

LEMMA WalkCancelAgrees ==
    ASSUME TypeOK, TableInv, NEW p \in Orders, WalkCancel(p), NEW o \in Orders, AgreeInv(o)
    PROVE  AgreeInv(o)'
<1>1. held[p] # None /\ link' = link /\ replay' = replay
  BY DEF WalkCancel, TableInv, asked
<1>2. CASE CancelWritten(p)
  BY <1>1, <1>2, CancelAgrees DEF CancelWritten
<1>3. CASE WriteFails /\ CancelFields(p) /\ UNCHANGED <<held, client>>
  BY <1>1, <1>3, CancelAgrees
<1>4. QED
  BY <1>2, <1>3 DEF WalkCancel

\* A new order: accepted, and nothing was about it, or not at work.
LEMMA SendNewAgrees ==
    ASSUME TypeOK, TableInv, SendNew, NEW o \in Orders, AgreeInv(o)
    PROVE  AgreeInv(o)'
<1> DEFINE p == Head(pend).o
<1>1. p \in Orders /\ link' = link /\ replay' = replay /\ p \notin Known
  BY HeadRequest DEF SendNew, asked, Drain, TableInv
<1>2. \/ /\ (link = "up" /\ TakesNew(p)) \/ WriteLost
         /\ held' = [held EXCEPT ![p] = "PendingSubmit"]
         /\ UNCHANGED <<version, lastClord, cancelClord, queries, finished, client>>
      \/ WriteFails /\ DropUnsent(p)
  BY DEF SendNew
<1> HIDE DEF p
<1>3. srv[p] = None /\ held[p] = None /\ finished[p] = None
  BY <1>1 DEF Known, TableInv
<1>4. CASE WriteFails /\ DropUnsent(p)
  BY <1>1, <1>4, DropAgrees
<1>5. ASSUME held' = [held EXCEPT ![p] = "PendingSubmit"],
             UNCHANGED <<version, lastClord, cancelClord, queries, finished, client, srvVer, execs>>
      PROVE  /\ o # p /\ srv'[o] = srv[o] => Untouched(o)
             /\ o = p => /\ held'[o] = "PendingSubmit" /\ version'[o] = version[o] /\ cancelClord'[o] = NoClord
                         /\ srvVer'[o] = 0 /\ finished'[o] = None /\ KeptInv(o)'
  <2>1. KeptInv(o)
    BY DEF AgreeInv
  <2>2. version[o] \in Nat /\ NoClord = -1
    BY DEF TypeOK, NoClord
  <2>3. o # p /\ srv'[o] = srv[o] => Untouched(o)
    BY <1>5 DEF Untouched, client, TypeOK
  <2>4. o = p => /\ held'[o] = "PendingSubmit" /\ version'[o] = version[o] /\ cancelClord'[o] = NoClord
                 /\ srvVer'[o] = 0 /\ finished'[o] = None
    BY <1>3, <1>5, <2>1 DEF KeptInv, TypeOK
  <2>5. o = p => KeptInv(o)'
    BY <2>2, <2>4 DEF KeptInv, None
  <2>6. QED
    BY <2>3, <2>4, <2>5
<1>6. CASE WriteLost /\ held' = [held EXCEPT ![p] = "PendingSubmit"]
              /\ UNCHANGED <<version, lastClord, cancelClord, queries, finished, client>>
  <2>1. wire' = wire /\ UNCHANGED <<srv, srvVer, execs>>
    BY <1>6 DEF WriteLost, server
  <2>2. CASE o # p
    BY <1>1, <1>5, <1>6, <2>1, <2>2, NothingSent
  <2>3. CASE o = p
    <3>1. ~AtWork(o)'
      BY <1>3, <2>1, <2>3 DEF AtWork, None
    <3>2. QED
      BY <1>5, <1>6, <2>1, <2>3, <3>1, AtRest
  <2>4. QED
    BY <2>2, <2>3
<1>7. CASE link = "up" /\ TakesNew(p) /\ held' = [held EXCEPT ![p] = "PendingSubmit"]
              /\ UNCHANGED <<version, lastClord, cancelClord, queries, finished, client>>
  <2>1. PICK x : /\ wire' = Append(wire, x) /\ x.kind = "order" /\ x.o = p /\ x.ver = 0 /\ ~x.query
                 /\ \/ srv' = [srv EXCEPT ![p] = "working"] /\ x.st = "0"
                    \/ srv' = [srv EXCEPT ![p] = "rejected"]
    BY <1>7 DEF TakesNew, Report
  <2>2. UNCHANGED <<srvVer, execs>>
    BY <1>7 DEF TakesNew
  <2>3. /\ Flows(0, Len(wire)) /\ Len(wire') = Len(wire) + 1 /\ Len(wire) \in Nat
        /\ \A i \in Places' : i > Len(wire) => wire'[i] = x
    <3>1. Flows(0, Len(wire)) /\ Len(wire') = Len(wire) + 1 /\ wire'[Len(wire) + 1] = x
      BY <2>1, SentFlows
    <3>2. QED
      BY <3>1 DEF Flows, Places
  <2>4. CASE o # p
    <3>1. Untouched(o)
      BY <1>5, <1>7, <2>1, <2>2, <2>4 DEF TypeOK
    <3>2. QED
      BY <1>1, <2>1, <2>2, <2>3, <2>4, <3>1, SentOfAnother
  <2>5. CASE o = p
    <3>1. /\ held'[o] = "PendingSubmit" /\ version'[o] = version[o] /\ cancelClord'[o] = NoClord
          /\ srvVer'[o] = 0 /\ finished'[o] = None /\ KeptInv(o)'
      BY <1>5, <1>7, <2>2, <2>5
    <3>2. CASE ~AtWork(o)'
      BY <3>1, <3>2, AtRest
    <3>3. CASE AtWork(o)'
      <4>1. x.st = "0"
        BY <2>1, <2>5, <3>3 DEF AtWork, TypeOK
      <4>2. \A i \in Places : ~AboutAt(i, o) /\ ~RejectAt(i, o)
        <5>1. ASSUME NEW i \in Places PROVE ~AboutAt(i, o) /\ ~RejectAt(i, o)
          <6>1. wire[i] \in Reports
            BY ElementOfSeq DEF TableInv, Places
          <6>2. wire[i].kind \in {"order", "reject"} => wire[i].o \in Known
            BY <6>1 DEF Reports, EndTrades, EndReplay
          <6>3. FillAt(i) => wire[i].n \in 1 .. Len(execs)
            BY FillRange
          <6>4. FillAt(i) => srv[execs[wire[i].n]] # None
            BY <6>3 DEF TableInv
          <6>5. QED
            BY <1>1, <1>3, <2>5, <6>2, <6>4 DEF AboutAt, StatusAt, RejectAt
        <5>2. QED
          BY <5>1
      <4>3. \A i \in Places' : i > Len(wire) => StatusAt(i, o)' /\ ~AmendAt(i, o)' /\ wire'[i].ver = 0
        BY <2>1, <2>3, <2>5, <4>1 DEF StatusAt, AmendAt
      <4>4. ExecsKept
        BY <2>2 DEF ExecsKept
      <4>5. NumberedInv(o)' /\ ClordsInv(o)' /\ LastInv(o)' /\ HeldInv(o)'
        BY <2>3, <3>1, <4>2, <4>3, <4>4, OwnNew
      <4>6. Unfilled(o)'
        <5>1. Unfilled(o)
          BY <1>3, <2>5, FillsNone DEF Unfilled
        <5>2. QED
          BY <2>2, <5>1, UnfilledStays
      <4>7. ASSUME NEW i \in Places', StatusAt(i, o)' PROVE wire'[i].st = "0"
        <5>1. i > Len(wire)
          BY <2>3, <4>2, <4>4, <4>7, WasSent, Kinds
        <5>2. QED
          BY <2>3, <4>1, <5>1
      <4>8. AliveInv(o)'
        BY <3>1, <4>6, <4>7 DEF AliveInv, Unfilled
      <4>9. QED
        BY <3>1, <4>5, <4>8 DEF AgreeInv
    <3>4. QED
      BY <3>2, <3>3
  <2>6. QED
    BY <2>4, <2>5
<1>8. QED
  BY <1>2, <1>4, <1>6, <1>7

\* What a modify that is sent does to the table.
ModifyNoted(p) ==
    /\ version' = [version EXCEPT ![p] = @ + 1]
    /\ lastClord' = [lastClord EXCEPT ![p] = version[p] + 1]
    /\ UNCHANGED <<held, cancelClord, queries, finished, client>>

\* The modified order, and the others.
LEMMA ModifyKept ==
    ASSUME TypeOK, NEW p \in Orders, ModifyNoted(p), srv' = srv, NEW o \in Orders,
           o # p => srvVer'[o] = srvVer[o], held[p] # None, TypeOK', TableInv, AgreeInv(o)
    PROVE  /\ o # p => Untouched(o)
           /\ o = p => /\ srv'[o] = srv[o] /\ held'[o] = held[o] /\ version'[o] = version[o] + 1
                       /\ cancelClord'[o] = cancelClord[o] /\ finished'[o] = finished[o]
                       /\ o \in queries' <=> o \in queries
                       /\ o \in dropped' <=> o \in dropped
           /\ o = p /\ (srv[o] # None \/ srvVer'[o] = srvVer[o]) => KeptInv(o)'
<1>1. version[o] \in Nat /\ cancelClord[o] \in Nat \cup {-1}
  BY DEF TypeOK, NoClord
<1>2. KeptInv(o)
  BY DEF AgreeInv
<1>3. o # p => Untouched(o)
  BY DEF Untouched, ModifyNoted, client, TypeOK
<1>4. o = p => /\ srv'[o] = srv[o] /\ held'[o] = held[o] /\ version'[o] = version[o] + 1
               /\ cancelClord'[o] = cancelClord[o] /\ finished'[o] = finished[o]
               /\ o \in queries' <=> o \in queries
               /\ o \in dropped' <=> o \in dropped
  BY DEF ModifyNoted, client, TypeOK
<1>5. o = p /\ (srv[o] # None \/ srvVer'[o] = srvVer[o]) => KeptInv(o)'
  BY <1>1, <1>2, <1>4 DEF KeptInv
<1>6. QED
  BY <1>3, <1>4, <1>5

\* The modify is accepted.
LEMMA ModifyAccepted ==
    ASSUME TypeOK, TypeOK', TableInv, NEW p \in Orders, Cancellable(p), ModifyNoted(p), srv' = srv, execs' = execs,
           srv[p] = "working", srvVer' = [srvVer EXCEPT ![p] = version[p] + 1],
           wire' = wire \o <<Report(p, version[p] + 1, "6", FALSE), Report(p, version[p] + 1, "5", FALSE)>>,
           link' = link, replay' = replay, NEW o \in Orders, AgreeInv(o)
    PROVE  AgreeInv(o)'
<1> DEFINE x == Report(p, version[p] + 1, "6", FALSE)
           y == Report(p, version[p] + 1, "5", FALSE)
<1>1. /\ x.kind = "order" /\ x.o = p /\ x.ver = version[p] + 1 /\ x.st = "6" /\ ~x.query
      /\ y.kind = "order" /\ y.o = p /\ y.ver = version[p] + 1 /\ y.st = "5" /\ ~y.query
      /\ wire' = wire \o <<x, y>>
  BY DEF Report
<1> HIDE DEF x, y
<1>2. /\ Flows(0, Len(wire)) /\ Len(wire) \in Nat /\ Len(wire') > Len(wire)
      /\ \A i \in Places' : i > Len(wire) => wire'[i] \in {x, y}
  <2>1. /\ Flows(0, Len(wire)) /\ Len(wire') = Len(wire) + 2
        /\ wire'[Len(wire) + 1] = x /\ wire'[Len(wire) + 2] = y
    BY <1>1, SentFlows
  <2>2. Len(wire) \in Nat
    BY <2>1 DEF Flows
  <2>3. \A i \in Places' : i > Len(wire) => i = Len(wire) + 1 \/ i = Len(wire) + 2
    BY <2>1, <2>2 DEF Places
  <2>4. ASSUME NEW i \in Places', i > Len(wire) PROVE wire'[i] \in {x, y}
    BY ONLY <2>1, <2>3, <2>4, Zenon
  <2>5. Len(wire') > Len(wire)
    BY ONLY <2>1, <2>2
  <2>6. QED
    BY <2>1, <2>2, <2>4, <2>5
<1>3. /\ held[p] # None /\ held[p] # "PendingCancel" /\ srvVer'[p] = version[p] + 1
      /\ o # p => srvVer'[o] = srvVer[o]
  BY DEF Cancellable, TypeOK
<1>4. CASE o # p
  <2>1. Untouched(o)
    BY <1>3, <1>4, ModifyKept
  <2>2. QED
    BY <1>1, <1>2, <1>4, <2>1, SentOfAnother
<1>5. CASE o = p
  <2>1. /\ srv'[o] = srv[o] /\ held'[o] = held[o] /\ version'[o] = version[o] + 1
        /\ cancelClord'[o] = cancelClord[o] /\ finished'[o] = finished[o]
        /\ o \in queries' <=> o \in queries
        /\ o \in dropped' <=> o \in dropped
    BY <1>3, <1>5, ModifyKept
  <2>2. KeptInv(o)'
    BY <1>3, <1>5, ModifyKept DEF None
  <2>3. KeptInv(o) /\ AliveInv(o) /\ NumberedInv(o) /\ ClordsInv(o) /\ LastInv(o) /\ HeldInv(o)
    BY DEF AgreeInv
  <2>4. ExecsKept
    BY DEF ExecsKept
  <2>5. \A i \in Places' : i > Len(wire) =>
           /\ StatusAt(i, o)' /\ AboutAt(i, o)' /\ ~RejectAt(i, o)' /\ wire'[i].ver = version[o] + 1
           /\ ~wire'[i].query /\ wire'[i].st \in {"5", "6"}
    BY <1>1, <1>2, <1>5 DEF StatusAt, AboutAt, RejectAt
  <2>6. srvVer'[o] = version[o] + 1
    BY <1>3, <1>5
  <2>7. NumberedInv(o)' /\ ClordsInv(o)'
    BY <1>2, <1>3, <1>5, <2>1, <2>3, <2>4, <2>5, <2>6, AcceptedNumbers
  <2>8. LastInv(o)'
    <3>1. PICK d, k : d = 0 /\ k = Len(wire)
      OBVIOUS
    <3>2. Flows(d, k) /\ Len(wire') > k /\ \A i \in Places' : i > k => AboutAt(i, o)' /\ wire'[i].ver = srvVer'[o]
      BY <1>2, <2>5, <2>6, <3>1
    <3>3. QED
      BY <3>2, SentLast
  <2>9. HeldInv(o)'
    BY <1>2, <1>3, <1>5, <2>1, <2>3, <2>4, SentHeld
  <2>10. AliveInv(o)'
    BY <1>2, <2>1, <2>5, AnsweredAlive DEF AtWork
  <2>11. QED
    BY <2>2, <2>7, <2>8, <2>9, <2>10 DEF AgreeInv
<1>6. QED
  BY <1>4, <1>5

\* The modify is refused.
LEMMA ModifyRefused ==
    ASSUME TypeOK, TypeOK', TableInv, NEW p \in Orders, Cancellable(p), ModifyNoted(p), Refuses(p, version[p] + 1),
           link' = link, replay' = replay, NEW o \in Orders, AgreeInv(o)
    PROVE  AgreeInv(o)'
<1> DEFINE x == CancelReject(p, version[p] + 1)
<1>1. wire' = Append(wire, x) /\ UNCHANGED <<srv, srvVer, execs>>
  BY DEF Refuses, server
<1>2. x.kind = "reject" /\ x.o = p /\ x.ver = version[p] + 1
  BY DEF CancelReject
<1> HIDE DEF x
<1>3. /\ Flows(0, Len(wire)) /\ Len(wire') = Len(wire) + 1 /\ wire'[Len(wire) + 1] = x /\ Len(wire) \in Nat
      /\ \A i \in Places' : i > Len(wire) => wire'[i] = x
  <2>1. Flows(0, Len(wire)) /\ Len(wire') = Len(wire) + 1 /\ wire'[Len(wire) + 1] = x
    BY <1>1, SentFlows
  <2>2. QED
    BY <2>1 DEF Flows, Places
<1>4. held[p] # None /\ held[p] # "PendingCancel"
  BY DEF Cancellable
<1>5. CASE o # p
  <2>1. Untouched(o)
    BY <1>1, <1>4, <1>5, ModifyKept
  <2>2. QED
    BY <1>1, <1>2, <1>3, <1>5, <2>1, SentOfAnother
<1>6. CASE o = p
  <2>1. /\ srv'[o] = srv[o] /\ held'[o] = held[o] /\ version'[o] = version[o] + 1 /\ srvVer'[o] = srvVer[o]
        /\ cancelClord'[o] = cancelClord[o] /\ finished'[o] = finished[o]
        /\ o \in queries' <=> o \in queries
        /\ o \in dropped' <=> o \in dropped
    BY <1>1, <1>4, <1>6, ModifyKept
  <2>2. KeptInv(o)'
    BY <1>1, <1>4, <1>6, ModifyKept
  <2>3. KeptInv(o) /\ AliveInv(o) /\ NumberedInv(o) /\ ClordsInv(o) /\ LastInv(o) /\ HeldInv(o)
    BY DEF AgreeInv
  <2>4. ExecsKept
    BY <1>1 DEF ExecsKept
  <2>5. \A i \in Places' : i > Len(wire) => ~AboutAt(i, o)' /\ ~StatusAt(i, o)' /\ wire'[i].ver = version[o] + 1
    BY <1>2, <1>3, <1>6 DEF AboutAt, StatusAt, FillAt
  <2>6. NumberedInv(o)' /\ ClordsInv(o)'
    BY <1>3, <1>4, <1>6, <2>1, <2>3, <2>4, <2>5, RefusalNumbers
  <2>7. PICK n : n = Len(wire) + 1
    OBVIOUS
  <2>8. n = Len(wire') /\ RejectAt(n, o)' /\ wire'[n].ver = version'[o]
    BY <1>2, <1>3, <1>6, <2>1, <2>7 DEF RejectAt
  <2>9. LastInv(o)'
    BY <1>3, <2>1, <2>3, <2>4, <2>8, RefusalLast
  <2>10. HeldInv(o)'
    BY <1>3, <1>4, <1>6, <2>1, <2>3, <2>4, SentHeld
  <2>11. AliveInv(o)'
    BY <1>1, <1>3, <2>1, <2>5, AnsweredAlive DEF AtWork
  <2>12. QED
    BY <2>2, <2>6, <2>9, <2>10, <2>11 DEF AgreeInv
<1>7. QED
  BY <1>5, <1>6

\* The modify is lost.
LEMMA ModifyLost ==
    ASSUME TypeOK, TypeOK', TableInv, NEW p \in Orders, Cancellable(p), ModifyNoted(p), WriteLost,
           link' = link, replay' = replay, NEW o \in Orders, AgreeInv(o)
    PROVE  AgreeInv(o)'
<1>1. wire' = wire /\ UNCHANGED <<srv, srvVer, execs>> /\ link = "down"
  BY DEF WriteLost, server
<1>2. held[p] # None
  BY DEF Cancellable
<1>3. CASE o # p
  <2>1. Untouched(o)
    BY <1>1, <1>2, <1>3, ModifyKept
  <2>2. QED
    BY <1>1, <2>1, NothingSent
<1>4. CASE o = p
  <2>1. /\ srv'[o] = srv[o] /\ held'[o] = held[o] /\ version'[o] = version[o] + 1 /\ srvVer'[o] = srvVer[o]
        /\ cancelClord'[o] = cancelClord[o] /\ finished'[o] = finished[o]
        /\ o \in dropped' <=> o \in dropped
    BY <1>1, <1>2, <1>4, ModifyKept
  <2>2. KeptInv(o)'
    BY <1>1, <1>2, <1>4, ModifyKept
  <2>3. KeptInv(o) /\ NumberedInv(o) /\ ClordsInv(o)
    BY DEF AgreeInv
  <2>4. ExecsKept
    BY <1>1 DEF ExecsKept
  <2>5. Flows(0, Len(wire)) /\ Len(wire') <= Len(wire) + 1 /\ \A i \in Places' : ~(i > Len(wire))
    <3>1. Flows(0, Len(wire)) /\ Len(wire') = Len(wire)
      BY <1>1, SentFlows
    <3>2. QED
      BY <3>1 DEF Flows, Places
  <2>6. NumberedInv(o)' /\ ClordsInv(o)'
    BY <1>2, <1>4, <2>1, <2>3, <2>4, <2>5, RefusalNumbers
  <2>7. AliveInv(o)'
    BY <1>1, <2>1, <2>5, AnsweredAlive DEF AtWork
  <2>8. LastInv(o)' /\ HeldInv(o)'
    BY <1>1 DEF LastInv, HeldInv
  <2>9. QED
    BY <2>2, <2>6, <2>7, <2>8 DEF AgreeInv
<1>5. QED
  BY <1>3, <1>4

LEMMA SendModifyAgrees ==
    ASSUME TypeOK, TypeOK', TableInv, SendModify, NEW o \in Orders, AgreeInv(o)
    PROVE  AgreeInv(o)'
<1> DEFINE p == Head(pend).o
<1>1. p \in Orders /\ link' = link /\ replay' = replay
  BY HeadRequest DEF SendModify, asked
<1>2. \/ Cancellable(p) /\ ((link = "up" /\ TakesModify(p, version[p] + 1, Orig(p))) \/ WriteLost) /\ ModifyNoted(p)
      \/ WriteFails /\ DropUnsent(p)
      \/ UNCHANGED <<server, wire, table, client>>
  BY DEF SendModify, ModifyNoted
<1> HIDE DEF p
<1>3. CASE Cancellable(p) /\ WriteLost /\ ModifyNoted(p)
  BY <1>1, <1>3, ModifyLost
<1>4. CASE Cancellable(p) /\ TakesModify(p, version[p] + 1, Orig(p)) /\ ModifyNoted(p)
  <2>1. CASE Refuses(p, version[p] + 1)
    BY <1>1, <1>4, <2>1, ModifyRefused
  <2>2. CASE ~Refuses(p, version[p] + 1)
    BY <1>1, <1>4, <2>2, ModifyAccepted DEF TakesModify
  <2>3. QED
    BY <2>1, <2>2
<1>5. CASE WriteFails /\ DropUnsent(p)
  BY <1>1, <1>5, DropAgrees
<1>6. CASE UNCHANGED <<server, wire, table, client>>
  <2>1. Untouched(o) /\ execs' = execs /\ wire' = wire
    BY <1>6, OthersUntouched
  <2>2. QED
    BY <1>1, <2>1, NothingSent
<1>7. QED
  BY <1>2, <1>3, <1>4, <1>5, <1>6

\* A report of an order held as it was is read, and puts nothing right.
LEMMA ReadHeld ==
    ASSUME TableInv, NEW o \in Orders, NEW k, Flows(1, k), k + 1 = Len(wire), ExecsKept, 1 \in Places,
           ~RejectAt(1, o), srv'[o] = srv[o], held'[o] = held[o], version'[o] = version[o],
           link' = link, replay' = replay, o \in queries' <=> o \in queries,
           StatusAt(1, o) => held[o] = "PendingCancel" /\ ~(wire[1].query /\ (replay \/ o \in queries)),
           HeldInv(o)
    PROVE  HeldInv(o)'
<1> SUFFICES ASSUME AtWork(o)', link' = "up"
             PROVE  \/ held'[o] \in Good
                    \/ Replayed(o)'
                    \/ held'[o] = "PendingSubmit" /\ \E i \in Places' : StatusAt(i, o)'
                    \/ held'[o] = "PendingCancel" /\ Refused(o)'
                    \/ held'[o] = "PendingCancel" /\ o \in queries' /\ \E i \in Places' : AnswerAt(i, o)'
  BY DEF HeldInv
<1>1. AtWork(o) /\ link = "up"
  BY DEF AtWork
<1>2. PICK d : d = 1
  OBVIOUS
<1>3. Flows(d, k) /\ k + d = Len(wire) /\ d \in Nat
  BY <1>2
<1>4. ASSUME NEW i \in Places, i # 1
      PROVE  /\ i - d \in Places'
             /\ StatusAt(i - d, o)' <=> StatusAt(i, o)
             /\ AnswerAt(i - d, o)' <=> AnswerAt(i, o)
  <2>1. i > d
    BY <1>2, <1>4 DEF Places
  <2>2. QED
    BY <1>3, <2>1, StillThere
<1>5. Refused(o) => Refused(o)'
  BY <1>2, <1>3, RefusedStays
<1>6. Replayed(o) => Replayed(o)'
  <2>1. Replayed(o) => ~AnswerAt(1, o)
    BY DEF Replayed, AnswerAt
  <2>2. QED
    BY <1>2, <1>3, <2>1, ReplayStays
<1>7. held[o] = "PendingSubmit" /\ (\E i \in Places : StatusAt(i, o)) => \E i \in Places' : StatusAt(i, o)'
  BY <1>4
<1>8. o \in queries /\ (\E i \in Places : AnswerAt(i, o)) => \E i \in Places' : AnswerAt(i, o)'
  <2>1. o \in queries => ~AnswerAt(1, o)
    BY DEF AnswerAt
  <2>2. QED
    BY <1>4, <2>1
<1>9. QED
  BY <1>1, <1>5, <1>6, <1>7, <1>8 DEF HeldInv

\* What the reading of a report about order p does to it.
OwnReport(p) ==
    /\ version'[p] = version[p] \/ (held[p] = None /\ version'[p] = wire[1].ver)
    /\ lastClord'[p] = IF wire[1].ver = cancelClord[p] THEN lastClord[p] ELSE wire[1].ver
    /\ \/ cancelClord'[p] = NoClord
       \/ cancelClord'[p] = cancelClord[p] /\ (held'[p] # None \/ held'[p] = held[p])
    /\ AtWork(p) => finished'[p] = finished[p] /\ cancelClord'[p] = cancelClord[p] /\ held'[p] # None
    /\ AtWork(p) /\ link = "up" =>
          \/ held'[p] \in Good
          \/ /\ held'[p] = held[p] /\ (p \in queries' <=> p \in queries)
             /\ StatusAt(1, p) => held[p] = "PendingCancel" /\ ~(wire[1].query /\ (replay \/ p \in queries))

\* A report about an order is read.
LEMMA ReportRead ==
    ASSUME TypeOK, TableInv, Reading, NEW p \in Orders, AboutAt(1, p), wire' = Tail(wire),
           UNCHANGED <<srv, srvVer, execs, link, dropped, replay>>,
           \A q \in Orders \ {p} : Untouched(q), OwnReport(p), NEW o \in Orders, AgreeInv(o)
    PROVE  AgreeInv(o)'
<1>1. 1 \in Places /\ Len(wire) \in Nat
  BY ReadFlows
<1>2. ~RejectAt(1, o) /\ (o # p => ~AboutAt(1, o))
  BY DEF AboutAt, RejectAt, StatusAt, FillAt
<1>3. CASE o # p
  BY <1>2, <1>3, HeadElsewhere
<1>4. CASE o = p
  <2>1. PICK k : k = Len(wire) - 1
    OBVIOUS
  <2>2. Flows(1, k) /\ k + 1 = Len(wire) /\ Len(wire') = k
    BY <1>1, <2>1, ReadFlows
  <2>3. KeptInv(o) /\ AliveInv(o) /\ NumberedInv(o) /\ ClordsInv(o) /\ LastInv(o) /\ HeldInv(o)
    BY DEF AgreeInv
  <2>4. KeptInv(o)'
    <3>1. /\ version[o] \in Nat /\ cancelClord[o] \in Nat \cup {-1} /\ NoClord = -1 /\ wire[1].ver \in Nat
      BY <1>1, <1>4, VersionTyped
    <3>2. QED
      BY <1>4, <2>3, <3>1 DEF KeptInv, OwnReport
  <2>5. CASE ~AtWork(o)
    <3>1. ~AtWork(o)'
      BY <2>5 DEF AtWork
    <3>2. QED
      BY <2>4, <3>1, AtRest
  <2>6. CASE AtWork(o)
    <3>1. Goes(o)
      BY <1>4, <2>6 DEF Goes, OwnReport
    <3>2. ExecsKept
      BY DEF ExecsKept
    <3>3. PICK d : d = 1
      OBVIOUS
    <3>4. Flows(d, k) /\ NoNews(o, k) /\ AlivePlaces(o, k)
      BY <2>2, <3>3 DEF NoNews, AlivePlaces, Places, Flows
    <3>5. NumberedInv(o)' /\ ClordsInv(o)'
      BY <2>3, <3>1, <3>2, <3>4, NumbersElsewhere
    <3>6. lastClord'[o] = IF wire[1].ver = cancelClord[o] THEN lastClord[o] ELSE wire[1].ver
      BY <1>4 DEF OwnReport
    <3>7. LastInv(o)'
      BY <1>1, <1>4, <2>2, <2>3, <3>1, <3>2, <3>6, ReadLast
    <3>8. AliveInv(o)'
      <4>1. finished'[o] = None /\ Unfilled(o)' /\ AtWork(o)'
        BY <1>4, <2>3, <2>6, UnfilledStays DEF AliveInv, Unfilled, OwnReport, AtWork
      <4>2. QED
        BY <2>3, <2>6, <3>2, <3>4, <4>1, AliveStays
    <3>9. HeldInv(o)'
      <4>1. CASE link # "up"
        BY <4>1 DEF HeldInv
      <4>2. CASE held'[o] \in Good
        BY <4>2 DEF HeldInv
      <4>3. CASE link = "up" /\ held'[o] \notin Good
        <5>1. /\ held'[o] = held[o] /\ (o \in queries' <=> o \in queries) /\ held'[o] # None
              /\ StatusAt(1, o) => held[o] = "PendingCancel" /\ ~(wire[1].query /\ (replay \/ o \in queries))
          BY <1>4, <2>6, <4>3 DEF OwnReport
        <5>2. version'[o] = version[o]
          BY <1>4, <5>1 DEF OwnReport
        <5>3. srv'[o] = srv[o]
          OBVIOUS
        <5>4. QED
          BY <1>1, <1>2, <2>2, <2>3, <3>2, <5>1, <5>2, <5>3, ReadHeld
      <4>4. QED
        BY <4>1, <4>2, <4>3
    <3>10. QED
      BY <2>4, <3>5, <3>7, <3>8, <3>9 DEF AgreeInv
  <2>7. QED
    BY <2>5, <2>6
<1>5. QED
  BY <1>3, <1>4

\* A status applied changes its own order only.
StatusKept(p) ==
    /\ \A q \in Orders \ {p} :
          /\ held'[q] = held[q] /\ cancelClord'[q] = cancelClord[q] /\ finished'[q] = finished[q]
          /\ q \in queries' <=> q \in queries
    /\ \/ cancelClord'[p] = NoClord
       \/ cancelClord'[p] = cancelClord[p] /\ (held'[p] # None \/ held'[p] = held[p])

LEMMA StatusOwn ==
    ASSUME TypeOK, NEW p \in Orders, NEW prev \in Working, NEW status \in Status, NEW forced, NEW given,
           ApplyStatus(p, prev, status, forced, given),
           status \notin Terminal => queries' = queries \/ queries' = queries \ {p}
    PROVE  /\ StatusKept(p)
           /\ status \notin Terminal =>
                /\ held'[p] = IF forced THEN status ELSE Guarded(prev, status)
                /\ held'[p] # None /\ cancelClord'[p] = cancelClord[p] /\ finished'[p] = finished[p]
<1>1. CASE status \in Terminal
  <2>1. /\ held' = [held EXCEPT ![p] = None] /\ cancelClord' = [cancelClord EXCEPT ![p] = NoClord]
        /\ queries' = queries \ {p} /\ finished' = [finished EXCEPT ![p] = status]
    BY <1>1 DEF ApplyStatus, Finish, Leave
  <2>2. QED
    BY <1>1, <2>1 DEF StatusKept, TypeOK
<1>2. CASE status \notin Terminal
  <2> DEFINE new == IF forced THEN status ELSE Guarded(prev, status)
  <2>1. held' = [held EXCEPT ![p] = new] /\ UNCHANGED <<cancelClord, finished>>
    BY <1>2 DEF ApplyStatus
  <2>2. new \in {prev, status}
    BY GuardedStatus
  <2>3. new # None
    BY <2>2 DEF Working, Status, None
  <2> HIDE DEF new
  <2>4. held'[p] = new /\ \A q \in Orders \ {p} : held'[q] = held[q]
    BY <2>1 DEF TypeOK
  <2>5. StatusKept(p)
    BY <1>2, <2>1, <2>3, <2>4 DEF StatusKept
  <2>6. QED
    BY <1>2, <2>1, <2>3, <2>4, <2>5 DEF new
<1>3. QED
  BY <1>1, <1>2

\* The table is not changed but for the versions.
LEMMA StatusLeft ==
    ASSUME UNCHANGED <<held, cancelClord, queries, finished>>, NEW p
    PROVE  StatusKept(p)
BY DEF StatusKept

\* ... and what the report's ClOrdID leaves.
LEMMA VersionsOwn ==
    ASSUME TypeOK, NEW p \in Orders, NEW st, NoteVersion(p, st, wire[1].ver), NoteClord(p, wire[1].ver), StatusKept(p),
           UNCHANGED <<srv, srvVer, dropped>>
    PROVE  /\ \A q \in Orders \ {p} : Untouched(q)
           /\ version'[p] = version[p] \/ (held[p] = None /\ version'[p] = wire[1].ver)
           /\ lastClord'[p] = IF wire[1].ver = cancelClord[p] THEN lastClord[p] ELSE wire[1].ver
BY DEF NoteVersion, NoteClord, Untouched, StatusKept, TypeOK

\* The guard, for the statuses of an order that works.
LEMMA GuardedWorks ==
    ASSUME NEW prev \in Working
    PROVE  /\ Guarded(prev, "PartiallyFilled") = "PartiallyFilled"
           /\ Guarded(prev, "Submitted") \in {"Submitted", "PartiallyFilled", "PendingCancel"}
           /\ Guarded(prev, "Submitted") = "PendingCancel" => prev = "PendingCancel"
           /\ Guarded(prev, prev) = prev
<1>1. prev \in {"PendingSubmit", "PreSubmitted", "Submitted", "PendingCancel", "PartiallyFilled"}
  BY DEF Working, Status, Terminal
<1>2. /\ Rank["PendingSubmit"] = 1 /\ Rank["PreSubmitted"] = 2 /\ Rank["Submitted"] = 3
      /\ Rank["PendingCancel"] = 4 /\ Rank["PartiallyFilled"] = 4
  BY DEF Rank, Status
<1>3. QED
  BY <1>1, <1>2 DEF Guarded

\* A report finds an order that works.
LEMMA FoundWorking ==
    ASSUME TypeOK, TableInv, NEW p \in Orders, NEW st \in {"0", "1", "5", "6"}, finished[p] = None
    PROVE  /\ Found(p, st) \in Working /\ Found(p, st) # None
           /\ held[p] # None => Found(p, st) = held[p]
           /\ held[p] = None => Found(p, st) = RecoveredStatus(st)
           /\ st # "6" /\ Found(p, st) = "PendingCancel" => held[p] = "PendingCancel"
           /\ st = "1" /\ held[p] = None => Found(p, st) = "PartiallyFilled"
BY DEF Found, RecoveredStatus, TypeOK, Working, Status, Terminal, None

\* The status a report gives an order that works.
LEMMA StatusWorks ==
    ASSUME TypeOK, TableInv, NEW p \in Orders, NEW f, f.o = p, f.st \in {"0", "1", "5", "6"},
           f.query => f.st \in {"0", "1"}, finished[p] = None,
           f.st = "6" => held[p] # None /\ f.ver # cancelClord[p],
           NEW prev, prev = Found(p, f.st), NEW status, status = StatusOf(f, prev)
    PROVE  \/ (IF Forced(f, status) THEN status ELSE Guarded(prev, status)) \in Good
           \/ /\ (IF Forced(f, status) THEN status ELSE Guarded(prev, status)) = "PendingCancel"
              /\ held[p] = "PendingCancel" /\ ~(f.query /\ (replay \/ p \in queries))
<1>1. /\ prev \in Working /\ (held[p] # None => prev = held[p])
      /\ f.st # "6" /\ prev = "PendingCancel" => held[p] = "PendingCancel"
  BY FoundWorking
<1>2. CASE f.st = "1"
  <2>1. status = "PartiallyFilled"
    BY <1>2 DEF StatusOf
  <2>2. QED
    BY <1>1, <2>1, GuardedWorks DEF Good
<1>3. CASE f.st \in {"0", "5"}
  <2>1. status = "Submitted"
    BY <1>3 DEF StatusOf
  <2>2. CASE Forced(f, status)
    BY <2>1, <2>2 DEF Good
  <2>3. CASE ~Forced(f, status)
    <3>1. ~(f.query /\ (replay \/ p \in queries))
      BY <2>3 DEF Forced
    <3>2. QED
      BY <1>1, <1>3, <2>1, <2>3, <3>1, GuardedWorks DEF Good
  <2>4. QED
    BY <2>2, <2>3
<1>4. CASE f.st = "6"
  <2>1. status = IF prev \in {"Submitted", "PreSubmitted", "PendingSubmit"} THEN "PreSubmitted" ELSE prev
    BY <1>4 DEF StatusOf
  <2>2. CASE status = "PreSubmitted"
    <3>1. Forced(f, status)
      BY <1>4, <2>2 DEF Forced
    <3>2. QED
      BY <2>2, <3>1 DEF Good
  <2>3. CASE status # "PreSubmitted"
    <3>1. status = prev /\ prev \in {"PendingCancel", "PartiallyFilled"} /\ prev = held[p]
      BY <1>1, <1>4, <2>1, <2>3 DEF Working, Status, Terminal
    <3>2. ~f.query
      BY <1>4
    <3>3. QED
      BY <1>1, <3>1, <3>2, GuardedWorks DEF Good
  <2>4. QED
    BY <2>2, <2>3
<1>5. QED
  BY <1>2, <1>3, <1>4

LEMMA ReadOrderAgrees ==
    ASSUME TypeOK, TableInv, ReadOrder, \A q \in Orders : AgreeInv(q), NEW o \in Orders
    PROVE  AgreeInv(o)'
<1> DEFINE f == Head(wire)
           p == f.o
           prev == Found(p, f.st)
           status == StatusOf(f, prev)
           forced == Forced(f, status)
<1>1. Reading /\ f.kind = "order" /\ wire' = Tail(wire) /\ UNCHANGED <<srv, srvVer, execs, link, dropped, replay>>
  BY DEF ReadOrder, server, asked
<1>2. p \in Orders /\ f.ver \in Nat /\ f.st \in Codes /\ f.query \in BOOLEAN
  BY <1>1, HeadReport DEF Known
<1>3. 1 \in Places /\ wire[1] = f
  BY <1>1, ReadFlows
<1>4. StatusAt(1, p) /\ AboutAt(1, p)
  BY <1>1, <1>3 DEF StatusAt, AboutAt
<1>5. NoteVersion(p, f.st, f.ver) /\ NoteClord(p, f.ver)
  BY DEF ReadOrder
<1>6. prev = None => UNCHANGED <<held, cancelClord, queries, finished>>
  BY DEF ReadOrder
<1>7. prev # None =>
        /\ ApplyStatus(p, prev, status, forced, FALSE)
        /\ status \notin Terminal => queries' = IF f.query /\ ~replay THEN queries \ {p} ELSE queries
  BY DEF ReadOrder
<1>8. prev # None => prev \in Working /\ status \in Status
  <2>1. ASSUME prev # None PROVE prev \in Working /\ status \in Status
    <3>1. prev \in Working
      BY <1>2, <2>1, FoundStatus
    <3>2. QED
      BY <1>2, <3>1, StatusGiven
  <2>2. QED
    BY <2>1
<1>9. AgreeInv(p)
  BY <1>2
<1>10. AtWork(p) =>
         /\ finished[p] = None /\ f.st \in {"0", "1", "5", "6"} /\ (f.query => f.st \in {"0", "1"})
         /\ link = "up" /\ f.st = "6" => held[p] # None /\ f.ver # cancelClord[p]
  <2>1. ASSUME AtWork(p)
        PROVE  /\ finished[p] = None /\ f.st \in {"0", "1", "5", "6"} /\ (f.query => f.st \in {"0", "1"})
    BY <1>3, <1>4, <1>9, <2>1 DEF AgreeInv, AliveInv
  <2>2. ASSUME AtWork(p), link = "up", f.st = "6" PROVE held[p] # None /\ f.ver # cancelClord[p]
    <3>1. AmendAt(1, p)
      BY <1>3, <1>4, <2>2 DEF AmendAt
    <3>2. QED
      BY <1>3, <1>9, <2>2, <3>1 DEF AgreeInv, NumberedInv
  <2>3. QED
    BY <2>1, <2>2
<1>11. AtWork(p) => prev # None /\ status \notin Terminal
  <2>1. ASSUME AtWork(p) PROVE prev # None /\ status \notin Terminal
    <3>1. prev \in Working /\ prev # None
      BY <1>2, <1>10, <2>1, FoundWorking
    <3>2. QED
      BY <1>2, <1>10, <2>1, <3>1, StatusGiven
  <2>2. QED
    BY <2>1
<1>12. AtWork(p) /\ link = "up" =>
         \/ (IF forced THEN status ELSE Guarded(prev, status)) \in Good
         \/ /\ (IF forced THEN status ELSE Guarded(prev, status)) = "PendingCancel"
            /\ held[p] = "PendingCancel" /\ ~(f.query /\ (replay \/ p \in queries))
  BY <1>2, <1>10, StatusWorks
<1> HIDE DEF f, p, prev, status, forced
<1>13. prev # None =>
         /\ StatusKept(p)
         /\ status \notin Terminal =>
              /\ held'[p] = IF forced THEN status ELSE Guarded(prev, status)
              /\ held'[p] # None /\ cancelClord'[p] = cancelClord[p] /\ finished'[p] = finished[p]
  <2>1. ASSUME prev # None PROVE status \notin Terminal => queries' = queries \/ queries' = queries \ {p}
    BY <1>7, <2>1
  <2>2. PICK given : given = FALSE
    OBVIOUS
  <2>3. prev # None => ApplyStatus(p, prev, status, forced, given)
    BY <1>7, <2>2
  <2>4. QED
    BY <1>2, <1>8, <2>1, <2>3, StatusOwn
<1>14. StatusKept(p)
  BY <1>6, <1>13, StatusLeft
<1>15. /\ \A q \in Orders \ {p} : Untouched(q)
       /\ version'[p] = version[p] \/ (held[p] = None /\ version'[p] = wire[1].ver)
       /\ lastClord'[p] = IF wire[1].ver = cancelClord[p] THEN lastClord[p] ELSE wire[1].ver
  <2>1. PICK st : st = f.st
    OBVIOUS
  <2>2. NoteVersion(p, st, wire[1].ver) /\ NoteClord(p, wire[1].ver)
    BY <1>3, <1>5, <2>1
  <2>3. QED
    BY <1>1, <1>2, <1>14, <2>2, VersionsOwn
<1>16. AtWork(p) /\ link = "up" =>
         \/ held'[p] \in Good
         \/ /\ held'[p] = held[p] /\ (p \in queries' <=> p \in queries)
            /\ held[p] = "PendingCancel" /\ ~(wire[1].query /\ (replay \/ p \in queries))
  <2>1. ASSUME AtWork(p), link = "up", held'[p] \notin Good
        PROVE  /\ held'[p] = held[p] /\ (p \in queries' <=> p \in queries)
               /\ held[p] = "PendingCancel" /\ ~(wire[1].query /\ (replay \/ p \in queries))
    <3>1. held'[p] = "PendingCancel" /\ held[p] = "PendingCancel" /\ ~(f.query /\ (replay \/ p \in queries))
      BY <1>11, <1>12, <1>13, <2>1
    <3>2. queries' = IF f.query /\ ~replay THEN queries \ {p} ELSE queries
      BY <1>7, <1>11, <2>1
    <3>3. QED
      BY <1>3, <3>1, <3>2
  <2>2. QED
    BY <2>1
<1>17. OwnReport(p)
  BY <1>11, <1>13, <1>14, <1>15, <1>16 DEF OwnReport, StatusKept
<1>18. AgreeInv(o)
  OBVIOUS
<1>19. QED
  BY <1>1, <1>2, <1>4, <1>15, <1>17, <1>18, ReportRead

\* An execution of an order that works does not end it.
LEMMA WorkingFill ==
    ASSUME TypeOK, TableInv, Reading, Head(wire).kind = "fill", \A q \in Orders : AgreeInv(q)
    PROVE  LET f == Head(wire)
               p == execs[f.n]
           IN  /\ p \in Orders /\ 1 \in Places /\ wire[1] = f /\ AboutAt(1, p) /\ ~StatusAt(1, p)
               /\ AtWork(p) => finished[p] = None /\ ~Ends(f.n)
<1> DEFINE f == Head(wire)
           p == execs[f.n]
<1>1. p \in Orders /\ f.n \in 1 .. Len(execs)
  BY FillReport
<1>2. 1 \in Places /\ wire[1] = f
  BY ReadFlows
<1>3. AboutAt(1, p) /\ ~StatusAt(1, p)
  BY <1>2 DEF AboutAt, StatusAt, FillAt
<1>4. AtWork(p) => finished[p] = None /\ ~Ends(f.n)
  <2>1. ASSUME AtWork(p) PROVE finished[p] = None /\ FillsUpTo(p, f.n) < Qty
    BY <1>1, <2>1 DEF AgreeInv, AliveInv
  <2>2. AtWork(p) => FillsUpTo(p, f.n) # Qty
    BY <2>1, OrderBookAssumption
  <2>3. QED
    BY <2>1, <2>2 DEF Ends
<1>5. QED
  BY <1>1, <1>2, <1>3, <1>4

LEMMA ReadFillAgrees ==
    ASSUME TypeOK, TableInv, ReadFill, \A q \in Orders : AgreeInv(q), NEW o \in Orders
    PROVE  AgreeInv(o)'
<1> DEFINE f == Head(wire)
           p == execs[f.n]
           st == IF Ends(f.n) THEN "2" ELSE "1"
           prev == Found(p, st)
           status == IF Ends(f.n) THEN "Filled" ELSE "PartiallyFilled"
           given == ~Seen(f.n)
<1>1. Reading /\ f.kind = "fill" /\ wire' = Tail(wire) /\ UNCHANGED <<srv, srvVer, execs, link, dropped, replay>>
  BY DEF ReadFill, server
<1>2. /\ p \in Orders /\ 1 \in Places /\ wire[1] = f /\ AboutAt(1, p) /\ ~StatusAt(1, p)
      /\ AtWork(p) => finished[p] = None /\ ~Ends(f.n)
  BY <1>1, WorkingFill
<1>3. NoteVersion(p, st, f.ver) /\ NoteClord(p, f.ver)
  BY DEF ReadFill
<1>4. prev = None => UNCHANGED <<held, cancelClord, queries, finished>>
  BY DEF ReadFill
<1>5. prev # None => ApplyStatus(p, prev, status, FALSE, given) /\ (~Ends(f.n) => UNCHANGED queries)
  BY DEF ReadFill
<1>6. status \in Status /\ (status \in Terminal <=> Ends(f.n))
  BY DEF Status, Terminal
<1>7. prev # None => prev \in Working
  BY <1>2, FoundStatus
<1>8. AtWork(p) => prev # None /\ status = "PartiallyFilled" /\ status \notin Terminal
  <2>1. ASSUME AtWork(p) PROVE prev # None /\ status = "PartiallyFilled" /\ status \notin Terminal
    <3>1. ~Ends(f.n) /\ st = "1"
      BY <1>2, <2>1
    <3>2. prev # None
      BY <1>2, <2>1, <3>1, FoundWorking
    <3>3. QED
      BY <1>6, <3>1, <3>2
  <2>2. QED
    BY <2>1
<1> HIDE DEF f, p, prev, status, given, st
<1>9. prev # None =>
        /\ StatusKept(p)
        /\ status \notin Terminal =>
             /\ held'[p] = Guarded(prev, status)
             /\ held'[p] # None /\ cancelClord'[p] = cancelClord[p] /\ finished'[p] = finished[p]
  <2>1. PICK forced : forced = FALSE
    OBVIOUS
  <2>2. prev # None => ApplyStatus(p, prev, status, forced, given)
    BY <1>5, <2>1
  <2>3. ASSUME prev # None PROVE status \notin Terminal => queries' = queries \/ queries' = queries \ {p}
    BY <1>5, <1>6, <2>3
  <2>4. QED
    BY <1>2, <1>6, <1>7, <2>1, <2>2, <2>3, StatusOwn
<1>10. StatusKept(p)
  BY <1>4, <1>9, StatusLeft
<1>11. /\ \A q \in Orders \ {p} : Untouched(q)
       /\ version'[p] = version[p] \/ (held[p] = None /\ version'[p] = wire[1].ver)
       /\ lastClord'[p] = IF wire[1].ver = cancelClord[p] THEN lastClord[p] ELSE wire[1].ver
  <2>1. NoteVersion(p, st, wire[1].ver) /\ NoteClord(p, wire[1].ver)
    BY <1>2, <1>3
  <2>2. QED
    BY <1>1, <1>2, <1>10, <2>1, VersionsOwn
<1>12. AtWork(p) => held'[p] \in Good
  BY <1>7, <1>8, <1>9, GuardedWorks DEF Good
<1>13. OwnReport(p)
  BY <1>8, <1>9, <1>10, <1>11, <1>12 DEF OwnReport, StatusKept
<1>14. AgreeInv(o)
  OBVIOUS
<1>15. QED
  BY <1>1, <1>2, <1>11, <1>13, <1>14, ReportRead

LEMMA ReadOutageFillAgrees ==
    ASSUME TypeOK, TableInv, ReadOutageFill, \A q \in Orders : AgreeInv(q), NEW o \in Orders
    PROVE  AgreeInv(o)'
<1> DEFINE f == Head(wire)
           p == execs[f.n]
           st == IF Ends(f.n) THEN "2" ELSE "1"
           prev == Found(p, st)
<1>1. /\ Reading /\ f.kind = "fill" /\ wire' = Tail(wire) /\ prev # None
      /\ UNCHANGED <<srv, srvVer, execs, link, dropped, replay, finished>>
  BY DEF ReadOutageFill, server
<1>2. /\ p \in Orders /\ 1 \in Places /\ wire[1] = f /\ AboutAt(1, p) /\ ~StatusAt(1, p)
      /\ AtWork(p) => finished[p] = None /\ ~Ends(f.n)
  BY <1>1, WorkingFill
<1>3. NoteVersion(p, st, f.ver) /\ NoteClord(p, f.ver)
  BY DEF ReadOutageFill
<1>4. IF Ends(f.n) THEN Leave(p) ELSE held' = [held EXCEPT ![p] = prev] /\ UNCHANGED <<cancelClord, queries>>
  BY DEF ReadOutageFill
<1>5. AtWork(p) => st = "1"
  BY <1>2
<1>6. AtWork(p) => (held[p] # None => prev = held[p]) /\ (held[p] = None => prev = "PartiallyFilled")
  BY <1>2, <1>5, FoundWorking
<1> HIDE DEF f, p, prev, st
<1>7. StatusKept(p) /\ (~Ends(f.n) => held'[p] = prev /\ UNCHANGED <<cancelClord, queries>>)
  <2>1. CASE Ends(f.n)
    BY <1>1, <1>2, <1>4, <2>1 DEF Leave, StatusKept, TypeOK
  <2>2. CASE ~Ends(f.n)
    BY <1>1, <1>2, <1>4, <2>2 DEF StatusKept, TypeOK
  <2>3. QED
    BY <2>1, <2>2
<1>8. /\ \A q \in Orders \ {p} : Untouched(q)
      /\ version'[p] = version[p] \/ (held[p] = None /\ version'[p] = wire[1].ver)
      /\ lastClord'[p] = IF wire[1].ver = cancelClord[p] THEN lastClord[p] ELSE wire[1].ver
  <2>1. NoteVersion(p, st, wire[1].ver) /\ NoteClord(p, wire[1].ver)
    BY <1>2, <1>3
  <2>2. QED
    BY <1>1, <1>2, <1>7, <2>1, VersionsOwn
<1>9. AtWork(p) => held'[p] \in Good \/ held'[p] = held[p]
  BY <1>2, <1>6, <1>7 DEF Good
<1>10. OwnReport(p)
  BY <1>1, <1>2, <1>7, <1>8, <1>9 DEF OwnReport, StatusKept
<1>11. AgreeInv(o)
  OBVIOUS
<1>12. QED
  BY <1>1, <1>2, <1>8, <1>10, <1>11, ReportRead

\* Every step keeps what holds of every order.
LEMMA AgreeStep ==
    ASSUME TypeOK, TableInv, OffLineInv, \A o \in Orders : AgreeInv(o), [Next]_vars
    PROVE  \A o \in Orders : AgreeInv(o)'
<1> SUFFICES ASSUME NEW o \in Orders PROVE AgreeInv(o)'
  OBVIOUS
<1>1. TypeOK' /\ Known \subseteq Known' /\ AgreeInv(o)
  BY TableStep, ReportsGrow
<1>2. ASSUME UNCHANGED <<server, link, wire, table, client, replay>> PROVE AgreeInv(o)'
  <2>1. Untouched(o) /\ execs' = execs
    BY <1>2, OthersUntouched
  <2>2. QED
    BY <1>1, <1>2, <2>1, NothingSent
<1>3. CASE UNCHANGED vars \/ (\E r \in Request : Command(r)) \/ StartGlobalCancel
  BY <1>2, <1>3 DEF vars, asked, Command, StartGlobalCancel
<1>4. CASE SendNew \/ SendCancel \/ SendModify
  BY <1>1, <1>4, SendNewAgrees, SendCancelAgrees, SendModifyAgrees
<1>5. ASSUME NEW p \in Orders, WalkCancel(p) PROVE AgreeInv(o)'
  BY <1>1, <1>5, WalkCancelAgrees
<1>6. CASE ReadOrder \/ ReadOutageFill \/ ReadFill \/ ReadCancelReject
  BY <1>1, <1>6, ReadOrderAgrees, ReadOutageFillAgrees, ReadFillAgrees, ReadCancelRejectAgrees
<1>7. CASE ReadEndTrades \/ ReadEndReplay
  BY <1>1, <1>7, ReadEndAgrees
<1>8. ASSUME NEW p \in Orders, ServerFills(p) \/ ServerCancels(p) PROVE AgreeInv(o)'
  BY <1>1, <1>8, ServerFillsAgrees, ServerCancelsAgrees
<1>9. CASE Cut \/ HandleDisconnect \/ Relogin
  BY <1>1, <1>9, CutAgrees, OutageAgrees
<1>10. CASE Reconnect
  BY <1>1, <1>10, ReconnectedAgrees
<1>11. QED
  BY <1>3, <1>4, <1>5, <1>6, <1>7, <1>8, <1>9, <1>10 DEF Next

\* An order that works on the server is held as working, under the server's
\* ClOrdID, once the reports are read: through any number of refused and lost
\* requests, status answers and replays, on any number of links.
THEOREM WorkingHeldRight == Spec => []WorkingOrdersAgree
<1> DEFINE Agrees == OffLineInv /\ \A o \in Orders : AgreeInv(o)
<1>1. Init => Agrees
  <2> SUFFICES ASSUME Init PROVE Agrees
    OBVIOUS
  <2>1. Places = {} /\ ~Disconnected
    BY EmptySeq DEF Init, Places, Disconnected
  <2>2. ASSUME NEW o \in Orders PROVE AgreeInv(o)
    <3>1. ~AtWork(o)
      BY <2>2 DEF Init, AtWork, None
    <3>2. KeptInv(o)
      BY <2>2 DEF Init, KeptInv, NoClord
    <3>3. QED
      BY <3>1, <3>2 DEF AgreeInv, AliveInv, NumberedInv, ClordsInv, LastInv, HeldInv
  <2>3. QED
    BY <2>1, <2>2 DEF OffLineInv
<1>2. TypeOK /\ TableInv /\ Agrees /\ [Next]_vars => TypeOK' /\ TableInv' /\ Agrees'
  <2> SUFFICES ASSUME TypeOK, TableInv, OffLineInv, \A o \in Orders : AgreeInv(o), [Next]_vars
               PROVE  TypeOK' /\ TableInv' /\ OffLineInv' /\ \A o \in Orders : AgreeInv(o)'
    OBVIOUS
  <2>1. OffLineInv'
    <3>1. CASE UNCHANGED vars
      BY <3>1 DEF OffLineInv, Disconnected, Places, FillAt, vars
    <3>2. CASE Next
      BY <3>2, OffLineStep
    <3>3. QED
      BY <3>1, <3>2
  <2>2. QED
    BY <2>1, TableStep, AgreeStep
<1>3. Agrees => WorkingOrdersAgree
  <2> SUFFICES ASSUME Agrees, Quiet, NEW o \in Orders, srv[o] = "working"
               PROVE  /\ held[o] \in {"PreSubmitted", "Submitted", "PartiallyFilled"}
                      /\ o \notin dropped => lastClord[o] = srvVer[o]
    BY DEF WorkingOrdersAgree
  <2>1. Places = {} /\ link = "up" /\ AtWork(o)
    BY EmptySeq DEF Quiet, Places, AtWork
  <2>2. LastInv(o) /\ HeldInv(o)
    BY DEF AgreeInv
  <2>3. QED
    BY <2>1, <2>2 DEF LastInv, HeldInv, Good, Refused, Replayed
<1> HIDE DEF Agrees
<1>4. QED
  BY <1>1, <1>2, <1>3, InvInit, PTL DEF Spec
=============================================================================
