-------------------------- MODULE TopOfBook_proofs --------------------------
(***************************************************************************)
(* Proofs about the market data farm's subscriptions, for every number of  *)
(* slots, contracts, entries and losses: the type invariant and the four   *)
(* safety invariants of TopOfBook.  The invariant follows a subscription   *)
(* by its id from the entry the engine keeps, through the messages that    *)
(* ask for it and cancel it, to what the farm serves, and a server tag     *)
(* from the acknowledgement to the slot: an id is used once, each message  *)
(* is about an entry of its slot and contract, and what the farm serves    *)
(* without an entry has its cancel on the way or is stray.                 *)
(***************************************************************************)
EXTENDS TopOfBook, Picks_proofs

-----------------------------------------------------------------------------
(***************************************************************************)
(* What the operations do to the elements of the sequences.                *)
(***************************************************************************)
LEMMA InKind ==
    ASSUME NEW E, NEW s \in Seq(E), NEW kind
    PROVE  /\ OfKind(s, kind) \in Seq(E)
           /\ ToSet(OfKind(s, kind)) = {m \in ToSet(s) : m.kind = kind}
<1>1. OfKind(s, kind) = Kept(s, {m \in ToSet(s) : m.kind = kind})
  BY DEF OfKind
<1> QED
  BY <1>1, InKept

\* The numbers of the slots, the entries and the tags.
LEMMA Numbers ==
    /\ MAX_INSTRUMENTS \in Nat \ {0} /\ MaxEntries \in Nat /\ MaxLosses \in Nat
    /\ NoContract \notin Contracts
    /\ Slots = 1 .. MAX_INSTRUMENTS /\ NoSlot = 0 /\ NoSlot \notin Slots
    /\ Ids = 1 .. MaxEntries
  BY TopOfBookAssumption DEF Slots, NoSlot, Ids

\* subscribe_top: an entry for each slot, with the next ids; the
\* subscriptions are kept.
LEMMA Subscribed ==
    ASSUME TypeOK, NEW ss \in Seq(Slots), NEW have, SubscribeTop(ss, have),
           \A i \in DOMAIN have : i \in Ids /\ i < nextId
    PROVE  /\ nextId \in 1 .. MaxEntries + 1
           /\ nextId' = nextId + Len(ss) /\ nextId' \in 1 .. MaxEntries + 1
           /\ \A i : i \in DOMAIN entries' <=>
                       i \in DOMAIN have \/ \E k \in 1 .. Len(ss) : i = nextId + k - 1
           /\ \A i \in DOMAIN have : entries'[i] = have[i]
           /\ \A k \in 1 .. Len(ss) :
                /\ nextId + k - 1 \in Ids /\ nextId + k - 1 >= nextId /\ nextId + k - 1 < nextId'
                /\ entries'[nextId + k - 1] =
                     [slot |-> ss[k], con |-> con'[ss[k]], waiting |-> TRUE]
           /\ resub' \in Seq(Slots)
           /\ ToSet(resub') = ToSet(resub) \cup ToSet(ss)
<1>1. PICK n : n = Len(ss)
  OBVIOUS
<1>2. n \in Nat /\ nextId \in 1 .. MaxEntries + 1 /\ MaxEntries \in Nat
  BY <1>1, Numbers DEF TypeOK
<1>3. /\ nextId + n <= MaxEntries + 1 /\ nextId' = nextId + n
      /\ entries' = [i \in DOMAIN have \cup nextId .. nextId' - 1 |->
                       IF i < nextId THEN have[i]
                       ELSE [slot |-> ss[i - nextId + 1], con |-> con'[ss[i - nextId + 1]],
                             waiting |-> TRUE]]
      /\ resub' = resub \o Kept(ss, Slots \ ToSet(resub))
  BY <1>1 DEF SubscribeTop
<1>4. nextId' \in 1 .. MaxEntries + 1
  BY <1>2, <1>3
<1>5. \A k \in 1 .. n : /\ nextId + k - 1 \in Ids /\ nextId + k - 1 >= nextId /\ nextId + k - 1 < nextId'
                        /\ nextId + k - 1 \in nextId .. nextId' - 1
                        /\ nextId + k - 1 - nextId + 1 = k
  BY <1>2, <1>3, Numbers
<1>6. DOMAIN entries' = DOMAIN have \cup nextId .. nextId' - 1
  BY <1>3
<1>7. \A i \in nextId .. nextId' - 1 : i - nextId + 1 \in 1 .. n /\ i = nextId + (i - nextId + 1) - 1
  BY <1>2, <1>3
<1>8. \A i : i \in DOMAIN entries' <=> i \in DOMAIN have \/ \E k \in 1 .. n : i = nextId + k - 1
  BY <1>5, <1>6, <1>7
<1>9. \A i \in DOMAIN have : entries'[i] = have[i]
  BY <1>3
<1>10. \A k \in 1 .. n : entries'[nextId + k - 1] =
                           [slot |-> ss[k], con |-> con'[ss[k]], waiting |-> TRUE]
  <2>1. TAKE k \in 1 .. n
  <2>2. PICK i : i = nextId + k - 1
    OBVIOUS
  <2>3. i \in DOMAIN entries' /\ ~(i < nextId) /\ i - nextId + 1 = k
    <3>1. i \in nextId .. nextId' - 1 /\ i >= nextId /\ i - nextId + 1 = k
      <4>1. k \in 1 .. n /\ nextId' = nextId + n
        BY <1>3
      <4> QED
        BY ONLY <4>1, <1>2, <2>2
    <3>2. i \in Int /\ nextId \in Int
      BY <1>2, <2>2
    <3> QED
      BY <3>1, <3>2, <1>6
  <2>4. entries'[i] = [slot |-> ss[i - nextId + 1], con |-> con'[ss[i - nextId + 1]], waiting |-> TRUE]
    BY <1>3, <2>3, <1>6
  <2> QED
    BY <2>2, <2>3, <2>4
<1>11. resub \in Seq(Slots)
  BY DEF TypeOK
<1>12. /\ Kept(ss, Slots \ ToSet(resub)) \in Seq(Slots)
       /\ ToSet(Kept(ss, Slots \ ToSet(resub))) = ToSet(ss) \cap (Slots \ ToSet(resub))
  BY InKept
<1>13. resub' \in Seq(Slots) /\ ToSet(resub') = ToSet(resub) \cup (ToSet(ss) \cap (Slots \ ToSet(resub)))
  <2>1. PICK t : t = Kept(ss, Slots \ ToSet(resub))
    OBVIOUS
  <2>2. resub \o t \in Seq(Slots) /\ ToSet(resub \o t) = ToSet(resub) \cup ToSet(t)
    BY <1>11, <1>12, <2>1, InConcat
  <2> QED
    BY <1>3, <1>12, <2>1, <2>2, Zenon
<1>14. ToSet(ss) \subseteq Slots
  BY InSet
<1> QED
  BY <1>1, <1>2, <1>3, <1>4, <1>5, <1>8, <1>9, <1>10, <1>13, <1>14

\* The requests that go with them.
LEMMA SubMsgsOf ==
    ASSUME NEW ss \in Seq(Slots), nextId \in Nat, \A k \in 1 .. Len(ss) : nextId + k - 1 \in Ids,
           \A s \in ToSet(ss) : con'[s] \in Contracts
    PROVE  /\ SubMsgs(ss) \in Seq(Orders)
           /\ \A m : m \in ToSet(SubMsgs(ss)) <=>
                       \E k \in 1 .. Len(ss) : m = SubMsg(nextId + k - 1, con'[ss[k]])
<1>1. PICK t : t = SubMsgs(ss)
  OBVIOUS
<1>2. t = [k \in 1 .. Len(ss) |-> SubMsg(nextId + k - 1, con'[ss[k]])]
  BY <1>1 DEF SubMsgs
<1>3. \A k \in 1 .. Len(ss) : con'[ss[k]] \in Contracts
  BY InSet
<1>4. \A k \in 1 .. Len(ss) : SubMsg(nextId + k - 1, con'[ss[k]]) \in Orders
  BY <1>3 DEF SubMsg, Orders
<1>5. t \in Seq(Orders) /\ Len(t) = Len(ss) /\ \A k \in 1 .. Len(ss) : t[k] = SubMsg(nextId + k - 1, con'[ss[k]])
  <2>1. Len(ss) \in Nat
    OBVIOUS
  <2> QED
    BY ONLY <1>2, <1>4, <2>1
<1>6. \A m : m \in ToSet(t) <=> \E k \in 1 .. Len(ss) : t[k] = m
  BY <1>5, InSet
<1>7. \A m : m \in ToSet(t) <=> \E k \in 1 .. Len(ss) : m = SubMsg(nextId + k - 1, con'[ss[k]])
  BY ONLY <1>5, <1>6, Zenon
<1> QED
  BY <1>1, <1>5, <1>7, Zenon

\* cancel_top_entries: a cancel for each entry of the slots.
LEMMA CancelMsgsOf ==
    ASSUME TypeOK, NEW ss
    PROVE  /\ CancelMsgs(ss) \in Seq(Orders)
           /\ \A m : m \in ToSet(CancelMsgs(ss)) <=>
                       \E i \in DOMAIN entries :
                          entries[i].slot \in ss /\ m = CancelMsg(i, entries[i].con)
<1>1. PICK S : S = {i \in DOMAIN entries : entries[i].slot \in ss}
  OBVIOUS
<1>2. S \in SUBSET Nat /\ S \subseteq Ids /\ S \subseteq DOMAIN entries
  BY <1>1, Numbers DEF TypeOK
<1>3. IsFiniteSet(S)
  <2>1. IsFiniteSet(Ids)
    BY Numbers, FS_Interval
  <2> QED
    BY <1>2, <2>1, FS_Subset
<1>a. PICK n, d : n = Cardinality(S) /\ d = Descending(S)
  OBVIOUS
<1>4. /\ n \in Nat /\ d \in [1 .. n -> S]
      /\ n = Cardinality(S) /\ d = Descending(S) /\ \A i \in S : \E k \in 1 .. n : d[k] = i
  BY <1>a, <1>2, <1>3, DescendingOf
<1>5. PICK t : t = CancelMsgs(ss)
  OBVIOUS
<1>6. t = [k \in 1 .. n |-> CancelMsg(d[k], entries[d[k]].con)]
  BY <1>1, <1>4, <1>5 DEF CancelMsgs
<1>7. \A i \in S : CancelMsg(i, entries[i].con) \in Orders
  <2>1. TAKE i \in S
  <2>2. i \in Ids /\ entries[i].con \in Contracts
    BY <1>2 DEF TypeOK
  <2> QED
    BY <2>2 DEF CancelMsg, Orders
<1>8. /\ t \in Seq(Orders) /\ Len(t) = n
      /\ \A k \in 1 .. n : t[k] = CancelMsg(d[k], entries[d[k]].con)
  BY ONLY <1>4, <1>6, <1>7
<1>9. \A m : m \in ToSet(t) <=> \E k \in 1 .. n : t[k] = m
  BY <1>8, InSet
<1>10. \A m : m \in ToSet(t) <=> \E i \in S : m = CancelMsg(i, entries[i].con)
  BY <1>4, <1>8, <1>9
<1> QED
  BY <1>1, <1>5, <1>8, <1>10

\* The messages are told apart by their kind.
LEMMA MessageTypes ==
    /\ \A i \in Ids : RejectMsg(i) \in Messages
    /\ \A i \in Ids : \A t \in Tags : AckMsg(i, t) \in Messages
    /\ \A t \in Tags : \A c \in Contracts : TickMsg(t, c) \in Messages
    /\ \A i, t : AckMsg(i, t).kind = "ack" /\ AckMsg(i, t).id = i /\ AckMsg(i, t).tag = t
    /\ \A i : RejectMsg(i).kind = "reject" /\ RejectMsg(i).id = i
    /\ \A t, c : TickMsg(t, c).kind = "tick" /\ TickMsg(t, c).tag = t /\ TickMsg(t, c).con = c
    /\ \A i, c : SubMsg(i, c).kind = "sub" /\ SubMsg(i, c).id = i /\ SubMsg(i, c).con = c
    /\ \A i, c : CancelMsg(i, c).kind = "cancel" /\ CancelMsg(i, c).id = i
  BY DEF RejectMsg, AckMsg, TickMsg, SubMsg, CancelMsg, Messages

\* The requests and the cancels among messages.
Subs(M) == {m \in M : m.kind = "sub"}
Cancels(M, i) == \E m \in M : m.kind = "cancel" /\ m.id = i

\* What the farm serves then: what it served and was not cancelled, and what
\* was asked for and neither refused nor cancelled behind its request.
LEMMA ServeOf ==
    ASSUME TypeOK, NEW msgs \in Seq(Orders), NEW no, NEW M, M = ToSet(msgs)
    PROVE  /\ Serve(msgs, no) \subseteq Ids \X Contracts
           /\ \A e \in Serve(msgs, no) :
                \/ e \in served /\ ~Cancels(M, e[1])
                \/ \E q \in Subs(M) : q.id \notin no /\ e = <<q.id, q.con>>
           /\ \A e \in served : ~Cancels(M, e[1]) => e \in Serve(msgs, no)
           /\ \A q \in Subs(M) : q.id \notin no /\ ~Cancels(M, q.id) => <<q.id, q.con>> \in Serve(msgs, no)
<1> DEFINE Ended(i, k) == \E j \in k + 1 .. Len(msgs) : msgs[j].kind = "cancel" /\ msgs[j].id = i
           asked == {k \in DOMAIN msgs : msgs[k].kind = "sub" /\ msgs[k].id \notin no}
           stay == {e \in served : ~Ended(e[1], 0)}
           live == {j \in asked : ~Ended(msgs[j].id, j)}
           new == {<<msgs[k].id, msgs[k].con>> : k \in live}
<1>1. Serve(msgs, no) = stay \cup new
  BY Zenon DEF Serve
<1>2. DOMAIN msgs = 1 .. Len(msgs) /\ Len(msgs) \in Nat
  OBVIOUS
<1>3. \A x : x \in M <=> \E k \in 1 .. Len(msgs) : msgs[k] = x
  BY InSet
<1>4. M \subseteq Orders
  BY InSet
<1>5. \A i : Ended(i, 0) <=> Cancels(M, i)
  BY <1>2, <1>3 DEF Cancels
<1>6. \A i : \A k \in Nat : Ended(i, k) => Cancels(M, i)
  <2>1. \A k \in Nat : \A j \in k + 1 .. Len(msgs) : j \in 1 .. Len(msgs)
    BY <1>2
  <2> QED
    BY <1>3, <2>1 DEF Cancels
<1>7. served \subseteq Ids \X Contracts
  BY DEF TypeOK
<1>8. \A k \in asked : msgs[k] \in Subs(M) /\ msgs[k].id \notin no /\ msgs[k].id \in Ids /\ msgs[k].con \in Contracts
  BY <1>2, <1>3, <1>4 DEF Subs, Orders
<1>9. \A q \in Subs(M) : q.id \notin no => \E k \in asked : msgs[k] = q /\ k \in Nat
  BY <1>2, <1>3 DEF Subs
<1> HIDE DEF asked, Ended
<1>10. stay = {e \in served : ~Cancels(M, e[1])}
  BY <1>5
<1>11. \A e \in new : \E k \in asked : e = <<msgs[k].id, msgs[k].con>>
  OBVIOUS
<1>12. \A k \in asked : ~Ended(msgs[k].id, k) => <<msgs[k].id, msgs[k].con>> \in new
  OBVIOUS
<1> HIDE DEF stay, new
<1>13. Serve(msgs, no) \subseteq Ids \X Contracts
  BY <1>1, <1>7, <1>8, <1>10, <1>11
<1>14. ASSUME NEW e \in Serve(msgs, no)
       PROVE  \/ e \in served /\ ~Cancels(M, e[1])
              \/ \E q \in Subs(M) : q.id \notin no /\ e = <<q.id, q.con>>
  <2>1. CASE e \in stay
    BY <2>1, <1>10
  <2>2. CASE e \in new
    <3>1. PICK k \in asked : e = <<msgs[k].id, msgs[k].con>>
      BY <2>2, <1>11
    <3>2. msgs[k] \in Subs(M) /\ msgs[k].id \notin no
      BY <1>8
    <3> QED
      BY <3>1, <3>2, Zenon
  <2> QED
    BY <1>1, <2>1, <2>2
<1>15. \A e \in served : ~Cancels(M, e[1]) => e \in Serve(msgs, no)
  BY <1>1, <1>10
<1>16. ASSUME NEW q \in Subs(M), q.id \notin no, ~Cancels(M, q.id)
       PROVE  <<q.id, q.con>> \in Serve(msgs, no)
  <2>1. PICK k \in asked : msgs[k] = q /\ k \in Nat
    BY <1>9, <1>16
  <2>2. ~Ended(msgs[k].id, k)
    BY <1>6, <1>16, <2>1
  <2> QED
    BY <1>1, <1>12, <2>1, <2>2
<1> QED
  BY <1>13, <1>14, <1>15, <1>16

\* The farm has read the messages M: its tags, its answers, what it serves.
Answered(M, before, no) ==
    /\ tagOf' \in [Contracts -> Tags \cup {0}]
    /\ \A c \in Contracts : tagOf[c] # 0 => tagOf'[c] = tagOf[c]
    /\ \A c \in Contracts : \A d \in Contracts : tagOf'[c] = tagOf'[d] /\ tagOf'[c] # 0 => c = d
    /\ \A m \in ToSet(wire') :
         \/ m \in ToSet(before)
         \/ \E q \in Subs(M) : q.id \in no /\ m = RejectMsg(q.id)
         \/ \E q \in Subs(M) : q.id \notin no /\ tagOf'[q.con] # 0 /\ m = AckMsg(q.id, tagOf'[q.con])
    /\ \A q \in Subs(M) : q.id \in no => RejectMsg(q.id) \in ToSet(wire')
    /\ \A q \in Subs(M) : q.id \notin no => tagOf'[q.con] # 0
    /\ \A e \in served' : \/ e \in served /\ ~Cancels(M, e[1])
                          \/ \E q \in Subs(M) : q.id \notin no /\ e = <<q.id, q.con>>
    /\ \A e \in served : ~Cancels(M, e[1]) => e \in served'
    /\ \A q \in Subs(M) : q.id \notin no /\ ~Cancels(M, q.id) => <<q.id, q.con>> \in served'
    /\ \A i \in stray : i \in stray'
    /\ \A e \in served' : e \in served \/ e[1] \in DOMAIN entries' \cup stray'

LEMMA SendOf ==
    ASSUME TypeOK, NEW msgs \in Seq(Orders), NEW before \in Seq(Messages), Send(msgs, before)
    PROVE  /\ wire' \in Seq(Messages) /\ ToSet(before) \subseteq ToSet(wire')
           /\ served' \subseteq Ids \X Contracts /\ tagOf' \in [Contracts -> Tags \cup {0}]
           /\ stray' \subseteq Ids
           /\ \/ /\ link # "up" /\ wire' = before
                 /\ served' = served /\ tagOf' = tagOf /\ stray' = stray
              \/ link = "up" /\ \E no : Answered(ToSet(msgs), before, no)
<1>1. PICK M : M = ToSet(msgs)
  OBVIOUS
<1>2. /\ served \subseteq Ids \X Contracts /\ tagOf \in [Contracts -> Tags \cup {0}] /\ stray \subseteq Ids
  BY DEF TypeOK
<1>3. CASE link # "up"
  <2>1. wire' = before /\ served' = served /\ tagOf' = tagOf /\ stray' = stray
    BY <1>3 DEF Send
  <2> QED
    BY <1>2, <1>3, <2>1
<1>4. CASE link = "up"
  <2> DEFINE asked == OfKind(msgs, "sub")
  <2>2. asked \in Seq(Orders) /\ ToSet(asked) = Subs(M)
    BY <1>1, InKind DEF Subs
  <2>3. PICK no \in SUBSET {asked[k].id : k \in DOMAIN asked}, t \in [Contracts -> Tags \cup {0}] :
          LET new == {asked[k].con : k \in {j \in DOMAIN asked : asked[j].id \notin no}} IN
            /\ \A c \in Contracts : IF tagOf[c] = 0 /\ c \in new THEN t[c] # 0 ELSE t[c] = tagOf[c]
            /\ \A c, d \in Contracts : c # d /\ t[c] # 0 => t[c] # t[d]
            /\ tagOf' = t
            /\ served' = Serve(msgs, no)
            /\ wire' = before \o [k \in DOMAIN asked |->
                         IF asked[k].id \in no THEN RejectMsg(asked[k].id)
                         ELSE AckMsg(asked[k].id, t[asked[k].con])]
            /\ stray' = stray \cup
                 {e[1] : e \in {f \in served' \ served : f[1] \notin DOMAIN entries'}}
    BY <1>4, Zenon DEF Send
  <2> HIDE DEF asked
  <2>4. PICK answers : answers = [k \in DOMAIN asked |->
                         IF asked[k].id \in no THEN RejectMsg(asked[k].id)
                         ELSE AckMsg(asked[k].id, t[asked[k].con])]
    OBVIOUS
  <2>5. /\ tagOf' = t /\ served' = Serve(msgs, no) /\ wire' = before \o answers
        /\ stray' = stray \cup {e[1] : e \in {f \in served' \ served : f[1] \notin DOMAIN entries'}}
    BY <2>3, <2>4, Zenon
  <2>6. \A c \in Contracts : tagOf[c] # 0 => t[c] = tagOf[c]
    BY <2>3
  <2>7. \A k \in DOMAIN asked : asked[k].id \notin no /\ asked[k].con \in Contracts => t[asked[k].con] # 0
    BY <2>3
  <2>8. \A c \in Contracts : \A d \in Contracts : t[c] = t[d] /\ t[c] # 0 => c = d
    BY <2>3
  <2>9. DOMAIN asked = 1 .. Len(asked) /\ Len(asked) \in Nat
    BY <2>2
  <2>10. \A k \in 1 .. Len(asked) : asked[k] \in Subs(M) /\ asked[k].id \in Ids /\ asked[k].con \in Contracts
    <3>1. ToSet(asked) \subseteq Orders /\ \A k \in 1 .. Len(asked) : asked[k] \in ToSet(asked)
      BY <2>2, InSet
    <3> QED
      BY <3>1, <2>2 DEF Orders
  <2>11. \A k \in 1 .. Len(asked) :
           answers[k] = IF asked[k].id \in no THEN RejectMsg(asked[k].id)
                        ELSE AckMsg(asked[k].id, t[asked[k].con])
    BY <2>4, <2>9
  <2>12. answers \in Seq(Messages) /\ Len(answers) = Len(asked)
    <3>1. \A k \in 1 .. Len(asked) : answers[k] \in Messages
      <4>1. TAKE k \in 1 .. Len(asked)
      <4>2. CASE asked[k].id \in no
        BY <4>2, <2>10, <2>11, MessageTypes
      <4>3. CASE asked[k].id \notin no
        <5>1. t[asked[k].con] \in Tags
          BY <4>3, <2>3, <2>7, <2>9, <2>10
        <5> QED
          BY <4>3, <5>1, <2>10, <2>11, MessageTypes
      <4> QED
        BY <4>2, <4>3
    <3>2. answers = [k \in 1 .. Len(asked) |-> answers[k]]
      BY <2>4, <2>9
    <3> QED
      BY ONLY <3>1, <3>2, <2>9
  <2>13. wire' \in Seq(Messages) /\ ToSet(wire') = ToSet(before) \cup ToSet(answers)
    BY <2>5, <2>12, InConcat
  <2>14. \A m \in ToSet(answers) :
           \/ \E q \in Subs(M) : q.id \in no /\ m = RejectMsg(q.id)
           \/ \E q \in Subs(M) : q.id \notin no /\ t[q.con] # 0 /\ m = AckMsg(q.id, t[q.con])
    <3>1. TAKE m \in ToSet(answers)
    <3>2. PICK k \in 1 .. Len(asked) : answers[k] = m
      BY <2>12, InSet
    <3>3. CASE asked[k].id \in no
      BY <3>2, <3>3, <2>10, <2>11
    <3>4. CASE asked[k].id \notin no
      <4>1. t[asked[k].con] # 0 /\ asked[k] \in Subs(M) /\ m = AckMsg(asked[k].id, t[asked[k].con])
        BY <3>2, <3>4, <2>7, <2>9, <2>10, <2>11
      <4> QED
        BY <3>4, <4>1, Zenon
    <3> QED
      BY <3>3, <3>4
  <2>15. \A q \in Subs(M) : q.id \in no => RejectMsg(q.id) \in ToSet(wire')
    <3>1. SUFFICES ASSUME NEW q \in Subs(M), q.id \in no
                   PROVE  RejectMsg(q.id) \in ToSet(answers)
      BY <2>13
    <3>2. PICK k \in 1 .. Len(asked) : asked[k] = q
      BY <2>2, InSet
    <3>3. answers[k] = RejectMsg(q.id)
      BY <3>1, <3>2, <2>11
    <3> QED
      BY <3>2, <3>3, <2>12, InSet
  <2>16. \A e \in served' : e \in served \/ e[1] \in DOMAIN entries' \cup stray'
    BY <2>5
  <2>17. /\ served' \subseteq Ids \X Contracts
         /\ \A e \in served' : \/ e \in served /\ ~Cancels(M, e[1])
                               \/ \E q \in Subs(M) : q.id \notin no /\ e = <<q.id, q.con>>
         /\ \A e \in served : ~Cancels(M, e[1]) => e \in served'
         /\ \A q \in Subs(M) : q.id \notin no /\ ~Cancels(M, q.id) => <<q.id, q.con>> \in served'
    BY <1>1, <2>5, ServeOf
  <2>18. stray' \subseteq Ids
    BY <1>2, <2>5, <2>17
  <2>20. \A q \in Subs(M) : q.id \notin no => t[q.con] # 0
    <3>1. TAKE q \in Subs(M)
    <3>2. PICK k \in 1 .. Len(asked) : asked[k] = q
      BY <2>2, InSet
    <3> QED
      BY <3>2, <2>7, <2>9, <2>10
  <2>19. Answered(M, before, no)
    <3>1. tagOf' = t /\ tagOf' \in [Contracts -> Tags \cup {0}]
      BY <2>3, <2>5
    <3>2. \A m \in ToSet(wire') :
             \/ m \in ToSet(before)
             \/ \E q \in Subs(M) : q.id \in no /\ m = RejectMsg(q.id)
             \/ \E q \in Subs(M) : q.id \notin no /\ tagOf'[q.con] # 0 /\ m = AckMsg(q.id, tagOf'[q.con])
      BY ONLY <3>1, <2>13, <2>14, Zenon
    <3>3. /\ \A c \in Contracts : tagOf[c] # 0 => tagOf'[c] = tagOf[c]
          /\ \A c \in Contracts : \A d \in Contracts : tagOf'[c] = tagOf'[d] /\ tagOf'[c] # 0 => c = d
          /\ \A q \in Subs(M) : q.id \notin no => tagOf'[q.con] # 0
      BY ONLY <3>1, <2>6, <2>8, <2>20, Zenon
    <3>4. \A i \in stray : i \in stray'
      BY ONLY <2>5, Zenon
    <3> QED
      BY ONLY <3>1, <3>2, <3>3, <3>4, <2>15, <2>16, <2>17, Zenon DEF Answered
  <2> QED
    BY <1>1, <1>4, <2>3, <2>5, <2>13, <2>17, <2>18, <2>19
<1> QED
  BY <1>3, <1>4

-----------------------------------------------------------------------------
(***************************************************************************)
(* The inductive invariant.                                                *)
(***************************************************************************)
\* Every id was given out.
IdsUsed ==
    /\ \A i \in DOMAIN entries : i < nextId
    /\ \A m \in ToSet(held) : m.id < nextId
    /\ \A e \in served : e[1] < nextId
    /\ \A m \in ToSet(wire) : m.kind # "tick" => m.id < nextId

\* A subscription and its entries are of the contract of their slot, and a
\* contract has one slot.
Registered ==
    /\ \A s \in ToSet(resub) : con[s] # NoContract
    /\ \A i \in DOMAIN entries : entries[i].con = con[entries[i].slot]
    /\ \A s, t \in Slots : con[s] = con[t] /\ con[s] # NoContract => s = t

\* What is served has a tag; without a link nothing is served.
Unserved ==
    /\ \A e \in served : tagOf[e[2]] # 0
    /\ link # "up" => served = {} /\ losses > 0 /\ \A c \in Contracts : tagOf[c] = 0
    /\ link = "down" => wire = <<>>

\* A cancel that waits is of an entry let go; a request that waits was not
\* sent before: it is not served, not answered, and its entry waits.
HeldFresh ==
    \A m \in ToSet(held) :
        /\ m.kind = "cancel" => m.id \notin DOMAIN entries
        /\ m.kind = "sub" =>
             /\ \A e \in served : e[1] # m.id
             /\ \A w \in ToSet(wire) : w.kind # "tick" => w.id # m.id
             /\ m.id \in DOMAIN entries => entries[m.id].waiting /\ entries[m.id].con = m.con

\* The entry of a refusal on its way waits, and no acknowledgement of it is
\* on its way.
Refusals ==
    \A m \in ToSet(wire) : m.kind = "reject" =>
        /\ m.id \in DOMAIN entries => entries[m.id].waiting
        /\ \A w \in ToSet(wire) : w.kind = "ack" => w.id # m.id

\* The tags mean the contracts G: the farm's, the slots', those of freed
\* slots in this session, and those on their way.
Means(G) ==
    /\ G \in [Tags -> Contracts \cup {NoContract}]
    /\ link = "up" => \A t \in Tags, c \in Contracts : G[t] = c <=> tagOf[c] = t
    /\ \A t \in Tags : tags[t] # NoSlot => G[t] = con[tags[t]] /\ G[t] # NoContract
    /\ \A t \in Tags : ended[t].con # NoContract =>
         /\ ended[t].session <= Session
         /\ ended[t].session = Session => G[t] = ended[t].con
    /\ \A m \in ToSet(wire) :
         /\ m.kind = "tick" => G[m.tag] = m.con
         /\ m.kind = "ack" /\ m.id \in DOMAIN entries => G[m.tag] = entries[m.id].con

TagsMean == \E G : Means(G)

\* No quote, shown or kept, is of another contract.
Prices ==
    ~mixed => /\ \A c \in Contracts : kept[c] \in {NoContract, c}
              /\ \A s \in Slots : quote[s] \in {NoContract, con[s]}
              /\ \A s \in Slots : shown[s] \in {NoContract, con[s]}

\* An acknowledged entry has a tag, also while the link is lost.
AckedTagged ==
    \A i \in DOMAIN entries : ~entries[i].waiting =>
        \E t \in Tags : tags[t] # NoSlot /\ con[tags[t]] = entries[i].con

\* What the farm serves is wanted, stray, or its cancel waits.
ServedKnown ==
    \A e \in served : e[1] \in DOMAIN entries \cup stray \/ Cancels(ToSet(held), e[1])

\* A subscription is served, refused, or its request waits.
Asked ==
    link = "up" => \A s \in ToSet(resub) : \E i \in DOMAIN entries :
        /\ entries[i].slot = s
        /\ <<i, con[s]>> \in served \/ RejectMsg(i) \in ToSet(wire) \/ SubMsg(i, con[s]) \in ToSet(held)

Inv ==
    /\ TypeOK /\ IdsUsed /\ Registered /\ Unserved /\ HeldFresh /\ Refusals
    /\ TagsMean /\ Prices /\ AckedTagged /\ ServedKnown /\ Asked

LEMMA InNone == ToSet(<<>>) = {}
  BY DEF ToSet

LEMMA Start == Init => Inv
<1> SUFFICES ASSUME Init PROVE Inv
  OBVIOUS
<1>1. /\ con = [s \in Slots |-> NoContract]
      /\ entries = <<>> /\ resub = <<>> /\ nextId = 1 /\ held = <<>>
      /\ tags = [t \in Tags |-> NoSlot] /\ ended = [t \in Tags |-> NoTag]
      /\ kept = [c \in Contracts |-> NoContract]
      /\ quote = [s \in Slots |-> NoContract] /\ shown = [s \in Slots |-> NoContract]
      /\ refused = {}
      /\ link = "up" /\ served = {} /\ tagOf = [c \in Contracts |-> 0] /\ wire = <<>>
      /\ losses = 0 /\ mixed = FALSE /\ stray = {}
  BY DEF Init
<1>2. DOMAIN entries = {} /\ ToSet(held) = {} /\ ToSet(wire) = {} /\ ToSet(resub) = {}
  BY <1>1, InNone
<1>3. TypeOK
  <2>1. NoTag \in [con : Contracts \cup {NoContract}, session : 0 .. MaxLosses]
    BY Numbers DEF NoTag
  <2>2. /\ con \in [Slots -> Contracts \cup {NoContract}]
        /\ resub \in Seq(Slots) /\ nextId \in 1 .. MaxEntries + 1 /\ held \in Seq(Orders)
        /\ tags \in [Tags -> Slots \cup {NoSlot}]
        /\ kept \in [Contracts -> Contracts \cup {NoContract}]
        /\ quote \in [Slots -> Contracts \cup {NoContract}]
        /\ shown \in [Slots -> Contracts \cup {NoContract}]
    BY <1>1, Numbers
  <2>3. ended \in [Tags -> [con : Contracts \cup {NoContract}, session : 0 .. MaxLosses]]
    BY <1>1, <2>1
  <2>4. /\ refused \subseteq Slots /\ link \in {"up", "lost", "down"}
        /\ served \subseteq Ids \X Contracts /\ tagOf \in [Contracts -> Tags \cup {0}]
        /\ wire \in Seq(Messages) /\ losses \in 0 .. MaxLosses /\ stray \subseteq Ids
    BY <1>1, Numbers
  <2>5. mixed \in BOOLEAN
    BY <1>1
  <2> QED
    BY <1>2, <2>2, <2>3, <2>4, <2>5, Zenon DEF TypeOK
<1>4. IdsUsed
  BY <1>1, <1>2 DEF IdsUsed
<1>5. Registered
  BY <1>1, <1>2 DEF Registered
<1>6. Unserved
  BY <1>1 DEF Unserved
<1>7. HeldFresh /\ Refusals /\ AckedTagged /\ ServedKnown /\ Asked
  BY <1>1, <1>2 DEF HeldFresh, Refusals, AckedTagged, ServedKnown, Asked
<1>8. TagsMean
  <2> DEFINE G == [t \in Tags |-> NoContract]
  <2>0. Tags = 1 .. Cardinality(Contracts)
    BY DEF Tags
  <2>1. \A t \in Tags : t # 0
    BY <2>0
  <2>2. \A t \in Tags : \A c \in Contracts : G[t] = c <=> tagOf[c] = t
    BY <1>1, <2>1, Numbers
  <2>3. \A t \in Tags : tags[t] = NoSlot /\ ended[t].con = NoContract
    BY <1>1 DEF NoTag
  <2>4. Means(G)
    BY <1>2, <2>2, <2>3 DEF Means
  <2> QED
    BY <2>4 DEF TagsMean
<1>9. Prices
  BY <1>1 DEF Prices
<1> QED
  BY <1>3, <1>4, <1>5, <1>6, <1>7, <1>8, <1>9 DEF Inv

-----------------------------------------------------------------------------
(***************************************************************************)
(* The steps keep it.                                                      *)
(***************************************************************************)
LEMMA LinkLostKeeps ==
    ASSUME Inv, LinkLost PROVE Inv'
<1>1. /\ link = "up" /\ losses < MaxLosses
      /\ link' = "lost" /\ losses' = losses + 1
      /\ served' = {} /\ tagOf' = [c \in Contracts |-> 0]
      /\ con' = con /\ entries' = entries /\ resub' = resub /\ nextId' = nextId
      /\ held' = held /\ tags' = tags /\ ended' = ended /\ kept' = kept /\ quote' = quote
      /\ shown' = shown /\ refused' = refused /\ wire' = wire /\ mixed' = mixed /\ stray' = stray
  BY DEF LinkLost, subs, prices, history
<1>2. losses \in 0 .. MaxLosses /\ MaxLosses \in Nat
  BY Numbers DEF Inv, TypeOK
<1>3. losses' \in 0 .. MaxLosses /\ losses' > 0 /\ Session' = Session
  BY <1>1, <1>2 DEF Session
<1>4. TypeOK'
  BY <1>1, <1>3 DEF Inv, TypeOK
<1>5. IdsUsed' /\ Registered' /\ HeldFresh' /\ Refusals'
  BY <1>1 DEF Inv, IdsUsed, Registered, HeldFresh, Refusals
<1>6. Unserved'
  BY <1>1, <1>3 DEF Unserved
<1>7. TagsMean'
  <2>1. PICK G : Means(G)
    BY DEF Inv, TagsMean
  <2>2. Means(G)'
    BY <1>1, <1>3, <2>1 DEF Means
  <2> QED
    BY <2>2 DEF TagsMean
<1>8. Prices' /\ AckedTagged'
  BY <1>1 DEF Inv, Prices, AckedTagged
<1>9. ServedKnown' /\ Asked'
  BY <1>1 DEF ServedKnown, Asked
<1> QED
  BY <1>4, <1>5, <1>6, <1>7, <1>8, <1>9 DEF Inv

LEMMA NoticeLossKeeps ==
    ASSUME Inv, NoticeLoss PROVE Inv'
<1>1. /\ link = "lost" /\ link' = "down" /\ wire' = <<>> /\ entries' = <<>>
      /\ quote' = [s \in Slots |-> IF EntriesOf(s) # {} THEN NoContract ELSE quote[s]]
      /\ tags' = [t \in Tags |-> NoSlot]
      /\ con' = con /\ resub' = resub /\ nextId' = nextId
      /\ held' = held /\ ended' = ended /\ kept' = kept
      /\ shown' = shown /\ refused' = refused /\ mixed' = mixed /\ stray' = stray
      /\ served' = served /\ tagOf' = tagOf /\ losses' = losses
  BY DEF NoticeLoss, FarmLost, history
<1>2. DOMAIN entries' = {} /\ ToSet(wire') = {} /\ Session' = Session
  BY <1>1, InNone DEF Session
<1>3. quote \in [Slots -> Contracts \cup {NoContract}]
  BY DEF Inv, TypeOK
<1>4. \A s \in Slots : quote'[s] \in {NoContract, quote[s]}
  BY <1>1
<1>5. TypeOK'
  <2>1. /\ quote' \in [Slots -> Contracts \cup {NoContract}]
        /\ tags' \in [Tags -> Slots \cup {NoSlot}] /\ wire' \in Seq(Messages)
    BY <1>1, <1>3
  <2> QED
    BY <1>1, <1>2, <2>1 DEF Inv, TypeOK
<1>6. IdsUsed' /\ Registered' /\ HeldFresh' /\ Refusals'
  BY <1>1, <1>2 DEF Inv, IdsUsed, Registered, HeldFresh, Refusals
<1>7. Unserved'
  BY <1>1 DEF Inv, Unserved
<1>8. TagsMean'
  <2>1. PICK G : Means(G)
    BY DEF Inv, TagsMean
  <2>2. Means(G)'
    BY <1>1, <1>2, <2>1 DEF Means
  <2> QED
    BY <2>2 DEF TagsMean
<1>9. Prices'
  BY <1>1, <1>4 DEF Inv, Prices
<1>10. AckedTagged' /\ ServedKnown' /\ Asked'
  BY <1>1, <1>2 DEF Inv, Unserved, AckedTagged, ServedKnown, Asked
<1> QED
  BY <1>5, <1>6, <1>7, <1>8, <1>9, <1>10 DEF Inv

LEMMA FarmTickKeeps ==
    ASSUME Inv, NEW c \in Contracts, FarmTick(c) PROVE Inv'
<1>1. /\ link = "up" /\ \E e \in served : e[2] = c
      /\ wire' = Append(wire, TickMsg(tagOf[c], c))
      /\ con' = con /\ entries' = entries /\ resub' = resub /\ nextId' = nextId
      /\ held' = held /\ tags' = tags /\ ended' = ended /\ kept' = kept /\ quote' = quote
      /\ shown' = shown /\ refused' = refused /\ mixed' = mixed /\ stray' = stray
      /\ link' = link /\ losses' = losses /\ served' = served /\ tagOf' = tagOf
  BY DEF FarmTick, subs, prices, history
<1>2. tagOf[c] \in Tags /\ tagOf \in [Contracts -> Tags \cup {0}]
  <2>1. tagOf[c] # 0
    BY <1>1 DEF Inv, Unserved
  <2> QED
    BY <2>1 DEF Inv, TypeOK
<1>3. PICK n : n = TickMsg(tagOf[c], c)
  OBVIOUS
<1>4. n \in Messages /\ n.kind = "tick" /\ n.tag = tagOf[c] /\ n.con = c
  BY <1>2, <1>3, MessageTypes
<1>5. wire' \in Seq(Messages) /\ ToSet(wire') = ToSet(wire) \cup {n}
  <2>1. wire \in Seq(Messages)
    BY DEF Inv, TypeOK
  <2> QED
    BY <1>1, <1>3, <1>4, <2>1, InAppend
<1>6. TypeOK'
  BY <1>1, <1>5 DEF Inv, TypeOK
<1>7. IdsUsed'
  BY <1>1, <1>4, <1>5 DEF Inv, IdsUsed
<1>8. Registered' /\ Prices' /\ AckedTagged' /\ ServedKnown'
  BY <1>1 DEF Inv, Registered, Prices, AckedTagged, ServedKnown
<1>9. Unserved'
  BY <1>1 DEF Inv, Unserved
<1>10. HeldFresh' /\ Refusals'
  BY <1>1, <1>4, <1>5 DEF Inv, HeldFresh, Refusals
<1>11. TagsMean'
  <2>1. PICK G : Means(G)
    BY DEF Inv, TagsMean
  <2>2. G[n.tag] = n.con
    BY <1>1, <1>2, <1>4, <2>1 DEF Means
  <2>3. Session' = Session
    BY <1>1 DEF Session
  <2>4. Means(G)'
    BY <1>1, <1>4, <1>5, <2>1, <2>2, <2>3 DEF Means
  <2> QED
    BY <2>4 DEF TagsMean
<1>12. Asked'
  BY <1>1, <1>5 DEF Inv, Asked
<1> QED
  BY <1>6, <1>7, <1>8, <1>9, <1>10, <1>11, <1>12 DEF Inv

\* The entries that subscribe_top makes are N, of the slots S, after `have';
\* their requests are M.
NewEntries(N, S, have, M) ==
    /\ \A i \in N : i \in Ids /\ i >= nextId /\ i < nextId'
    /\ DOMAIN entries' = DOMAIN have \cup N
    /\ \A i \in DOMAIN have : entries'[i] = have[i]
    /\ \A i \in N : /\ entries'[i] \in [slot : Slots, con : Contracts, waiting : BOOLEAN]
                    /\ entries'[i].slot \in S
                    /\ entries'[i].con = con'[entries'[i].slot]
                    /\ entries'[i].waiting
    /\ \A s \in S : \E i \in N : entries'[i].slot = s
    /\ \A m : m \in M <=> \E i \in N : m = SubMsg(i, entries'[i].con)

LEMMA Made ==
    ASSUME TypeOK, NEW ss \in Seq(Slots), NEW have, SubscribeTop(ss, have),
           \A i \in DOMAIN have : i \in Ids /\ i < nextId,
           \A s \in ToSet(ss) : con'[s] \in Contracts
    PROVE  /\ nextId' \in 1 .. MaxEntries + 1 /\ nextId' >= nextId
           /\ resub' \in Seq(Slots) /\ ToSet(resub') = ToSet(resub) \cup ToSet(ss)
           /\ SubMsgs(ss) \in Seq(Orders)
           /\ \E N : NewEntries(N, ToSet(ss), have, ToSet(SubMsgs(ss)))
<1>1. /\ nextId \in 1 .. MaxEntries + 1
      /\ nextId' = nextId + Len(ss) /\ nextId' \in 1 .. MaxEntries + 1
      /\ \A i : i \in DOMAIN entries' <=>
                  i \in DOMAIN have \/ \E k \in 1 .. Len(ss) : i = nextId + k - 1
      /\ \A i \in DOMAIN have : entries'[i] = have[i]
      /\ \A k \in 1 .. Len(ss) :
           /\ nextId + k - 1 \in Ids /\ nextId + k - 1 >= nextId /\ nextId + k - 1 < nextId'
           /\ entries'[nextId + k - 1] =
                [slot |-> ss[k], con |-> con'[ss[k]], waiting |-> TRUE]
      /\ resub' \in Seq(Slots) /\ ToSet(resub') = ToSet(resub) \cup ToSet(ss)
  BY Subscribed, Zenon
<1>2. Len(ss) \in Nat /\ nextId \in Nat
  BY <1>1, Numbers
<1>3. nextId' >= nextId
  BY <1>1, <1>2
<1>4. /\ SubMsgs(ss) \in Seq(Orders)
      /\ \A m : m \in ToSet(SubMsgs(ss)) <=>
                  \E k \in 1 .. Len(ss) : m = SubMsg(nextId + k - 1, con'[ss[k]])
  BY <1>1, <1>2, SubMsgsOf
<1>5. /\ \A x : x \in ToSet(ss) <=> \E k \in 1 .. Len(ss) : ss[k] = x
      /\ ToSet(ss) \subseteq Slots
  BY InSet
<1>6. PICK K, at : K = 1 .. Len(ss) /\ at = [k \in K |-> nextId + k - 1]
  OBVIOUS
<1>7. \A k \in K : at[k] = nextId + k - 1
  BY <1>6
<1>8. \A k \in K : /\ at[k] \in Ids /\ at[k] >= nextId /\ at[k] < nextId'
                   /\ entries'[at[k]] = [slot |-> ss[k], con |-> con'[ss[k]], waiting |-> TRUE]
  BY ONLY <1>1, <1>6, <1>7, Zenon
<1>9. \A i : i \in DOMAIN entries' <=> i \in DOMAIN have \/ \E k \in K : i = at[k]
  BY ONLY <1>1, <1>6, <1>7, Zenon
<1>10. \A m : m \in ToSet(SubMsgs(ss)) <=> \E k \in K : m = SubMsg(at[k], con'[ss[k]])
  BY ONLY <1>4, <1>6, <1>7, Zenon
<1>11. PICK N : \A i : i \in N <=> \E k \in K : i = at[k]
  <2> WITNESS {at[k] : k \in K}
  <2> QED
    OBVIOUS
<1>12. \A k \in K : ss[k] \in ToSet(ss) /\ ss[k] \in Slots /\ con'[ss[k]] \in Contracts
  BY <1>5, <1>6
<1>13. \A k \in K : /\ entries'[at[k]] \in [slot : Slots, con : Contracts, waiting : BOOLEAN]
                    /\ entries'[at[k]].slot = ss[k] /\ entries'[at[k]].con = con'[ss[k]]
                    /\ entries'[at[k]].waiting
  <2>1. TAKE k \in K
  <2>2. PICK e : e = entries'[at[k]]
    OBVIOUS
  <2>3. e = [slot |-> ss[k], con |-> con'[ss[k]], waiting |-> TRUE]
    BY <1>8, <2>2
  <2>4. ss[k] \in Slots /\ con'[ss[k]] \in Contracts
    BY <1>12
  <2>5. /\ e \in [slot : Slots, con : Contracts, waiting : BOOLEAN]
        /\ e.slot = ss[k] /\ e.con = con'[ss[k]] /\ e.waiting
    BY ONLY <2>3, <2>4
  <2> QED
    BY ONLY <2>2, <2>5, Zenon
<1>14. \A i \in N : i \in Ids /\ i >= nextId /\ i < nextId'
  <2>1. TAKE i \in N
  <2>2. PICK k \in K : i = at[k]
    BY <1>11
  <2>3. at[k] \in Ids /\ at[k] >= nextId /\ at[k] < nextId'
    BY <1>8
  <2> QED
    BY ONLY <2>2, <2>3
<1>15. DOMAIN entries' = DOMAIN have \cup N
  BY ONLY <1>9, <1>11, Zenon
<1>16. \A i \in N : /\ entries'[i] \in [slot : Slots, con : Contracts, waiting : BOOLEAN]
                    /\ entries'[i].slot \in ToSet(ss)
                    /\ entries'[i].con = con'[entries'[i].slot]
                    /\ entries'[i].waiting
  <2>1. TAKE i \in N
  <2>2. PICK k \in K : i = at[k]
    BY <1>11
  <2>3. ss[k] \in ToSet(ss)
    BY <1>12
  <2> QED
    BY ONLY <1>13, <2>2, <2>3, Zenon
<1>17. ASSUME NEW s \in ToSet(ss) PROVE \E i \in N : entries'[i].slot = s
  <2>1. PICK k \in K : ss[k] = s
    BY <1>5, <1>6
  <2>2. at[k] \in N /\ entries'[at[k]].slot = s
    BY <1>11, <1>13, <2>1, Zenon
  <2> QED
    BY <2>2
<1>18. ASSUME NEW m PROVE m \in ToSet(SubMsgs(ss)) <=> \E i \in N : m = SubMsg(i, entries'[i].con)
  <2>1. \A k \in K : SubMsg(at[k], entries'[at[k]].con) = SubMsg(at[k], con'[ss[k]])
    BY <1>13, Zenon
  <2>2. ASSUME NEW i \in N, m = SubMsg(i, entries'[i].con) PROVE m \in ToSet(SubMsgs(ss))
    <3>1. PICK k \in K : i = at[k]
      BY <1>11
    <3>2. m = SubMsg(at[k], con'[ss[k]])
      BY ONLY <3>1, <2>1, <2>2, Zenon
    <3> QED
      BY ONLY <3>2, <1>10, Zenon
  <2>3. ASSUME m \in ToSet(SubMsgs(ss)) PROVE \E i \in N : m = SubMsg(i, entries'[i].con)
    <3>1. PICK k \in K : m = SubMsg(at[k], con'[ss[k]])
      BY <1>10, <2>3
    <3>2. at[k] \in N /\ m = SubMsg(at[k], entries'[at[k]].con)
      BY ONLY <3>1, <2>1, <1>11, Zenon
    <3> QED
      BY ONLY <3>2, Zenon
  <2> QED
    BY ONLY <2>2, <2>3, Zenon
<1>19. NewEntries(N, ToSet(ss), have, ToSet(SubMsgs(ss)))
  BY <1>1, <1>14, <1>15, <1>16, <1>17, <1>18, Zenon DEF NewEntries
<1> QED
  BY <1>1, <1>3, <1>4, <1>19, Zenon

LEMMA SubscribeKeeps ==
    ASSUME Inv, NEW s \in Slots, NEW c \in Contracts, Subscribe(s, c) PROVE Inv'
<1>1. /\ \A t \in Slots \ {s} : con[t] # c
      /\ con[s] \in {c, NoContract} /\ s \notin ToSet(resub)
      /\ con' = [con EXCEPT ![s] = c]
      /\ SubscribeTop(<<s>>, entries)
      /\ held' = held \o SubMsgs(<<s>>)
      /\ refused' = refused \ {s}
      /\ tags' = tags /\ ended' = ended /\ kept' = kept /\ quote' = quote
      /\ shown' = shown /\ wire' = wire /\ mixed' = mixed /\ stray' = stray
      /\ link' = link /\ losses' = losses /\ served' = served /\ tagOf' = tagOf
  BY DEF Subscribe, prices, farm, history
<1>2. /\ con \in [Slots -> Contracts \cup {NoContract}] /\ DOMAIN entries \subseteq Ids
      /\ held \in Seq(Orders) /\ refused \subseteq Slots
      /\ \A i \in DOMAIN entries : entries[i] \in [slot : Slots, con : Contracts, waiting : BOOLEAN]
      /\ \A i \in DOMAIN entries : i < nextId
      /\ nextId \in Nat
  BY Numbers DEF Inv, TypeOK, IdsUsed
<1>3. con' \in [Slots -> Contracts \cup {NoContract}] /\ con'[s] = c /\ \A t \in Slots \ {s} : con'[t] = con[t]
  BY <1>1, <1>2
<1>4. PICK ss : ss = <<s>>
  OBVIOUS
<1>5. ss \in Seq(Slots) /\ ToSet(ss) = {s}
  <2>1. ss \in Seq(Slots) /\ Len(ss) = 1 /\ ss[1] = s
    BY <1>4
  <2> QED
    BY <2>1, InSet
<1>6. /\ nextId' \in 1 .. MaxEntries + 1 /\ nextId' >= nextId
      /\ resub' \in Seq(Slots) /\ ToSet(resub') = ToSet(resub) \cup {s}
      /\ SubMsgs(ss) \in Seq(Orders)
      /\ \E N : NewEntries(N, {s}, entries, ToSet(SubMsgs(ss)))
  <2>1. TypeOK /\ SubscribeTop(ss, entries)
    BY <1>1, <1>4 DEF Inv
  <2>2. \A t \in ToSet(ss) : con'[t] \in Contracts
    BY <1>3, <1>5
  <2>3. \A i \in DOMAIN entries : i \in Ids /\ i < nextId
    BY <1>2
  <2>4. /\ nextId' \in 1 .. MaxEntries + 1 /\ nextId' >= nextId
        /\ resub' \in Seq(Slots) /\ ToSet(resub') = ToSet(resub) \cup ToSet(ss)
        /\ SubMsgs(ss) \in Seq(Orders)
        /\ \E N : NewEntries(N, ToSet(ss), entries, ToSet(SubMsgs(ss)))
    BY <1>5, <2>1, <2>2, <2>3, Made, Zenon
  <2> QED
    BY <1>5, <2>4
<1>7. PICK N : /\ \A i \in N : i \in Ids /\ i >= nextId /\ i < nextId'
               /\ DOMAIN entries' = DOMAIN entries \cup N
               /\ \A i \in DOMAIN entries : entries'[i] = entries[i]
               /\ \A i \in N : /\ entries'[i] \in [slot : Slots, con : Contracts, waiting : BOOLEAN]
                               /\ entries'[i].slot = s
                               /\ entries'[i].con = c
                               /\ entries'[i].waiting
               /\ \E i \in N : entries'[i].slot = s
               /\ \A m : m \in ToSet(SubMsgs(ss)) <=> \E i \in N : m = SubMsg(i, entries'[i].con)
  BY <1>3, <1>6 DEF NewEntries
<1>8. held' \in Seq(Orders) /\ \A m : m \in ToSet(held') <=> m \in ToSet(held) \/ \E i \in N : m = SubMsg(i, c)
  <2>1. held \o SubMsgs(ss) \in Seq(Orders) /\ ToSet(held \o SubMsgs(ss)) = ToSet(held) \cup ToSet(SubMsgs(ss))
    BY <1>2, <1>6, InConcat
  <2>2. held' = held \o SubMsgs(ss)
    BY <1>1, <1>4
  <2>3. \A m : m \in ToSet(SubMsgs(ss)) <=> \E i \in N : m = SubMsg(i, c)
    BY ONLY <1>7
  <2> QED
    BY <2>1, <2>2, <2>3
<1>9. \A i \in N : i \notin DOMAIN entries
  BY <1>2, <1>7, Numbers
<1>10. \A i : SubMsg(i, c).kind = "sub" /\ SubMsg(i, c).id = i /\ SubMsg(i, c).con = c
  BY MessageTypes
<1>11. TypeOK'
  BY <1>1, <1>2, <1>3, <1>6, <1>7, <1>8 DEF Inv, TypeOK
<1>12. IdsUsed'
  <2>1. nextId \in Int /\ nextId' \in Int
    BY <1>2, <1>6
  <2>2. \A i \in DOMAIN entries' : i < nextId'
    BY <1>2, <1>6, <1>7, <2>1, Numbers
  <2>3. \A i \in Ids : i < nextId => i < nextId'
    BY <1>6, <2>1, Numbers
  <2>4. ToSet(held) \subseteq Orders /\ served \subseteq Ids \X Contracts /\ ToSet(wire) \subseteq Messages
    BY InSet DEF Inv, TypeOK
  <2>5. \A m \in ToSet(held') : m.id < nextId'
    BY <1>7, <1>8, <1>10, <2>3, <2>4 DEF Inv, IdsUsed, Orders
  <2>6. \A e \in served' : e[1] < nextId'
    BY <1>1, <2>3, <2>4 DEF Inv, IdsUsed
  <2>7. \A m \in ToSet(wire') : m.kind # "tick" => m.id < nextId'
    BY <1>1, <2>3, <2>4 DEF Inv, IdsUsed, Messages
  <2> QED
    BY <2>2, <2>5, <2>6, <2>7 DEF IdsUsed
<1>13. Registered'
  <2>1. \A i \in DOMAIN entries : entries[i].slot \in Slots /\ entries[i].con \in Contracts
    BY <1>2
  <2>2. /\ \A t \in ToSet(resub) : con[t] # NoContract
        /\ \A i \in DOMAIN entries : entries[i].con = con[entries[i].slot]
        /\ \A t, u \in Slots : con[t] = con[u] /\ con[t] # NoContract => t = u
    BY DEF Inv, Registered
  <2>3. c # NoContract /\ c \in Contracts
    BY Numbers
  <2>4. ToSet(resub) \subseteq Slots
    BY InSet DEF Inv, TypeOK
  <2>5. \A t \in ToSet(resub') : con'[t] # NoContract
    BY ONLY <1>3, <1>6, <2>2, <2>3, <2>4
  <2>6. \A i \in DOMAIN entries' : entries'[i].con = con'[entries'[i].slot]
    <3>1. \A i \in DOMAIN entries : entries[i].slot = s => entries[i].con = c
      BY ONLY <1>1, <2>1, <2>2, Numbers
    <3>2. \A i \in DOMAIN entries : entries[i].con = con'[entries[i].slot]
      BY ONLY <1>3, <2>1, <2>2, <3>1
    <3> QED
      BY ONLY <1>3, <1>7, <3>2
  <2>7. \A t, u \in Slots : con'[t] = con'[u] /\ con'[t] # NoContract => t = u
    BY ONLY <1>1, <1>3, <2>2
  <2> QED
    BY <2>5, <2>6, <2>7 DEF Registered
<1>14. Unserved'
  BY <1>1 DEF Inv, Unserved
<1>15. HeldFresh'
  <2>1. SUFFICES ASSUME NEW m \in ToSet(held')
                 PROVE  /\ m.kind = "cancel" => m.id \notin DOMAIN entries'
                        /\ m.kind = "sub" =>
                          /\ \A e \in served : e[1] # m.id
                          /\ \A w \in ToSet(wire) : w.kind # "tick" => w.id # m.id
                          /\ m.id \in DOMAIN entries' => entries'[m.id].waiting /\ entries'[m.id].con = m.con
    BY <1>1 DEF HeldFresh
  <2>2. CASE m \in ToSet(held)
    <3>1. m.id \notin N
      BY <2>2, <1>2, <1>7, Numbers DEF Inv, IdsUsed
    <3> QED
      BY <2>2, <3>1, <1>7 DEF Inv, HeldFresh
  <2>3. ASSUME NEW i \in N, m = SubMsg(i, c) PROVE m.kind = "sub" /\ m.id = i /\ m.con = c /\ i >= nextId /\ i \in Int
    BY <2>3, <1>7, <1>10, Numbers
  <2>4. CASE m \notin ToSet(held)
    <3>1. PICK i \in N : m = SubMsg(i, c)
      BY <2>4, <1>8
    <3>2. m.kind = "sub" /\ m.id = i /\ m.con = c /\ i >= nextId /\ i \in Int
      BY <2>3, <3>1
    <3>3. \A e \in served : e[1] # i
      BY <3>2, <1>2 DEF Inv, IdsUsed
    <3>4. \A w \in ToSet(wire) : w.kind # "tick" => w.id # i
      BY <3>2, <1>2 DEF Inv, IdsUsed
    <3> QED
      BY <3>2, <3>3, <3>4, <1>7
  <2> QED
    BY <2>2, <2>4
<1>16. Refusals'
  BY <1>1, <1>7 DEF Inv, Refusals
<1>17. TagsMean'
  <2>1. PICK G : Means(G)
    BY DEF Inv, TagsMean
  <2>2. Session' = Session
    BY <1>1 DEF Session
  <2>3. \A m \in ToSet(wire) : m.kind = "ack" => m.id \notin N
    <3>1. \A m \in ToSet(wire) : m.kind = "ack" => m.id < nextId
      BY DEF Inv, IdsUsed
    <3> QED
      BY <3>1, <1>2, <1>7, Numbers
  <2>4. \A m \in ToSet(wire) : m.kind = "ack" /\ m.id \in DOMAIN entries' => G[m.tag] = entries'[m.id].con
    BY <2>1, <2>3, <1>7 DEF Means
  <2>5. tags \in [Tags -> Slots \cup {NoSlot}]
    BY DEF Inv, TypeOK
  <2>6. \A t \in Tags : tags[t] # NoSlot => G[t] = con'[tags[t]]
    BY <1>1, <1>3, <2>1, <2>5 DEF Means
  <2>7. Means(G)'
    BY <1>1, <2>1, <2>2, <2>4, <2>6 DEF Means
  <2> QED
    BY <2>7 DEF TagsMean
<1>18. Prices'
  BY <1>1, <1>3 DEF Inv, Prices
<1>19. AckedTagged'
  <2>1. SUFFICES ASSUME NEW i \in DOMAIN entries', ~entries'[i].waiting
                 PROVE  \E t \in Tags : tags[t] # NoSlot /\ con'[tags[t]] = entries'[i].con
    BY <1>1 DEF AckedTagged
  <2>2. i \in DOMAIN entries /\ entries'[i] = entries[i]
    BY <1>7, <2>1
  <2>3. PICK t \in Tags : tags[t] # NoSlot /\ con[tags[t]] = entries[i].con
    BY <2>1, <2>2 DEF Inv, AckedTagged
  <2>4. tags[t] \in Slots /\ entries[i].con \in Contracts
    BY <1>2, <2>2, <2>3 DEF Inv, TypeOK
  <2>5. con'[tags[t]] = con[tags[t]]
    BY <1>1, <1>3, <2>3, <2>4, Numbers
  <2> QED
    BY <2>2, <2>3, <2>5
<1>20. ServedKnown'
  BY <1>1, <1>7, <1>8 DEF Inv, ServedKnown, Cancels
<1>21. Asked'
  <2>1. SUFFICES ASSUME link = "up", NEW t \in ToSet(resub')
                 PROVE  \E i \in DOMAIN entries' :
                          /\ entries'[i].slot = t
                          /\ \/ <<i, con'[t]>> \in served \/ RejectMsg(i) \in ToSet(wire)
                             \/ SubMsg(i, con'[t]) \in ToSet(held')
    BY <1>1 DEF Asked
  <2>2. CASE t = s
    <3>1. PICK i \in N : entries'[i].slot = s
      BY <1>7
    <3>2. i \in DOMAIN entries' /\ SubMsg(i, con'[t]) \in ToSet(held')
      BY <2>2, <3>1, <1>3, <1>7, <1>8
    <3> QED
      BY <2>2, <3>1, <3>2
  <2>3. CASE t # s
    <3>1. t \in ToSet(resub) /\ t \in Slots /\ con'[t] = con[t]
      <4>1. t \in ToSet(resub) /\ resub \in Seq(Slots)
        BY <2>3, <1>6 DEF Inv, TypeOK
      <4> QED
        BY <2>3, <4>1, <1>3, InSet
    <3>2. PICK i \in DOMAIN entries :
             /\ entries[i].slot = t
             /\ <<i, con[t]>> \in served \/ RejectMsg(i) \in ToSet(wire) \/ SubMsg(i, con[t]) \in ToSet(held)
      BY <2>1, <3>1 DEF Inv, Asked
    <3> QED
      BY <3>1, <3>2, <1>7, <1>8
  <2> QED
    BY <2>2, <2>3
<1> QED
  BY <1>11, <1>12, <1>13, <1>14, <1>15, <1>16, <1>17, <1>18, <1>19, <1>20, <1>21 DEF Inv

\* The entries of the slots are forgotten.
LEMMA WithoutOf ==
    ASSUME NEW S
    PROVE  /\ \A i : i \in DOMAIN Without(S) <=> i \in DOMAIN entries /\ entries[i].slot \notin S
           /\ \A i \in DOMAIN Without(S) : Without(S)[i] = entries[i]
  BY DEF Without

LEMMA UnsubscribeKeeps ==
    ASSUME Inv, NEW s \in Slots, NEW reclaimed \in BOOLEAN, Unsubscribe(s, reclaimed) PROVE Inv'
<1>1. /\ con[s] # NoContract
      /\ resub' = Kept(resub, Slots \ {s})
      /\ entries' = Without({s})
      /\ held' = held \o CancelMsgs({s})
      /\ nextId' = nextId /\ refused' = refused /\ wire' = wire /\ mixed' = mixed /\ stray' = stray
      /\ link' = link /\ losses' = losses /\ served' = served /\ tagOf' = tagOf
  BY DEF Unsubscribe, farm, history
<1>2. /\ con \in [Slots -> Contracts \cup {NoContract}] /\ DOMAIN entries \subseteq Ids
      /\ resub \in Seq(Slots) /\ held \in Seq(Orders)
      /\ \A i \in DOMAIN entries : entries[i] \in [slot : Slots, con : Contracts, waiting : BOOLEAN]
      /\ tags \in [Tags -> Slots \cup {NoSlot}]
      /\ ended \in [Tags -> [con : Contracts \cup {NoContract}, session : 0 .. MaxLosses]]
      /\ kept \in [Contracts -> Contracts \cup {NoContract}]
      /\ quote \in [Slots -> Contracts \cup {NoContract}]
      /\ shown \in [Slots -> Contracts \cup {NoContract}]
  BY DEF Inv, TypeOK
<1>3. Session' = Session /\ Session \in 0 .. MaxLosses
  BY <1>1, Numbers DEF Inv, TypeOK, Unserved, Session
<1>4. /\ \A i : i \in DOMAIN entries' <=> i \in DOMAIN entries /\ entries[i].slot # s
      /\ \A i \in DOMAIN entries' : entries'[i] = entries[i]
  BY <1>1, WithoutOf
<1>5. resub' \in Seq(Slots) /\ ToSet(resub') = ToSet(resub) \cap (Slots \ {s})
  BY <1>1, <1>2, InKept
<1>6. PICK M : M = ToSet(CancelMsgs({s}))
  OBVIOUS
<1>7. \A m : m \in M <=> \E i \in DOMAIN entries : entries[i].slot = s /\ m = CancelMsg(i, entries[i].con)
  BY <1>6, CancelMsgsOf DEF Inv
<1>8. held' \in Seq(Orders) /\ ToSet(held') = ToSet(held) \cup M
  <2>1. CancelMsgs({s}) \in Seq(Orders)
    BY CancelMsgsOf DEF Inv
  <2> QED
    BY <1>1, <1>2, <1>6, <2>1, InConcat
<1>9. \A m \in M : m.kind = "cancel" /\ \E i \in DOMAIN entries : entries[i].slot = s /\ m.id = i
  <2>1. TAKE m \in M
  <2>2. PICK i \in DOMAIN entries : entries[i].slot = s /\ m = CancelMsg(i, entries[i].con)
    BY <1>7
  <2>3. m.kind = "cancel" /\ m.id = i
    BY <2>2, MessageTypes
  <2> QED
    BY <2>2, <2>3
<1>10. \A i \in DOMAIN entries : entries[i].slot = s => \E m \in M : m.kind = "cancel" /\ m.id = i
  <2>1. SUFFICES ASSUME NEW i \in DOMAIN entries, entries[i].slot = s
                 PROVE  \E m \in M : m.kind = "cancel" /\ m.id = i
    OBVIOUS
  <2>2. CancelMsg(i, entries[i].con) \in M
    BY <2>1, <1>7
  <2> QED
    BY <2>2, MessageTypes
\* The slot, kept or freed.
<1>11. /\ con' \in [Slots -> Contracts \cup {NoContract}] /\ con'[s] \in {con[s], NoContract}
       /\ \A t \in Slots \ {s} : con'[t] = con[t]
       /\ tags' \in [Tags -> Slots \cup {NoSlot}]
       /\ \A t \in Tags : (tags'[t] = tags[t] /\ (tags[t] = s => con'[s] = con[s])) \/ (tags[t] = s /\ tags'[t] = NoSlot)
       /\ ended' \in [Tags -> [con : Contracts \cup {NoContract}, session : 0 .. MaxLosses]]
       /\ \A t \in Tags : ended'[t] = ended[t] \/ (tags[t] = s /\ ended'[t] = [con |-> con[s], session |-> Session])
       /\ kept' \in [Contracts -> Contracts \cup {NoContract}]
       /\ \A c \in Contracts : kept'[c] = kept[c] \/ (c = con[s] /\ kept'[c] = quote[s])
       /\ quote' \in [Slots -> Contracts \cup {NoContract}]
       /\ \A t \in Slots : quote'[t] = NoContract \/ (quote'[t] = quote[t] /\ con'[t] = con[t])
       /\ shown' \in [Slots -> Contracts \cup {NoContract}]
       /\ \A t \in Slots : shown'[t] = NoContract \/ (shown'[t] = shown[t] /\ con'[t] = con[t])
  <2>1. CASE reclaimed
    <3>1. /\ con' = [con EXCEPT ![s] = NoContract]
          /\ ended' = [t \in Tags |-> IF tags[t] = s THEN [con |-> con[s], session |-> Session] ELSE ended[t]]
          /\ tags' = [t \in Tags |-> IF tags[t] = s THEN NoSlot ELSE tags[t]]
          /\ kept' = IF quote[s] # NoContract THEN [kept EXCEPT ![con[s]] = quote[s]] ELSE kept
          /\ quote' = [quote EXCEPT ![s] = NoContract]
          /\ shown' = [shown EXCEPT ![s] = NoContract]
      BY <2>1 DEF Unsubscribe, Unregister
    <3>2. [con |-> con[s], session |-> Session] \in [con : Contracts \cup {NoContract}, session : 0 .. MaxLosses]
      BY <1>2, <1>3
    <3>3. /\ con' \in [Slots -> Contracts \cup {NoContract}] /\ con'[s] = NoContract
          /\ \A t \in Slots \ {s} : con'[t] = con[t]
      BY <1>2, <3>1
    <3>4. /\ tags' \in [Tags -> Slots \cup {NoSlot}]
          /\ \A t \in Tags : (tags[t] # s /\ tags'[t] = tags[t]) \/ (tags[t] = s /\ tags'[t] = NoSlot)
      <4>1. /\ tags' = [t \in Tags |-> IF tags[t] = s THEN NoSlot ELSE tags[t]]
            /\ tags \in [Tags -> Slots \cup {NoSlot}]
        BY <1>2, <3>1
      <4> QED
        BY ONLY <4>1
    <3>5. /\ ended' \in [Tags -> [con : Contracts \cup {NoContract}, session : 0 .. MaxLosses]]
          /\ \A t \in Tags : ended'[t] = ended[t] \/ (tags[t] = s /\ ended'[t] = [con |-> con[s], session |-> Session])
      <4>1. PICK E, new : /\ E = [con : Contracts \cup {NoContract}, session : 0 .. MaxLosses]
                          /\ new = [con |-> con[s], session |-> Session]
        OBVIOUS
      <4>2. /\ ended' = [t \in Tags |-> IF tags[t] = s THEN new ELSE ended[t]]
            /\ ended \in [Tags -> E] /\ new \in E
        BY <1>2, <3>1, <3>2, <4>1
      <4>3. ended' \in [Tags -> E] /\ \A t \in Tags : ended'[t] = ended[t] \/ (tags[t] = s /\ ended'[t] = new)
        BY ONLY <4>2
      <4> QED
        BY ONLY <4>1, <4>3, Zenon
    <3>6. /\ kept' \in [Contracts -> Contracts \cup {NoContract}]
          /\ \A c \in Contracts : kept'[c] = kept[c] \/ (c = con[s] /\ kept'[c] = quote[s])
      <4>1. con[s] \in Contracts /\ quote[s] \in Contracts \cup {NoContract}
        BY <1>1, <1>2
      <4>2. /\ kept' = IF quote[s] # NoContract THEN [kept EXCEPT ![con[s]] = quote[s]] ELSE kept
            /\ kept \in [Contracts -> Contracts \cup {NoContract}]
        BY <1>2, <3>1
      <4> QED
        BY ONLY <4>1, <4>2
    <3>7. /\ quote' \in [Slots -> Contracts \cup {NoContract}]
          /\ \A t \in Slots : quote'[t] = NoContract \/ (quote'[t] = quote[t] /\ t # s)
      <4>1. quote' = [quote EXCEPT ![s] = NoContract] /\ quote \in [Slots -> Contracts \cup {NoContract}]
        BY <1>2, <3>1
      <4> QED
        BY ONLY <4>1
    <3>8. /\ shown' \in [Slots -> Contracts \cup {NoContract}]
          /\ \A t \in Slots : shown'[t] = NoContract \/ (shown'[t] = shown[t] /\ t # s)
      <4>1. shown' = [shown EXCEPT ![s] = NoContract] /\ shown \in [Slots -> Contracts \cup {NoContract}]
        BY <1>2, <3>1
      <4> QED
        BY ONLY <4>1
    <3>9. /\ \A t \in Slots : quote'[t] = NoContract \/ (quote'[t] = quote[t] /\ con'[t] = con[t])
          /\ \A t \in Slots : shown'[t] = NoContract \/ (shown'[t] = shown[t] /\ con'[t] = con[t])
      BY ONLY <3>3, <3>7, <3>8
    <3> QED
      BY <3>3, <3>4, <3>5, <3>6, <3>7, <3>8, <3>9, Zenon
  <2>2. CASE ~reclaimed
    <3>1. /\ con' = con /\ tags' = tags /\ ended' = ended /\ kept' = kept /\ quote' = quote /\ shown' = shown
      BY <2>2 DEF Unsubscribe, prices
    <3> QED
      BY ONLY <1>2, <3>1, Zenon
  <2> QED
    BY <2>1, <2>2
<1>12. TypeOK'
  <2>1. DOMAIN entries' \subseteq Ids
        /\ \A i \in DOMAIN entries' : entries'[i] \in [slot : Slots, con : Contracts, waiting : BOOLEAN]
    BY <1>2, <1>4
  <2>2. /\ nextId \in 1 .. MaxEntries + 1 /\ refused \subseteq Slots
        /\ link \in {"up", "lost", "down"}
        /\ served \subseteq Ids \X Contracts /\ tagOf \in [Contracts -> Tags \cup {0}]
        /\ wire \in Seq(Messages) /\ losses \in 0 .. MaxLosses
        /\ mixed \in BOOLEAN /\ stray \subseteq Ids
    BY DEF Inv, TypeOK
  <2> QED
    BY <1>1, <1>5, <1>8, <1>11, <2>1, <2>2, Zenon DEF TypeOK
<1>13. IdsUsed'
  BY <1>1, <1>4, <1>8, <1>9 DEF Inv, IdsUsed
<1>14. \A i \in DOMAIN entries' : entries[i].slot \in Slots \ {s} /\ con'[entries[i].slot] = con[entries[i].slot]
  BY <1>2, <1>4, <1>11
<1>15. Registered'
  <2>1. \A t \in ToSet(resub') : con'[t] # NoContract
    BY <1>5, <1>11 DEF Inv, Registered
  <2>2. \A i \in DOMAIN entries' : entries'[i].con = con'[entries'[i].slot]
    BY <1>4, <1>14 DEF Inv, Registered
  <2>3. \A t, u \in Slots : con'[t] = con'[u] /\ con'[t] # NoContract => t = u
    BY <1>11 DEF Inv, Registered
  <2> QED
    BY <2>1, <2>2, <2>3 DEF Registered
<1>16. Unserved'
  BY <1>1 DEF Inv, Unserved
<1>17. HeldFresh'
  <2>1. \A m \in ToSet(held') : m \in ToSet(held) \/ (m.kind = "cancel" /\ m.id \notin DOMAIN entries')
    BY <1>4, <1>8, <1>9
  <2>2. HeldFresh
    BY DEF Inv
  <2>3. "cancel" # "sub"
    OBVIOUS
  <2> QED
    BY ONLY <1>1, <1>4, <2>1, <2>2, <2>3 DEF HeldFresh
<1>18. Refusals'
  BY <1>1, <1>4 DEF Inv, Refusals
<1>19. TagsMean'
  <2>1. PICK G : Means(G)
    BY DEF Inv, TagsMean
  <2>2. \A t \in Tags : tags'[t] # NoSlot => G[t] = con'[tags'[t]] /\ G[t] # NoContract
    <3>1. SUFFICES ASSUME NEW t \in Tags, tags'[t] # NoSlot
                   PROVE  G[t] = con'[tags'[t]] /\ G[t] # NoContract
      OBVIOUS
    <3>2. tags'[t] = tags[t] /\ tags[t] \in Slots /\ (tags[t] = s => con'[s] = con[s])
      BY <1>2, <1>11, <3>1
    <3>3. con'[tags[t]] = con[tags[t]]
      BY <1>11, <3>2
    <3> QED
      BY <2>1, <3>1, <3>2, <3>3 DEF Means
  <2>3. \A t \in Tags : ended'[t].con # NoContract =>
         /\ ended'[t].session <= Session
         /\ ended'[t].session = Session => G[t] = ended'[t].con
    <3>1. TAKE t \in Tags
    <3>2. CASE ended'[t] = ended[t]
      BY <2>1, <3>2 DEF Means
    <3>3. CASE tags[t] = s /\ ended'[t] = [con |-> con[s], session |-> Session]
      <4>1. ended'[t].con = con[s] /\ ended'[t].session = Session
        BY <3>3
      <4>2. G[t] = con[s]
        BY <2>1, <3>3, Numbers DEF Means
      <4> QED
        BY <1>3, <4>1, <4>2
    <3> QED
      BY <1>11, <3>2, <3>3
  <2>4. \A m \in ToSet(wire) :
         /\ m.kind = "tick" => G[m.tag] = m.con
         /\ m.kind = "ack" /\ m.id \in DOMAIN entries' => G[m.tag] = entries'[m.id].con
    BY <2>1, <1>4 DEF Means
  <2>5. Means(G)'
    BY <1>1, <1>3, <2>1, <2>2, <2>3, <2>4 DEF Means
  <2> QED
    BY <2>5 DEF TagsMean
<1>20. Prices'
  <2>1. SUFFICES ASSUME ~mixed
                 PROVE  /\ \A c \in Contracts : kept'[c] \in {NoContract, c}
                        /\ \A t \in Slots : quote'[t] \in {NoContract, con'[t]}
                        /\ \A t \in Slots : shown'[t] \in {NoContract, con'[t]}
    BY <1>1 DEF Prices
  <2>2. /\ \A c \in Contracts : kept[c] \in {NoContract, c}
        /\ \A t \in Slots : quote[t] \in {NoContract, con[t]}
        /\ \A t \in Slots : shown[t] \in {NoContract, con[t]}
    BY <2>1 DEF Inv, Prices
  <2> QED
    BY <1>11, <2>2
<1>21. AckedTagged'
  <2>1. SUFFICES ASSUME NEW i \in DOMAIN entries', ~entries'[i].waiting
                 PROVE  \E t \in Tags : tags'[t] # NoSlot /\ con'[tags'[t]] = entries'[i].con
    BY DEF AckedTagged
  <2>2. i \in DOMAIN entries /\ entries'[i] = entries[i]
    BY <1>4
  <2>3. PICK t \in Tags : tags[t] # NoSlot /\ con[tags[t]] = entries[i].con
    BY <2>1, <2>2 DEF Inv, AckedTagged
  <2>4. entries[i].con = con[entries[i].slot] /\ entries[i].slot \in Slots \ {s} /\ entries[i].con \in Contracts
    BY <1>2, <1>14, <2>2 DEF Inv, Registered
  <2>5. tags[t] \in Slots /\ tags[t] # s
    BY <1>2, <2>3, <2>4, Numbers DEF Inv, Registered
  <2> QED
    BY <1>11, <2>2, <2>3, <2>5
<1>22. ServedKnown'
  BY <1>1, <1>4, <1>8, <1>10 DEF Inv, ServedKnown, Cancels
<1>23. Asked'
  <2>1. SUFFICES ASSUME link = "up", NEW t \in ToSet(resub')
                 PROVE  \E i \in DOMAIN entries' :
                          /\ entries'[i].slot = t
                          /\ \/ <<i, con'[t]>> \in served \/ RejectMsg(i) \in ToSet(wire)
                             \/ SubMsg(i, con'[t]) \in ToSet(held')
    BY <1>1 DEF Asked
  <2>2. t \in ToSet(resub) /\ t \in Slots \ {s} /\ con'[t] = con[t]
    BY <1>5, <1>11
  <2>3. PICK i \in DOMAIN entries :
             /\ entries[i].slot = t
             /\ <<i, con[t]>> \in served \/ RejectMsg(i) \in ToSet(wire) \/ SubMsg(i, con[t]) \in ToSet(held)
    BY <2>1, <2>2 DEF Inv, Asked
  <2> QED
    BY <2>2, <2>3, <1>4, <1>8
<1> QED
  BY <1>12, <1>13, <1>15, <1>16, <1>17, <1>18, <1>19, <1>20, <1>21, <1>22, <1>23 DEF Inv

\* The message that is read, and those behind it.
LEMMA FirstRead ==
    ASSUME Inv, wire # <<>>
    PROVE  /\ Head(wire) \in Messages /\ Tail(wire) \in Seq(Messages)
           /\ Head(wire) \in ToSet(wire) /\ ToSet(Tail(wire)) \subseteq ToSet(wire)
           /\ \A m \in ToSet(wire) : m = Head(wire) \/ m \in ToSet(Tail(wire))
  BY InTail DEF Inv, TypeOK

\* What was asked stays asked when no refusal of it is read.
LEMMA AskedStays ==
    ASSUME Inv, con' = con, link' = link, served' = served, held' = held, ToSet(resub') \subseteq ToSet(resub),
           DOMAIN entries' = DOMAIN entries, \A i \in DOMAIN entries : entries'[i].slot = entries[i].slot,
           \A i \in DOMAIN entries : entries[i].slot \in ToSet(resub') =>
              (RejectMsg(i) \in ToSet(wire) => RejectMsg(i) \in ToSet(wire'))
    PROVE  Asked'
<1>1. SUFFICES ASSUME link = "up", NEW t \in ToSet(resub')
               PROVE  \E i \in DOMAIN entries' :
                        /\ entries'[i].slot = t
                        /\ \/ <<i, con[t]>> \in served \/ RejectMsg(i) \in ToSet(wire')
                           \/ SubMsg(i, con[t]) \in ToSet(held)
  BY DEF Asked
<1>2. PICK i \in DOMAIN entries :
           /\ entries[i].slot = t
           /\ <<i, con[t]>> \in served \/ RejectMsg(i) \in ToSet(wire) \/ SubMsg(i, con[t]) \in ToSet(held)
  BY <1>1 DEF Inv, Asked
<1>3. i \in DOMAIN entries' /\ entries'[i].slot = t
  BY <1>2
<1>4. RejectMsg(i) \in ToSet(wire) => RejectMsg(i) \in ToSet(wire')
  BY <1>2
<1> QED
  BY ONLY <1>2, <1>3, <1>4, Zenon

LEMMA ReadTickKeeps ==
    ASSUME Inv, wire # <<>>, NEW n, n = Head(wire), n.kind = "tick", ReadTick(n.tag, n.con),
           held' = held, link' = link, losses' = losses
    PROVE  Inv'
<1>1. PICK W : W = ToSet(wire')
  OBVIOUS
<1>2. /\ wire' = Tail(wire) /\ con' = con /\ tags' = tags /\ ended' = ended
      /\ entries' = entries /\ resub' = resub /\ nextId' = nextId
      /\ refused' = refused /\ served' = served /\ tagOf' = tagOf /\ stray' = stray
  BY DEF ReadTick, subs
<1>3. /\ n \in Messages /\ wire' \in Seq(Messages)
      /\ n \in ToSet(wire) /\ ToSet(wire') \subseteq ToSet(wire)
      /\ \A m \in ToSet(wire) : m = n \/ m \in ToSet(wire')
  BY <1>2, FirstRead
<1>4. n.tag \in Tags /\ n.con \in Contracts
  BY <1>3 DEF Messages
<1>5. PICK t, d, c : t = n.tag /\ d = n.con /\ c = ended[t].con
  OBVIOUS
<1>6. t \in Tags /\ d \in Contracts
  BY <1>4, <1>5
<1>7. /\ con \in [Slots -> Contracts \cup {NoContract}]
      /\ tags \in [Tags -> Slots \cup {NoSlot}]
      /\ ended \in [Tags -> [con : Contracts \cup {NoContract}, session : 0 .. MaxLosses]]
      /\ kept \in [Contracts -> Contracts \cup {NoContract}]
      /\ quote \in [Slots -> Contracts \cup {NoContract}]
      /\ shown \in [Slots -> Contracts \cup {NoContract}]
      /\ mixed \in BOOLEAN
  BY DEF Inv, TypeOK
<1>8. Session' = Session
  BY DEF Session
<1>9. PICK G : Means(G)
  BY DEF Inv, TagsMean
<1>10. G[t] = d
  BY <1>3, <1>5, <1>9 DEF Means
<1>11. /\ tags[t] # NoSlot =>
            /\ quote' = [quote EXCEPT ![tags[t]] = d] /\ shown' = [shown EXCEPT ![tags[t]] = d]
            /\ kept' = kept /\ mixed' = mixed
       /\ tags[t] = NoSlot =>
            /\ quote' = quote /\ shown' = shown
            /\ (c # NoContract /\ kept[c] # NoContract) =>
                 kept' = [kept EXCEPT ![c] = d] /\ mixed' = (mixed \/ ended[t].session # Session)
            /\ ~(c # NoContract /\ kept[c] # NoContract) => kept' = kept /\ mixed' = mixed
  BY <1>5, Zenon DEF ReadTick
<1>12. c \in Contracts \cup {NoContract}
  BY <1>5, <1>6, <1>7
<1>13. /\ quote' \in [Slots -> Contracts \cup {NoContract}] /\ shown' \in [Slots -> Contracts \cup {NoContract}]
       /\ \A s \in Slots : quote'[s] = quote[s] \/ (tags[t] = s /\ quote'[s] = d)
       /\ \A s \in Slots : shown'[s] = shown[s] \/ (tags[t] = s /\ shown'[s] = d)
  <2>1. CASE tags[t] # NoSlot
    <3>1. quote' = [quote EXCEPT ![tags[t]] = d] /\ quote \in [Slots -> Contracts \cup {NoContract}]
      BY <1>7, <1>11, <2>1
    <3>2. shown' = [shown EXCEPT ![tags[t]] = d] /\ shown \in [Slots -> Contracts \cup {NoContract}]
      BY <1>7, <1>11, <2>1
    <3>3. /\ quote' \in [Slots -> Contracts \cup {NoContract}]
          /\ \A s \in Slots : quote'[s] = quote[s] \/ (tags[t] = s /\ quote'[s] = d)
      BY ONLY <3>1, <1>6
    <3>4. /\ shown' \in [Slots -> Contracts \cup {NoContract}]
          /\ \A s \in Slots : shown'[s] = shown[s] \/ (tags[t] = s /\ shown'[s] = d)
      BY ONLY <3>2, <1>6
    <3> QED
      BY <3>3, <3>4
  <2>2. CASE tags[t] = NoSlot
    BY <1>7, <1>11, <2>2
  <2> QED
    BY <2>1, <2>2
<1>14. ASSUME ~(tags[t] = NoSlot /\ c # NoContract /\ kept[c] # NoContract)
       PROVE  TypeOK' /\ Prices'
  <2>1. kept' = kept /\ mixed' = mixed
    BY <1>11, <1>14
  <2>2. TypeOK'
    BY <1>2, <1>3, <1>13, <2>1 DEF Inv, TypeOK
  <2>3. Prices'
    <3>1. SUFFICES ASSUME ~mixed
                   PROVE  /\ \A b \in Contracts : kept[b] \in {NoContract, b}
                          /\ \A s \in Slots : quote'[s] \in {NoContract, con[s]}
                          /\ \A s \in Slots : shown'[s] \in {NoContract, con[s]}
      BY <1>2, <2>1 DEF Prices
    <3>2. \A s \in Slots : tags[t] = s => con[s] = d
      BY <1>6, <1>9, <1>10, Numbers DEF Means
    <3> QED
      BY <1>13, <3>1, <3>2 DEF Inv, Prices
  <2> QED
    BY <2>2, <2>3
<1>15. ASSUME tags[t] = NoSlot /\ c # NoContract /\ kept[c] # NoContract
       PROVE  TypeOK' /\ Prices'
  <2>1. /\ kept' = [kept EXCEPT ![c] = d] /\ mixed' = (mixed \/ ended[t].session # Session)
        /\ quote' = quote /\ shown' = shown
    BY <1>11, <1>15, Zenon
  <2>2. kept' \in [Contracts -> Contracts \cup {NoContract}] /\ \A b \in Contracts : kept'[b] = kept[b] \/ (b = c /\ kept'[b] = d)
    <3>1. kept \in [Contracts -> Contracts \cup {NoContract}] /\ c \in Contracts
      BY <1>7, <1>12, <1>15
    <3> QED
      BY ONLY <2>1, <3>1, <1>6
  <2>3. mixed' \in BOOLEAN
    BY <2>1, Zenon
  <2>4. TypeOK'
    BY <1>2, <1>3, <1>7, <2>1, <2>2, <2>3 DEF Inv, TypeOK
  <2>5. Prices'
    <3>1. SUFFICES ASSUME ~mixed'
                   PROVE  /\ \A b \in Contracts : kept'[b] \in {NoContract, b}
                          /\ \A s \in Slots : quote[s] \in {NoContract, con[s]}
                          /\ \A s \in Slots : shown[s] \in {NoContract, con[s]}
      BY <1>2, <2>1 DEF Prices
    <3>2. ~mixed /\ ended[t].session = Session
      BY <3>1, <2>1, Zenon
    <3>3. d = c
      BY <1>5, <1>6, <1>9, <1>10, <1>15, <3>2 DEF Means
    <3> QED
      BY <2>2, <3>2, <3>3 DEF Inv, Prices
  <2> QED
    BY <2>4, <2>5
<1>16. TypeOK' /\ Prices'
  BY <1>14, <1>15
<1>17. IdsUsed' /\ Registered' /\ AckedTagged' /\ ServedKnown'
  BY <1>2, <1>3 DEF Inv, IdsUsed, Registered, AckedTagged, ServedKnown
<1>18. Unserved'
  <2>1. link # "down"
    BY DEF Inv, Unserved
  <2> QED
    BY <1>2, <2>1 DEF Inv, Unserved
<1>19. HeldFresh' /\ Refusals'
  BY <1>2, <1>3 DEF Inv, HeldFresh, Refusals
<1>20. TagsMean'
  <2>1. Means(G)'
    BY <1>2, <1>3, <1>8, <1>9 DEF Means
  <2> QED
    BY <2>1 DEF TagsMean
<1>21. Asked'
  <2>1. \A i : RejectMsg(i) \in ToSet(wire) => RejectMsg(i) \in ToSet(wire')
    BY <1>3, MessageTypes
  <2> QED
    BY <1>2, <2>1, AskedStays
<1> QED
  BY <1>16, <1>17, <1>18, <1>19, <1>20, <1>21 DEF Inv

LEMMA ReadAckKeeps ==
    ASSUME Inv, wire # <<>>, NEW n, n = Head(wire), n.kind = "ack", ReadAck(n.id, n.tag),
           held' = held, link' = link, losses' = losses
    PROVE  Inv'
<1>2. /\ wire' = Tail(wire) /\ con' = con /\ resub' = resub /\ nextId' = nextId
      /\ refused' = refused /\ served' = served /\ tagOf' = tagOf /\ mixed' = mixed /\ stray' = stray
  BY DEF ReadAck, history
<1>3. /\ n \in Messages /\ wire' \in Seq(Messages)
      /\ n \in ToSet(wire) /\ ToSet(wire') \subseteq ToSet(wire)
      /\ \A m \in ToSet(wire) : m = n \/ m \in ToSet(wire')
  BY <1>2, FirstRead
<1>4. n.tag \in Tags /\ n.id \in Ids
  BY <1>3 DEF Messages
<1>5. PICK t, i : t = n.tag /\ i = n.id
  OBVIOUS
<1>6. t \in Tags /\ i \in Ids
  BY <1>4, <1>5
<1>7. /\ con \in [Slots -> Contracts \cup {NoContract}] /\ DOMAIN entries \subseteq Ids
      /\ \A j \in DOMAIN entries : entries[j] \in [slot : Slots, con : Contracts, waiting : BOOLEAN]
      /\ tags \in [Tags -> Slots \cup {NoSlot}]
      /\ ended \in [Tags -> [con : Contracts \cup {NoContract}, session : 0 .. MaxLosses]]
      /\ kept \in [Contracts -> Contracts \cup {NoContract}]
      /\ quote \in [Slots -> Contracts \cup {NoContract}]
      /\ shown \in [Slots -> Contracts \cup {NoContract}]
  BY DEF Inv, TypeOK
<1>8. Session' = Session
  BY DEF Session
<1>9. PICK G : Means(G)
  BY DEF Inv, TagsMean
<1>10. Unserved'
  <2>1. link # "down"
    BY DEF Inv, Unserved
  <2> QED
    BY <1>2, <2>1 DEF Inv, Unserved
<1>11. \A j : RejectMsg(j) \in ToSet(wire) => RejectMsg(j) \in ToSet(wire')
  BY <1>3, MessageTypes
<1>12. CASE ~Awaited(i)
  <2>1. /\ entries' = entries /\ tags' = tags /\ ended' = ended /\ kept' = kept
        /\ quote' = quote /\ shown' = shown
    BY <1>5, <1>12 DEF ReadAck, prices
  <2>2. TypeOK'
    BY <1>2, <1>3, <2>1 DEF Inv, TypeOK
  <2>3. IdsUsed' /\ Registered' /\ AckedTagged' /\ ServedKnown' /\ Prices'
    BY <1>2, <1>3, <2>1 DEF Inv, IdsUsed, Registered, AckedTagged, ServedKnown, Prices
  <2>4. HeldFresh' /\ Refusals'
    BY <1>2, <1>3, <2>1 DEF Inv, HeldFresh, Refusals
  <2>5. TagsMean'
    <3>1. Means(G)'
      BY <1>2, <1>3, <1>8, <1>9, <2>1 DEF Means
    <3> QED
      BY <3>1 DEF TagsMean
  <2>6. Asked'
    BY <1>2, <1>11, <2>1, AskedStays
  <2> QED
    BY <1>10, <2>2, <2>3, <2>4, <2>5, <2>6 DEF Inv
<1>13. CASE Awaited(i)
  <2>1. i \in DOMAIN entries /\ entries[i].waiting
    BY <1>13 DEF Awaited
  <2>2. PICK s : s = entries[i].slot
    OBVIOUS
  <2>3. s \in Slots /\ con[s] = entries[i].con /\ con[s] \in Contracts
    BY <1>7, <2>1, <2>2 DEF Inv, Registered
  <2>4. PICK k : k = kept[con[s]]
    OBVIOUS
  <2>5. /\ entries' = [entries EXCEPT ![i].waiting = FALSE]
        /\ tags' = [tags EXCEPT ![t] = s] /\ ended' = [ended EXCEPT ![t] = NoTag]
        /\ kept' = [kept EXCEPT ![con[s]] = NoContract]
    BY <1>5, <1>13, <2>2 DEF ReadAck, GiveKept
  <2>6. \/ quote' = [quote EXCEPT ![s] = k] /\ shown' = [shown EXCEPT ![s] = k]
        \/ quote' = quote /\ shown' = shown
    BY <1>5, <1>13, <2>2, <2>4 DEF ReadAck, GiveKept
  <2>7. /\ DOMAIN entries' = DOMAIN entries
        /\ \A j \in DOMAIN entries : j # i => entries'[j] = entries[j]
        /\ entries'[i].slot = s /\ entries'[i].con = entries[i].con /\ entries'[i].waiting = FALSE
        /\ entries'[i] \in [slot : Slots, con : Contracts, waiting : BOOLEAN]
    BY <1>7, <2>1, <2>2, <2>5
  <2>8. \A j \in DOMAIN entries : entries'[j].slot = entries[j].slot /\ entries'[j].con = entries[j].con
    BY <2>2, <2>7
  <2>9. /\ tags' \in [Tags -> Slots \cup {NoSlot}] /\ tags'[t] = s
        /\ \A u \in Tags : u # t => tags'[u] = tags[u]
    BY ONLY <1>6, <1>7, <2>3, <2>5
  <2>10. /\ ended' \in [Tags -> [con : Contracts \cup {NoContract}, session : 0 .. MaxLosses]]
         /\ ended'[t].con = NoContract /\ \A u \in Tags : u # t => ended'[u] = ended[u]
    <3>1. PICK E : E = [con : Contracts \cup {NoContract}, session : 0 .. MaxLosses]
      OBVIOUS
    <3>2. NoTag \in E /\ NoTag.con = NoContract
      BY <3>1, Numbers DEF NoTag
    <3>3. ended \in [Tags -> E] /\ ended' = [ended EXCEPT ![t] = NoTag]
      BY <1>7, <2>5, <3>1
    <3>4. ended' \in [Tags -> E] /\ ended'[t] = NoTag /\ \A u \in Tags : u # t => ended'[u] = ended[u]
      BY ONLY <1>6, <3>2, <3>3
    <3> QED
      BY ONLY <3>1, <3>2, <3>4, Zenon
  <2>11. /\ kept' \in [Contracts -> Contracts \cup {NoContract}]
         /\ \A c \in Contracts : kept'[c] \in {kept[c], NoContract}
    BY ONLY <1>7, <2>3, <2>5
  <2>12. /\ quote' \in [Slots -> Contracts \cup {NoContract}] /\ shown' \in [Slots -> Contracts \cup {NoContract}]
         /\ \A u \in Slots : quote'[u] = quote[u] \/ (u = s /\ quote'[u] = k)
         /\ \A u \in Slots : shown'[u] = shown[u] \/ (u = s /\ shown'[u] = k)
    <3>1. k \in Contracts \cup {NoContract}
      BY <1>7, <2>3, <2>4
    <3>2. CASE quote' = [quote EXCEPT ![s] = k] /\ shown' = [shown EXCEPT ![s] = k]
      BY ONLY <1>7, <2>3, <3>1, <3>2
    <3>3. CASE quote' = quote /\ shown' = shown
      BY <1>7, <3>3
    <3> QED
      BY <2>6, <3>2, <3>3
  <2>13. TypeOK'
    <3>1. /\ DOMAIN entries' \subseteq Ids
          /\ \A j \in DOMAIN entries' : entries'[j] \in [slot : Slots, con : Contracts, waiting : BOOLEAN]
      BY <1>7, <2>7
    <3>2. /\ resub \in Seq(Slots) /\ nextId \in 1 .. MaxEntries + 1 /\ held \in Seq(Orders)
          /\ refused \subseteq Slots /\ link \in {"up", "lost", "down"}
          /\ served \subseteq Ids \X Contracts /\ tagOf \in [Contracts -> Tags \cup {0}]
          /\ losses \in 0 .. MaxLosses /\ mixed \in BOOLEAN /\ stray \subseteq Ids
      BY DEF Inv, TypeOK
    <3> QED
      BY <1>2, <1>3, <1>7, <2>9, <2>10, <2>11, <2>12, <3>1, <3>2, Zenon DEF TypeOK
  <2>14. IdsUsed' /\ ServedKnown'
    BY <1>2, <1>3, <2>7 DEF Inv, IdsUsed, ServedKnown
  <2>15. Registered'
    BY <1>2, <2>7, <2>8 DEF Inv, Registered
  <2>16. HeldFresh'
    <3>1. \A m \in ToSet(held) : m.kind = "sub" => m.id # i
      BY <1>3, <1>5 DEF Inv, HeldFresh
    <3> QED
      BY <1>2, <1>3, <2>7, <3>1 DEF Inv, HeldFresh
  <2>17. Refusals'
    <3>1. \A m \in ToSet(wire) : m.kind = "reject" => m.id # i
      BY <1>3, <1>5 DEF Inv, Refusals
    <3> QED
      BY <1>2, <1>3, <2>7, <3>1 DEF Inv, Refusals
  <2>18. G[t] = con[s]
    BY <1>3, <1>5, <1>9, <2>1, <2>3 DEF Means
  <2>19. TagsMean'
    <3>1. \A u \in Tags : tags'[u] # NoSlot => G[u] = con[tags'[u]] /\ G[u] # NoContract
      BY <1>9, <2>3, <2>9, <2>18, Numbers DEF Means
    <3>2. \A u \in Tags : ended'[u].con # NoContract =>
            /\ ended'[u].session <= Session
            /\ ended'[u].session = Session => G[u] = ended'[u].con
      BY <1>9, <2>10 DEF Means
    <3>3. \A m \in ToSet(wire') :
            /\ m.kind = "tick" => G[m.tag] = m.con
            /\ m.kind = "ack" /\ m.id \in DOMAIN entries' => G[m.tag] = entries'[m.id].con
      BY <1>3, <1>9, <2>7, <2>8 DEF Means
    <3>4. Means(G)'
      BY <1>2, <1>8, <1>9, <3>1, <3>2, <3>3 DEF Means
    <3> QED
      BY <3>4 DEF TagsMean
  <2>20. Prices'
    <3>1. SUFFICES ASSUME ~mixed
                   PROVE  /\ \A c \in Contracts : kept'[c] \in {NoContract, c}
                          /\ \A u \in Slots : quote'[u] \in {NoContract, con[u]}
                          /\ \A u \in Slots : shown'[u] \in {NoContract, con[u]}
      BY <1>2 DEF Prices
    <3>2. /\ \A c \in Contracts : kept[c] \in {NoContract, c}
          /\ \A u \in Slots : quote[u] \in {NoContract, con[u]}
          /\ \A u \in Slots : shown[u] \in {NoContract, con[u]}
      BY <3>1 DEF Inv, Prices
    <3>3. k \in {NoContract, con[s]}
      BY <2>3, <2>4, <3>2
    <3> QED
      BY <2>11, <2>12, <3>2, <3>3
  <2>21. AckedTagged'
    <3>1. SUFFICES ASSUME NEW j \in DOMAIN entries, ~entries'[j].waiting
                   PROVE  \E u \in Tags : tags'[u] # NoSlot /\ con[tags'[u]] = entries[j].con
      BY <1>2, <2>7, <2>8 DEF AckedTagged
    <3>2. CASE j = i
      BY <1>6, <2>3, <2>9, <3>2, Numbers
    <3>3. CASE j # i
      <4>1. PICK u \in Tags : tags[u] # NoSlot /\ con[tags[u]] = entries[j].con
        BY <2>7, <3>1, <3>3 DEF Inv, AckedTagged
      <4>2. CASE u = t
        <5>1. con[s] = entries[j].con
          BY <1>9, <2>18, <4>1, <4>2 DEF Means
        <5> QED
          BY <1>6, <2>3, <2>9, <5>1, Numbers
      <4>3. CASE u # t
        BY <2>9, <4>1, <4>3
      <4> QED
        BY <4>2, <4>3
    <3> QED
      BY <3>2, <3>3
  <2>22. Asked'
    BY <1>2, <1>11, <2>7, <2>8, AskedStays
  <2> QED
    BY <1>10, <2>13, <2>14, <2>15, <2>16, <2>17, <2>19, <2>20, <2>21, <2>22 DEF Inv
<1> QED
  BY <1>12, <1>13

\* The farm's new tags leave the meaning of the old ones.
LEMMA TagsExtended ==
    ASSUME Inv, link = "up", NEW G, Means(G), NEW M, NEW before, NEW no, Answered(M, before, no)
    PROVE  \E F \in [Tags -> Contracts \cup {NoContract}] :
              /\ \A t \in Tags, c \in Contracts : F[t] = c <=> tagOf'[c] = t
              /\ \A t \in Tags : G[t] # NoContract => F[t] = G[t]
<1>1. /\ tagOf' \in [Contracts -> Tags \cup {0}]
      /\ \A c \in Contracts : tagOf[c] # 0 => tagOf'[c] = tagOf[c]
      /\ \A c \in Contracts : \A d \in Contracts : tagOf'[c] = tagOf'[d] /\ tagOf'[c] # 0 => c = d
  BY DEF Answered
<1>2. \A t \in Tags : t # 0
  <2>1. \A n : \A t \in 1 .. n : t # 0
    OBVIOUS
  <2> QED
    BY <2>1 DEF Tags
<1>3. PICK F : F = [t \in Tags |-> IF \E c \in Contracts : tagOf'[c] = t
                                   THEN CHOOSE c \in Contracts : tagOf'[c] = t ELSE NoContract]
  OBVIOUS
<1>4. \A t \in Tags : /\ (\E c \in Contracts : tagOf'[c] = t) => F[t] \in Contracts /\ tagOf'[F[t]] = t
                      /\ ~(\E c \in Contracts : tagOf'[c] = t) => F[t] = NoContract
  <2>1. TAKE t \in Tags
  <2>2. CASE \E c \in Contracts : tagOf'[c] = t
    <3>1. F[t] = CHOOSE c \in Contracts : tagOf'[c] = t
      BY <1>3, <2>2
    <3> QED
      BY <2>2, <3>1
  <2>3. CASE ~(\E c \in Contracts : tagOf'[c] = t)
    BY <1>3, <2>3
  <2> QED
    BY <2>2, <2>3
<1>5. F \in [Tags -> Contracts \cup {NoContract}]
  <2>1. DOMAIN F = Tags /\ F = [t \in Tags |-> F[t]]
    BY <1>3
  <2>2. \A t \in Tags : F[t] \in Contracts \cup {NoContract}
    BY <1>4
  <2> QED
    BY ONLY <2>1, <2>2
<1>6. \A t \in Tags, c \in Contracts : F[t] = c <=> tagOf'[c] = t
  BY <1>1, <1>2, <1>4, Numbers
<1>7. ASSUME NEW t \in Tags, G[t] # NoContract PROVE F[t] = G[t]
  <2>1. G[t] \in Contracts /\ tagOf[G[t]] = t
    BY <1>7 DEF Means
  <2>2. tagOf'[G[t]] = t
    BY <1>1, <1>2, <2>1
  <2> QED
    BY <1>6, <2>1, <2>2
<1> QED
  BY <1>5, <1>6, <1>7

\* Messages sent, and lost or answered.
Sent(M, before) ==
    \/ /\ link # "up" /\ wire' = before
       /\ served' = served /\ tagOf' = tagOf /\ stray' = stray
    \/ link = "up" /\ \E no : Answered(M, before, no)

\* The tags keep a meaning when messages are sent.
LEMMA SentMeans ==
    ASSUME Inv, con' = con, tags' = tags, ended' = ended, link' = link, losses' = losses,
           NEW M, M \subseteq Orders, NEW before, Sent(M, before), ToSet(before) \subseteq ToSet(wire),
           \A m \in ToSet(before) : m.kind = "ack" /\ m.id \in DOMAIN entries' =>
              m.id \in DOMAIN entries /\ entries'[m.id].con = entries[m.id].con,
           \A q \in Subs(M) : q.id \in DOMAIN entries' => entries'[q.id].con = q.con
    PROVE  TagsMean'
<1>1. PICK G : Means(G)
  BY DEF Inv, TagsMean
<1>2. Session' = Session
  BY DEF Session
<1>3. wire \in Seq(Messages) /\ ToSet(wire) \subseteq Messages
  BY InSet DEF Inv, TypeOK
<1>4. \A m \in ToSet(before) : /\ m.kind = "tick" => G[m.tag] = m.con /\ m.tag \in Tags /\ m.con \in Contracts
                               /\ m.kind = "ack" => m.tag \in Tags
  BY <1>1, <1>3 DEF Means, Messages
<1>5. \A m \in ToSet(before) : m.kind = "ack" /\ m.id \in DOMAIN entries' =>
         G[m.tag] = entries'[m.id].con /\ m.tag \in Tags /\ G[m.tag] # NoContract
  <2>1. \A i \in DOMAIN entries : entries[i].con # NoContract
    BY Numbers DEF Inv, TypeOK
  <2> QED
    BY <1>1, <1>4, <2>1 DEF Means
<1>6. CASE link # "up"
  <2>1. wire' = before /\ tagOf' = tagOf
    BY <1>6 DEF Sent
  <2>2. Means(G)'
    BY <1>1, <1>2, <1>4, <1>5, <1>6, <2>1 DEF Means
  <2> QED
    BY <2>2 DEF TagsMean
<1>7. CASE link = "up"
  <2>1. PICK no : Answered(M, before, no)
    BY <1>7 DEF Sent
  <2>2. PICK F \in [Tags -> Contracts \cup {NoContract}] :
              /\ \A t \in Tags, c \in Contracts : F[t] = c <=> tagOf'[c] = t
              /\ \A t \in Tags : G[t] # NoContract => F[t] = G[t]
    BY <1>1, <1>7, <2>1, TagsExtended
  <2>3. \A t \in Tags : tags[t] # NoSlot => F[t] = con[tags[t]] /\ F[t] # NoContract
    BY <1>1, <2>2 DEF Means
  <2>4. \A t \in Tags : ended[t].con # NoContract =>
         /\ ended[t].session <= Session
         /\ ended[t].session = Session => F[t] = ended[t].con
    BY <1>1, <2>2 DEF Means
  <2>5. ASSUME NEW m \in ToSet(wire')
        PROVE  /\ m.kind = "tick" => F[m.tag] = m.con
               /\ m.kind = "ack" /\ m.id \in DOMAIN entries' => F[m.tag] = entries'[m.id].con
    <3>1. CASE m \in ToSet(before)
      <4>1. m.kind = "tick" => F[m.tag] = m.con
        BY <1>4, <2>2, <3>1, Numbers
      <4>2. m.kind = "ack" /\ m.id \in DOMAIN entries' => F[m.tag] = entries'[m.id].con
        BY <1>5, <2>2, <3>1
      <4> QED
        BY <4>1, <4>2
    <3>2. CASE m \notin ToSet(before)
      <4>1. \/ \E q \in Subs(M) : q.id \in no /\ m = RejectMsg(q.id)
            \/ \E q \in Subs(M) : q.id \notin no /\ tagOf'[q.con] # 0 /\ m = AckMsg(q.id, tagOf'[q.con])
        BY <2>1, <3>2 DEF Answered
      <4>2. CASE \E q \in Subs(M) : q.id \in no /\ m = RejectMsg(q.id)
        <5>1. m.kind = "reject"
          BY <4>2, MessageTypes
        <5> QED
          BY <5>1
      <4>3. CASE \E q \in Subs(M) : q.id \notin no /\ tagOf'[q.con] # 0 /\ m = AckMsg(q.id, tagOf'[q.con])
        <5>1. PICK q \in Subs(M) : tagOf'[q.con] # 0 /\ m = AckMsg(q.id, tagOf'[q.con])
          BY <4>3
        <5>2. m.kind = "ack" /\ m.id = q.id /\ m.tag = tagOf'[q.con]
          BY <5>1, MessageTypes
        <5>3. q.con \in Contracts
          BY DEF Subs, Orders
        <5>4. tagOf'[q.con] \in Tags
          BY <2>1, <5>1, <5>3 DEF Answered
        <5>5. F[m.tag] = q.con
          BY <2>2, <5>2, <5>3, <5>4
        <5>6. m.id \in DOMAIN entries' => entries'[m.id].con = q.con
          BY <5>2
        <5> QED
          BY <5>2, <5>5, <5>6
      <4> QED
        BY <4>1, <4>2, <4>3
    <3> QED
      BY <3>1, <3>2
  <2>6. Means(F)'
    BY <1>2, <2>2, <2>3, <2>4, <2>5 DEF Means
  <2> QED
    BY <2>6 DEF TagsMean
<1> QED
  BY <1>6, <1>7

\* What is on its way and what is served are known when messages are sent.
LEMMA SentKnown ==
    ASSUME Inv, link' = link, losses' = losses, nextId' \in Int, nextId' >= nextId,
           NEW M, M \subseteq Orders, NEW before, Sent(M, before), ToSet(before) \subseteq ToSet(wire),
           link = "down" => before = <<>>,
           \A m \in ToSet(before) : m.kind = "reject" /\ m.id \in DOMAIN entries' => entries'[m.id].waiting,
           \A q \in Subs(M) : /\ q.id < nextId'
                              /\ q.id \in DOMAIN entries' => entries'[q.id].waiting
                              /\ \A w \in ToSet(before) : w.kind # "tick" => w.id # q.id
    PROVE  /\ \A e \in served' : e[1] < nextId'
           /\ \A m \in ToSet(wire') : m.kind # "tick" => m.id < nextId'
           /\ Unserved' /\ Refusals'
<1>1. /\ wire \in Seq(Messages) /\ ToSet(wire) \subseteq Messages /\ served \subseteq Ids \X Contracts
      /\ nextId \in Int
  BY InSet DEF Inv, TypeOK
<1>2. \A i \in Ids : i < nextId => i < nextId'
  BY <1>1, Numbers
<1>3. \A e \in served : e[1] < nextId'
  BY <1>1, <1>2 DEF Inv, IdsUsed
<1>4. \A m \in ToSet(before) : m.kind # "tick" => m.id < nextId'
  BY <1>1, <1>2 DEF Inv, IdsUsed, Messages
<1>5. \A m \in ToSet(before) : m.kind = "reject" => \A w \in ToSet(before) : w.kind = "ack" => w.id # m.id
  BY DEF Inv, Refusals
<1>6. CASE link # "up"
  <2>1. wire' = before /\ tagOf' = tagOf /\ served' = served
    BY <1>6 DEF Sent
  <2>2. Unserved'
    BY <1>6, <2>1 DEF Inv, Unserved
  <2>3. Refusals'
    BY <1>5, <2>1 DEF Refusals
  <2> QED
    BY <1>3, <1>4, <2>1, <2>2, <2>3
<1>7. CASE link = "up"
  <2>1. PICK no : Answered(M, before, no)
    BY <1>7 DEF Sent
  <2>2. \A m \in ToSet(wire') :
         \/ m \in ToSet(before)
         \/ \E q \in Subs(M) : q.id \in no /\ m.kind = "reject" /\ m.id = q.id
         \/ \E q \in Subs(M) : q.id \notin no /\ m.kind = "ack" /\ m.id = q.id
    <3>1. TAKE m \in ToSet(wire')
    <3>2. CASE m \in ToSet(before)
      BY <3>2
    <3>3. CASE \E q \in Subs(M) : q.id \in no /\ m = RejectMsg(q.id)
      BY <3>3, MessageTypes
    <3>4. CASE \E q \in Subs(M) : q.id \notin no /\ tagOf'[q.con] # 0 /\ m = AckMsg(q.id, tagOf'[q.con])
      BY <3>4, MessageTypes
    <3> QED
      BY <2>1, <3>2, <3>3, <3>4 DEF Answered
  <2>3. \A e \in served' : e \in served \/ \E q \in Subs(M) : q.id \notin no /\ e = <<q.id, q.con>>
    BY <2>1 DEF Answered
  <2>4. \A e \in served' : e[1] < nextId'
    <3>1. TAKE e \in served'
    <3>2. CASE e \in served
      BY <1>3, <3>2
    <3>3. CASE \E q \in Subs(M) : q.id \notin no /\ e = <<q.id, q.con>>
      BY <3>3
    <3> QED
      BY <2>3, <3>2, <3>3
  <2>5. \A m \in ToSet(wire') : m.kind # "tick" => m.id < nextId'
    <3>1. TAKE m \in ToSet(wire')
    <3>2. CASE m \in ToSet(before)
      BY <1>4, <3>2
    <3>3. CASE \E q \in Subs(M) : m.id = q.id
      BY <3>3
    <3> QED
      BY <2>2, <3>2, <3>3
  <2>6. Unserved'
    <3>1. \A q \in Subs(M) : q.con \in Contracts
      BY DEF Subs, Orders
    <3>2. ASSUME NEW e \in served' PROVE tagOf'[e[2]] # 0
      <4>1. CASE e \in served
        <5>1. tagOf[e[2]] # 0 /\ e[2] \in Contracts
          BY <1>1, <4>1 DEF Inv, Unserved
        <5> QED
          BY <2>1, <5>1 DEF Answered
      <4>2. CASE \E q \in Subs(M) : q.id \notin no /\ e = <<q.id, q.con>>
        <5>1. PICK q \in Subs(M) : q.id \notin no /\ e = <<q.id, q.con>>
          BY <4>2
        <5>2. tagOf'[q.con] # 0
          BY <2>1, <5>1 DEF Answered
        <5> QED
          BY <5>1, <5>2
      <4> QED
        BY <2>3, <4>1, <4>2
    <3> QED
      BY <1>7, <3>2 DEF Unserved
  <2>7. Refusals'
    <3>1. SUFFICES ASSUME NEW m \in ToSet(wire'), m.kind = "reject"
                   PROVE  /\ m.id \in DOMAIN entries' => entries'[m.id].waiting
                          /\ \A w \in ToSet(wire') : w.kind = "ack" => w.id # m.id
      BY DEF Refusals
    <3>2. m.id \in DOMAIN entries' => entries'[m.id].waiting
      BY <2>2, <3>1
    <3>3. SUFFICES ASSUME NEW w \in ToSet(wire'), w.kind = "ack" PROVE w.id # m.id
      BY <3>2
    <3>4. CASE m \in ToSet(before) /\ w \in ToSet(before)
      BY <1>5, <3>1, <3>3, <3>4
    <3>5. CASE m \in ToSet(before) /\ \E q \in Subs(M) : q.id \notin no /\ w.id = q.id
      BY <3>1, <3>5
    <3>6. CASE (\E q \in Subs(M) : q.id \in no /\ m.id = q.id) /\ w \in ToSet(before)
      BY <3>3, <3>6
    <3>7. CASE (\E q \in Subs(M) : q.id \in no /\ m.id = q.id) /\ (\E q \in Subs(M) : q.id \notin no /\ w.id = q.id)
      BY <3>7
    <3> QED
      BY <2>2, <3>1, <3>3, <3>4, <3>5, <3>6, <3>7
  <2> QED
    BY <2>4, <2>5, <2>6, <2>7
<1> QED
  BY <1>6, <1>7

\* A pass sends what was held.
LEMMA GroupOf ==
    ASSUME held \in Seq(Orders), held # <<>>
    PROVE  Group(held) \in Seq(Orders) /\ ToSet(Group(held)) = ToSet(held)
<1>1. PICK first : first = Head(held).kind
  OBVIOUS
<1>2. PICK other : other = IF first = "sub" THEN "cancel" ELSE "sub"
  OBVIOUS
<1>3. Group(held) = OfKind(held, first) \o OfKind(held, other)
  BY <1>1, <1>2 DEF Group
<1>4. Head(held) \in Orders
  BY InTail
<1>5. ToSet(held) \subseteq Orders
  BY InSet
<1>6. \A m \in Orders : m.kind \in {"sub", "cancel"}
  BY DEF Orders
<1>7. first \in {"sub", "cancel"}
  BY <1>1, <1>4, <1>6
<1>8. \A m \in ToSet(held) : m.kind = first \/ m.kind = other
  BY <1>2, <1>5, <1>6, <1>7
<1>9. /\ OfKind(held, first) \in Seq(Orders) /\ ToSet(OfKind(held, first)) = {m \in ToSet(held) : m.kind = first}
      /\ OfKind(held, other) \in Seq(Orders) /\ ToSet(OfKind(held, other)) = {m \in ToSet(held) : m.kind = other}
  BY InKind
<1>10. /\ Group(held) \in Seq(Orders)
       /\ ToSet(Group(held)) = ToSet(OfKind(held, first)) \cup ToSet(OfKind(held, other))
  BY <1>3, <1>9, InConcat
<1>11. ToSet(Group(held)) = ToSet(held)
  BY ONLY <1>8, <1>9, <1>10
<1> QED
  BY <1>10, <1>11

LEMMA SendPassKeeps ==
    ASSUME Inv, SendPass PROVE Inv'
<1>1. /\ held # <<>> /\ held' = <<>> /\ Send(Group(held), wire)
      /\ con' = con /\ entries' = entries /\ resub' = resub /\ nextId' = nextId
      /\ tags' = tags /\ ended' = ended /\ kept' = kept /\ quote' = quote /\ shown' = shown
      /\ refused' = refused /\ link' = link /\ losses' = losses /\ mixed' = mixed
  BY DEF SendPass, subs, prices
<1>2. held \in Seq(Orders) /\ wire \in Seq(Messages)
  BY DEF Inv, TypeOK
<1>3. PICK M : M = ToSet(held)
  OBVIOUS
<1>4. M \subseteq Orders /\ ToSet(held') = {}
  BY <1>1, <1>2, <1>3, InSet, InNone
<1>5. PICK g : g = Group(held)
  OBVIOUS
<1>6. g \in Seq(Orders) /\ ToSet(g) = M
  BY <1>1, <1>2, <1>3, <1>5, GroupOf
<1>7. /\ wire' \in Seq(Messages) /\ ToSet(wire) \subseteq ToSet(wire')
      /\ served' \subseteq Ids \X Contracts /\ tagOf' \in [Contracts -> Tags \cup {0}]
      /\ stray' \subseteq Ids
      /\ Sent(M, wire)
  <2>1. TypeOK /\ Send(g, wire)
    BY <1>1, <1>5 DEF Inv
  <2> QED
    BY ONLY <1>2, <1>6, <2>1, SendOf DEF Sent
<1>8. /\ \A m \in M : m.id < nextId
      /\ \A q \in Subs(M) : /\ q \in M
                            /\ q.id \in DOMAIN entries => entries[q.id].waiting /\ entries[q.id].con = q.con
                            /\ \A w \in ToSet(wire) : w.kind # "tick" => w.id # q.id
      /\ \A i \in DOMAIN entries : ~Cancels(M, i)
  BY <1>3 DEF Inv, IdsUsed, HeldFresh, Subs, Cancels
<1>9. TypeOK'
  BY <1>1, <1>4, <1>7 DEF Inv, TypeOK
<1>10. /\ \A e \in served' : e[1] < nextId'
       /\ \A m \in ToSet(wire') : m.kind # "tick" => m.id < nextId'
       /\ Unserved' /\ Refusals'
  <2>1. nextId' \in Int /\ nextId' >= nextId
    BY <1>1 DEF Inv, TypeOK
  <2>2. link = "down" => wire = <<>>
    BY DEF Inv, Unserved
  <2>3. \A m \in ToSet(wire) : m.kind = "reject" /\ m.id \in DOMAIN entries' => entries'[m.id].waiting
    BY <1>1 DEF Inv, Refusals
  <2>4. \A q \in Subs(M) : /\ q.id < nextId'
                           /\ q.id \in DOMAIN entries' => entries'[q.id].waiting
                           /\ \A w \in ToSet(wire) : w.kind # "tick" => w.id # q.id
    BY <1>1, <1>8
  <2> QED
    BY <1>1, <1>4, <1>7, <2>1, <2>2, <2>3, <2>4, SentKnown
<1>11. IdsUsed'
  BY <1>1, <1>4, <1>10 DEF Inv, IdsUsed
<1>12. Registered' /\ Prices' /\ AckedTagged'
  BY <1>1 DEF Inv, Registered, Prices, AckedTagged
<1>13. HeldFresh'
  BY <1>4 DEF HeldFresh
<1>14. TagsMean'
  <2>1. \A q \in Subs(M) : q.id \in DOMAIN entries' => entries'[q.id].con = q.con
    BY <1>1, <1>8
  <2> QED
    BY <1>1, <1>4, <1>7, <2>1, SentMeans
<1>15. ServedKnown'
  <2>1. SUFFICES ASSUME NEW e \in served' PROVE e[1] \in DOMAIN entries \cup stray'
    BY <1>1 DEF ServedKnown
  <2>2. CASE link # "up"
    BY <1>7, <2>1, <2>2 DEF Inv, Sent, Unserved
  <2>3. CASE link = "up"
    <3>1. PICK no : Answered(M, wire, no)
      BY <1>7, <2>3 DEF Sent
    <3>2. CASE e[1] \in DOMAIN entries' \cup stray'
      BY <1>1, <3>2
    <3>3. CASE e \in served /\ ~Cancels(M, e[1])
      BY <1>3, <3>1, <3>3 DEF Inv, ServedKnown, Answered
    <3>4. CASE e \in served /\ ~(e \in served /\ ~Cancels(M, e[1]))
      <4>1. PICK q \in Subs(M) : e = <<q.id, q.con>>
        BY <3>1, <3>4 DEF Answered
      <4>2. e[1] # q.id
        BY <1>3, <1>8, <3>4 DEF Inv, HeldFresh, Subs
      <4> QED
        BY <4>1, <4>2
    <3> QED
      BY <3>1, <3>2, <3>3, <3>4 DEF Answered
  <2> QED
    BY <2>2, <2>3
<1>16. Asked'
  <2>1. SUFFICES ASSUME link = "up", NEW s \in ToSet(resub)
                 PROVE  \E i \in DOMAIN entries :
                          /\ entries[i].slot = s
                          /\ <<i, con[s]>> \in served' \/ RejectMsg(i) \in ToSet(wire')
    BY <1>1 DEF Asked
  <2>2. PICK i \in DOMAIN entries :
             /\ entries[i].slot = s
             /\ <<i, con[s]>> \in served \/ RejectMsg(i) \in ToSet(wire) \/ SubMsg(i, con[s]) \in ToSet(held)
    BY <2>1 DEF Inv, Asked
  <2>3. PICK no : Answered(M, wire, no)
    BY <1>7, <2>1 DEF Sent
  <2>4. ~Cancels(M, i)
    BY <1>8
  <2>5. CASE <<i, con[s]>> \in served
    <3>1. PICK e : e = <<i, con[s]>>
      OBVIOUS
    <3>2. e[1] = i /\ e \in served
      BY <2>5, <3>1
    <3>3. e \in served'
      BY <2>3, <2>4, <3>2 DEF Answered
    <3> QED
      BY <2>2, <3>1, <3>3
  <2>6. CASE RejectMsg(i) \in ToSet(wire)
    BY <1>7, <2>2, <2>6
  <2>7. CASE SubMsg(i, con[s]) \in ToSet(held)
    <3>1. PICK q : q = SubMsg(i, con[s])
      OBVIOUS
    <3>2. q \in Subs(M) /\ q.id = i /\ q.con = con[s]
      BY <1>3, <2>7, <3>1, MessageTypes DEF Subs
    <3>3. CASE q.id \in no
      BY <2>2, <2>3, <3>2, <3>3 DEF Answered
    <3>4. CASE q.id \notin no
      <4>1. <<q.id, q.con>> \in served'
        BY <2>3, <2>4, <3>2, <3>4 DEF Answered
      <4> QED
        BY <2>2, <3>2, <4>1
    <3> QED
      BY <3>3, <3>4
  <2> QED
    BY <2>2, <2>5, <2>6, <2>7
<1> QED
  BY <1>9, <1>10, <1>11, <1>12, <1>13, <1>14, <1>15, <1>16 DEF Inv

\* Every subscription is asked for again, under new entries N, and their
\* requests M wait; of the entries `have' is left.
LEMMA Renewed ==
    ASSUME Inv, con' = con, NEW have,
           \A i \in DOMAIN have : i \in DOMAIN entries /\ have[i] = entries[i],
           NEW N, NEW M, NewEntries(N, ToSet(resub), have, M),
           ToSet(held') = ToSet(held) \cup M, ToSet(resub') = ToSet(resub),
           nextId' \in Int, nextId' >= nextId,
           served' \subseteq served, ToSet(wire') \subseteq ToSet(wire)
    PROVE  /\ DOMAIN entries' \subseteq Ids
           /\ \A i \in DOMAIN entries' : entries'[i] \in [slot : Slots, con : Contracts, waiting : BOOLEAN]
           /\ \A i \in DOMAIN entries' : i \notin N => i \in DOMAIN entries /\ entries'[i] = entries[i]
           /\ \A m \in ToSet(wire) : m.kind # "tick" => m.id \notin N
           /\ \A i \in N : entries'[i].waiting
           /\ IdsUsed' /\ Registered' /\ HeldFresh' /\ Asked'
<1>1. /\ DOMAIN entries \subseteq Ids /\ nextId \in Int
      /\ \A i \in DOMAIN entries : entries[i] \in [slot : Slots, con : Contracts, waiting : BOOLEAN]
      /\ \A i \in DOMAIN entries : i < nextId
      /\ ToSet(held) \subseteq Orders /\ ToSet(wire) \subseteq Messages /\ served \subseteq Ids \X Contracts
  BY InSet DEF Inv, TypeOK, IdsUsed
<1>2. /\ \A i \in N : i \in Ids /\ i >= nextId /\ i < nextId'
      /\ DOMAIN entries' = DOMAIN have \cup N
      /\ \A i \in DOMAIN have : entries'[i] = have[i]
      /\ \A i \in N : /\ entries'[i] \in [slot : Slots, con : Contracts, waiting : BOOLEAN]
                      /\ entries'[i].slot \in ToSet(resub)
                      /\ entries'[i].con = con[entries'[i].slot]
                      /\ entries'[i].waiting
      /\ \A s \in ToSet(resub) : \E i \in N : entries'[i].slot = s
      /\ \A m : m \in M <=> \E i \in N : m = SubMsg(i, entries'[i].con)
  BY DEF NewEntries
<1>3. \A i \in DOMAIN entries' : i \notin N => i \in DOMAIN entries /\ entries'[i] = entries[i]
  BY <1>2
<1>4. \A i \in Ids : i < nextId => i < nextId' /\ i \notin N
  BY <1>1, <1>2, Numbers
<1>5. DOMAIN entries' \subseteq Ids
      /\ \A i \in DOMAIN entries' : entries'[i] \in [slot : Slots, con : Contracts, waiting : BOOLEAN]
  BY <1>1, <1>2, <1>3
<1>6. \A m \in M : m.kind = "sub" /\ m.id \in N /\ m.con = entries'[m.id].con
  <2>1. TAKE m \in M
  <2>2. PICK i \in N : m = SubMsg(i, entries'[i].con)
    BY <1>2
  <2>3. m.kind = "sub" /\ m.id = i /\ m.con = entries'[i].con
    BY <2>2, MessageTypes
  <2> QED
    BY <2>3
<1>7. \A m \in ToSet(held) : m.id \in Ids /\ m.id < nextId
  BY <1>1 DEF Inv, IdsUsed, Orders
<1>8. \A m \in ToSet(wire) : m.kind # "tick" => m.id \in Ids /\ m.id < nextId
  BY <1>1 DEF Inv, IdsUsed, Messages
<1>9. \A e \in served : e[1] \in Ids /\ e[1] < nextId
  BY <1>1 DEF Inv, IdsUsed
<1>10. IdsUsed'
  <2>1. \A i \in DOMAIN entries' : i < nextId'
    BY <1>1, <1>2, <1>3, <1>4
  <2>2. \A m \in ToSet(held') : m.id < nextId'
    BY <1>2, <1>4, <1>6, <1>7
  <2>3. \A e \in served' : e[1] < nextId'
    BY <1>4, <1>9
  <2>4. \A m \in ToSet(wire') : m.kind # "tick" => m.id < nextId'
    BY <1>4, <1>8
  <2> QED
    BY <2>1, <2>2, <2>3, <2>4 DEF IdsUsed
<1>11. Registered'
  <2>1. \A i \in DOMAIN entries' : entries'[i].con = con[entries'[i].slot]
    BY <1>2, <1>3 DEF Inv, Registered
  <2> QED
    BY <2>1 DEF Inv, Registered
<1>12. HeldFresh'
  <2>1. SUFFICES ASSUME NEW m \in ToSet(held')
                 PROVE  /\ m.kind = "cancel" => m.id \notin DOMAIN entries'
                        /\ m.kind = "sub" =>
                          /\ \A e \in served' : e[1] # m.id
                          /\ \A w \in ToSet(wire') : w.kind # "tick" => w.id # m.id
                          /\ m.id \in DOMAIN entries' => entries'[m.id].waiting /\ entries'[m.id].con = m.con
    BY DEF HeldFresh
  <2>2. CASE m \in ToSet(held)
    <3>1. m.id \notin N
      BY <1>4, <1>7, <2>2
    <3> QED
      BY <2>2, <3>1, <1>3 DEF Inv, HeldFresh
  <2>3. CASE m \in M
    <3>1. m.kind = "sub" /\ m.id \in N /\ m.con = entries'[m.id].con
      BY <1>6, <2>3
    <3>2. \A e \in served' : e[1] # m.id
      BY <1>4, <1>9, <3>1
    <3>3. \A w \in ToSet(wire') : w.kind # "tick" => w.id # m.id
      BY <1>4, <1>8, <3>1
    <3> QED
      BY <1>2, <3>1, <3>2, <3>3
  <2> QED
    BY <2>2, <2>3
<1>13. Asked'
  <2>1. SUFFICES ASSUME NEW s \in ToSet(resub)
                 PROVE  \E i \in DOMAIN entries' : entries'[i].slot = s /\ SubMsg(i, con[s]) \in ToSet(held')
    BY DEF Asked
  <2>2. PICK i \in N : entries'[i].slot = s
    BY <1>2
  <2>3. entries'[i].con = con[s] /\ i \in DOMAIN entries'
    BY <1>2, <2>2
  <2>4. SubMsg(i, con[s]) \in M
    BY <1>2, <2>3
  <2> QED
    BY <2>2, <2>3, <2>4
<1>14. \A m \in ToSet(wire) : m.kind # "tick" => m.id \notin N
  BY <1>4, <1>8
<1> QED
  BY <1>2, <1>3, <1>5, <1>10, <1>11, <1>12, <1>13, <1>14

\* The requests of all subscriptions.
LEMMA RenewedMade ==
    ASSUME Inv, con' = con, NEW have, SubscribeTop(resub, have),
           \A i \in DOMAIN have : i \in DOMAIN entries, held' = held \o SubMsgs(resub)
    PROVE  /\ nextId' \in 1 .. MaxEntries + 1 /\ nextId' \in Int /\ nextId' >= nextId
           /\ resub' \in Seq(Slots) /\ ToSet(resub') = ToSet(resub)
           /\ held' \in Seq(Orders)
           /\ \E N, M : NewEntries(N, ToSet(resub), have, M) /\ ToSet(held') = ToSet(held) \cup M
<1>1. resub \in Seq(Slots) /\ held \in Seq(Orders)
  BY DEF Inv, TypeOK
<1>2. \A i \in DOMAIN have : i \in Ids /\ i < nextId
  BY DEF Inv, TypeOK, IdsUsed
<1>3. \A s \in ToSet(resub) : con'[s] \in Contracts
  <2>1. ToSet(resub) \subseteq Slots
    BY <1>1, InSet
  <2> QED
    BY <2>1 DEF Inv, TypeOK, Registered
<1>4. TypeOK
  BY DEF Inv
<1>5. /\ nextId' \in 1 .. MaxEntries + 1 /\ nextId' >= nextId
      /\ resub' \in Seq(Slots) /\ ToSet(resub') = ToSet(resub) \cup ToSet(resub)
      /\ SubMsgs(resub) \in Seq(Orders)
      /\ \E N : NewEntries(N, ToSet(resub), have, ToSet(SubMsgs(resub)))
  BY <1>1, <1>2, <1>3, <1>4, Made, Zenon
<1>6. held' \in Seq(Orders) /\ ToSet(held') = ToSet(held) \cup ToSet(SubMsgs(resub))
  BY <1>1, <1>5, InConcat
<1>7. nextId' \in Int
  BY <1>5
<1>8. ToSet(resub') = ToSet(resub)
  BY <1>5
<1> QED
  BY <1>5, <1>6, <1>7, <1>8, Zenon

LEMMA PermissionChangeKeeps ==
    ASSUME Inv, PermissionChange PROVE Inv'
<1>1. PICK have, R : have = Without(ToSet(resub)) /\ R = ToSet(resub)
  OBVIOUS
<1>2. /\ SubscribeTop(resub, have) /\ held' = held \o SubMsgs(resub)
      /\ Send(CancelMsgs(R), wire) /\ con' = con
      /\ tags' = tags /\ ended' = ended /\ kept' = kept /\ quote' = quote /\ shown' = shown
      /\ refused' = refused /\ link' = link /\ losses' = losses /\ mixed' = mixed
  BY <1>1 DEF PermissionChange, prices
<1>3. /\ \A i : i \in DOMAIN have <=> i \in DOMAIN entries /\ entries[i].slot \notin R
      /\ \A i \in DOMAIN have : have[i] = entries[i]
  BY <1>1, WithoutOf
<1>4. /\ nextId' \in 1 .. MaxEntries + 1 /\ nextId' \in Int /\ nextId' >= nextId
      /\ resub' \in Seq(Slots) /\ ToSet(resub') = ToSet(resub)
      /\ held' \in Seq(Orders)
      /\ \E N, M : NewEntries(N, ToSet(resub), have, M) /\ ToSet(held') = ToSet(held) \cup M
  BY <1>2, <1>3, RenewedMade, Zenon
<1>5. PICK N, M : NewEntries(N, ToSet(resub), have, M) /\ ToSet(held') = ToSet(held) \cup M
  BY <1>4
\* Only cancels are sent.
<1>6. PICK c, C : c = CancelMsgs(R) /\ C = ToSet(c)
  OBVIOUS
<1>7. /\ c \in Seq(Orders)
      /\ \A m : m \in C <=> \E i \in DOMAIN entries : entries[i].slot \in R /\ m = CancelMsg(i, entries[i].con)
  BY <1>6, CancelMsgsOf DEF Inv
<1>8. C \subseteq Orders /\ Subs(C) = {}
  <2>1. C \subseteq Orders
    BY <1>6, <1>7, InSet
  <2>2. \A m \in C : m.kind = "cancel"
    BY <1>7, MessageTypes
  <2> QED
    BY <2>1, <2>2 DEF Subs
<1>9. \A i \in DOMAIN entries : entries[i].slot \in R => Cancels(C, i)
  <2>1. SUFFICES ASSUME NEW i \in DOMAIN entries, entries[i].slot \in R PROVE Cancels(C, i)
    OBVIOUS
  <2>2. PICK m : m = CancelMsg(i, entries[i].con)
    OBVIOUS
  <2>3. m \in C /\ m.kind = "cancel" /\ m.id = i
    BY <1>7, <2>1, <2>2, MessageTypes
  <2> QED
    BY <2>3 DEF Cancels
<1>10. /\ wire' \in Seq(Messages) /\ ToSet(wire) \subseteq ToSet(wire')
       /\ served' \subseteq Ids \X Contracts /\ tagOf' \in [Contracts -> Tags \cup {0}]
       /\ stray' \subseteq Ids
       /\ Sent(C, wire)
  <2>1. TypeOK /\ Send(c, wire) /\ wire \in Seq(Messages)
    BY <1>2, <1>6 DEF Inv, TypeOK
  <2> QED
    BY ONLY <1>6, <1>7, <2>1, SendOf DEF Sent
<1>11. /\ served' \subseteq served /\ ToSet(wire') \subseteq ToSet(wire)
       /\ \A e \in served' : ~Cancels(C, e[1])
       /\ \A i \in stray : i \in stray'
  <2>1. CASE link # "up"
    BY <1>10, <2>1 DEF Inv, Unserved, Sent
  <2>2. CASE link = "up"
    <3>1. PICK no : Answered(C, wire, no)
      BY <1>10, <2>2 DEF Sent
    <3> QED
      BY <1>8, <3>1 DEF Answered
  <2> QED
    BY <2>1, <2>2
<1>12. /\ DOMAIN entries' \subseteq Ids
       /\ \A i \in DOMAIN entries' : entries'[i] \in [slot : Slots, con : Contracts, waiting : BOOLEAN]
       /\ \A i \in DOMAIN entries' : i \notin N => i \in DOMAIN entries /\ entries'[i] = entries[i]
       /\ \A m \in ToSet(wire) : m.kind # "tick" => m.id \notin N
       /\ \A i \in N : entries'[i].waiting
       /\ IdsUsed' /\ Registered' /\ HeldFresh' /\ Asked'
  BY <1>2, <1>3, <1>4, <1>5, <1>11, Renewed
<1>13. TypeOK'
  BY <1>2, <1>4, <1>10, <1>12 DEF Inv, TypeOK
<1>14. Unserved' /\ Refusals'
  <2>1. link = "down" => wire = <<>>
    BY DEF Inv, Unserved
  <2>2. \A m \in ToSet(wire) : m.kind = "reject" /\ m.id \in DOMAIN entries' => entries'[m.id].waiting
    BY <1>12 DEF Inv, Refusals
  <2> QED
    BY <1>2, <1>4, <1>8, <1>10, <2>1, <2>2, SentKnown
<1>15. TagsMean'
  <2>1. \A m \in ToSet(wire) : m.kind = "ack" /\ m.id \in DOMAIN entries' =>
              m.id \in DOMAIN entries /\ entries'[m.id].con = entries[m.id].con
    BY <1>12
  <2> QED
    BY <1>2, <1>8, <1>10, <2>1, SentMeans
<1>16. Prices'
  BY <1>2 DEF Inv, Prices
<1>17. AckedTagged'
  BY <1>2, <1>12 DEF Inv, AckedTagged
<1>18. ServedKnown'
  <2>1. SUFFICES ASSUME NEW e \in served'
                 PROVE  e[1] \in DOMAIN entries' \cup stray' \/ Cancels(ToSet(held'), e[1])
    BY DEF ServedKnown
  <2>2. e \in served /\ ~Cancels(C, e[1])
    BY <1>11
  <2>3. CASE e[1] \in DOMAIN entries
    <3>1. e[1] \in DOMAIN have
      BY <1>3, <1>9, <2>2, <2>3
    <3>2. DOMAIN entries' = DOMAIN have \cup N
      BY <1>5 DEF NewEntries
    <3> QED
      BY <3>1, <3>2
  <2>4. CASE e[1] \in stray
    BY <1>11, <2>4
  <2>5. CASE Cancels(ToSet(held), e[1])
    BY <1>5, <2>5 DEF Cancels
  <2> QED
    BY <2>2, <2>3, <2>4, <2>5 DEF Inv, ServedKnown
<1> QED
  BY <1>12, <1>13, <1>14, <1>15, <1>16, <1>17, <1>18 DEF Inv

LEMMA ReconnectKeepsInv ==
    ASSUME Inv, Reconnect PROVE Inv'
<1>1. PICK have : have = <<>>
  OBVIOUS
<1>2. /\ SubscribeTop(resub, have) /\ held' = held \o SubMsgs(resub) /\ con' = con
      /\ link = "down" /\ link' = "up"
      /\ quote' = [s \in Slots |-> IF EntriesOf(s) # {} THEN NoContract ELSE quote[s]]
      /\ tags' = [t \in Tags |-> NoSlot]
      /\ ended' = ended /\ kept' = kept /\ shown' = shown
      /\ refused' = refused /\ losses' = losses /\ mixed' = mixed /\ stray' = stray
      /\ served' = served /\ tagOf' = tagOf /\ wire' = wire
  BY <1>1 DEF Reconnect, FarmLost, farm, history
<1>3. DOMAIN have = {}
  BY <1>1
<1>4. /\ served = {} /\ losses > 0 /\ (\A c \in Contracts : tagOf[c] = 0) /\ ToSet(wire) = {}
  BY <1>2, InNone DEF Inv, Unserved
<1>5. /\ nextId' \in 1 .. MaxEntries + 1 /\ nextId' \in Int /\ nextId' >= nextId
      /\ resub' \in Seq(Slots) /\ ToSet(resub') = ToSet(resub)
      /\ held' \in Seq(Orders)
      /\ \E N, M : NewEntries(N, ToSet(resub), have, M) /\ ToSet(held') = ToSet(held) \cup M
  BY <1>2, <1>3, RenewedMade, Zenon
<1>6. PICK N, M : NewEntries(N, ToSet(resub), have, M) /\ ToSet(held') = ToSet(held) \cup M
  BY <1>5
<1>7. /\ DOMAIN entries' \subseteq Ids
      /\ \A i \in DOMAIN entries' : entries'[i] \in [slot : Slots, con : Contracts, waiting : BOOLEAN]
      /\ \A i \in DOMAIN entries' : i \notin N => i \in DOMAIN entries /\ entries'[i] = entries[i]
      /\ \A m \in ToSet(wire) : m.kind # "tick" => m.id \notin N
      /\ \A i \in N : entries'[i].waiting
      /\ IdsUsed' /\ Registered' /\ HeldFresh' /\ Asked'
  BY <1>2, <1>3, <1>5, <1>6, Renewed
<1>8. quote' \in [Slots -> Contracts \cup {NoContract}] /\ \A s \in Slots : quote'[s] \in {NoContract, quote[s]}
  <2>1. quote \in [Slots -> Contracts \cup {NoContract}]
    BY DEF Inv, TypeOK
  <2> QED
    BY <1>2, <2>1
<1>9. tags' \in [Tags -> Slots \cup {NoSlot}] /\ \A t \in Tags : tags'[t] = NoSlot
  BY <1>2
<1>10. TypeOK'
  BY <1>2, <1>5, <1>7, <1>8, <1>9 DEF Inv, TypeOK
<1>11. Unserved' /\ Refusals' /\ ServedKnown'
  BY <1>2, <1>4 DEF Unserved, Refusals, ServedKnown
<1>12. TagsMean'
  <2>1. PICK G : Means(G)
    BY DEF Inv, TagsMean
  <2>2. PICK F : F = [t \in Tags |-> NoContract]
    OBVIOUS
  <2>3. \A t \in Tags : F[t] = NoContract /\ t # 0
    <3>1. \A n : \A t \in 1 .. n : t # 0
      OBVIOUS
    <3> QED
      BY <2>2, <3>1 DEF Tags
  <2>4. \A t \in Tags, c \in Contracts : F[t] = c <=> tagOf[c] = t
    BY <1>4, <2>3, Numbers
  <2>5. Session' = losses /\ Session = losses - 1 /\ losses \in Int
    BY <1>2 DEF Inv, TypeOK, Session
  <2>6. \A t \in Tags : ended[t].session \in Int
    BY DEF Inv, TypeOK
  <2>7. \A t \in Tags : ended[t].con # NoContract =>
          ended[t].session <= Session' /\ ended[t].session # Session'
    BY <2>1, <2>5, <2>6 DEF Means
  <2>8. F \in [Tags -> Contracts \cup {NoContract}]
    BY <2>2
  <2>9. Means(F)'
    BY <1>2, <1>4, <1>9, <2>4, <2>7, <2>8 DEF Means
  <2> QED
    BY <2>9 DEF TagsMean
<1>13. Prices'
  BY <1>2, <1>8 DEF Inv, Prices
<1>14. AckedTagged'
  <2>1. DOMAIN entries' = N
    BY <1>3, <1>6 DEF NewEntries
  <2> QED
    BY <1>7, <2>1 DEF AckedTagged
<1> QED
  BY <1>7, <1>10, <1>11, <1>12, <1>13, <1>14 DEF Inv

\* A refusal ends the subscription, or is of an id not waited for.
LEMMA ReadRefusalKeeps ==
    ASSUME Inv, wire # <<>>, NEW n, n = Head(wire), n.kind = "reject",
           held' = held, link' = link, losses' = losses, UNCHANGED <<con, prices, mixed>>,
           wire' = Tail(wire), UNCHANGED <<entries, nextId, served, tagOf, stray>>,
           \/ ~Awaited(n.id) /\ resub' = resub /\ refused' = refused
           \/ /\ Awaited(n.id) /\ resub' = Kept(resub, Slots \ {entries[n.id].slot})
              /\ refused' = refused \cup {entries[n.id].slot}
    PROVE  Inv'
<1>1. /\ con' = con /\ tags' = tags /\ ended' = ended /\ kept' = kept /\ quote' = quote
      /\ shown' = shown /\ mixed' = mixed
      /\ entries' = entries /\ nextId' = nextId /\ served' = served /\ tagOf' = tagOf /\ stray' = stray
  BY DEF prices
<1>2. /\ n \in Messages /\ wire' \in Seq(Messages)
      /\ n \in ToSet(wire) /\ ToSet(wire') \subseteq ToSet(wire)
      /\ \A m \in ToSet(wire) : m = n \/ m \in ToSet(wire')
  BY FirstRead
<1>3. PICK i : i = n.id
  OBVIOUS
<1>4. i \in DOMAIN entries => Awaited(i)
  BY <1>2, <1>3 DEF Inv, Refusals, Awaited
<1>5. /\ resub \in Seq(Slots) /\ refused \subseteq Slots
      /\ \A j \in DOMAIN entries : entries[j].slot \in Slots
  BY DEF Inv, TypeOK
<1>6. /\ resub' \in Seq(Slots) /\ refused' \subseteq Slots /\ ToSet(resub') \subseteq ToSet(resub)
      /\ i \in DOMAIN entries => entries[i].slot \notin ToSet(resub')
  <2>1. CASE ~Awaited(i)
    BY <1>3, <1>4, <1>5, <2>1
  <2>2. CASE Awaited(i)
    <3>1. PICK s : s = entries[i].slot
      OBVIOUS
    <3>2. s \in Slots
      BY <1>5, <2>2, <3>1 DEF Awaited
    <3>3. resub' = Kept(resub, Slots \ {s}) /\ refused' = refused \cup {s}
      BY <1>3, <2>2, <3>1
    <3>4. resub' \in Seq(Slots) /\ ToSet(resub') = ToSet(resub) \cap (Slots \ {s})
      BY <1>5, <3>3, InKept
    <3> QED
      BY <1>5, <3>1, <3>2, <3>3, <3>4
  <2> QED
    BY <2>1, <2>2
<1>7. Session' = Session
  BY DEF Session
<1>8. TypeOK'
  BY <1>1, <1>2, <1>6 DEF Inv, TypeOK
<1>9. IdsUsed' /\ AckedTagged' /\ ServedKnown' /\ Prices'
  BY <1>1, <1>2 DEF Inv, IdsUsed, AckedTagged, ServedKnown, Prices
<1>10. Registered'
  BY <1>1, <1>6 DEF Inv, Registered
<1>11. Unserved'
  <2>1. link # "down"
    BY DEF Inv, Unserved
  <2> QED
    BY <1>1, <2>1 DEF Inv, Unserved
<1>12. HeldFresh' /\ Refusals'
  BY <1>1, <1>2 DEF Inv, HeldFresh, Refusals
<1>13. TagsMean'
  <2>1. PICK G : Means(G)
    BY DEF Inv, TagsMean
  <2>2. Means(G)'
    BY <1>1, <1>2, <1>7, <2>1 DEF Means
  <2> QED
    BY <2>2 DEF TagsMean
<1>14. Asked'
  <2>1. \A j \in DOMAIN entries : entries[j].slot \in ToSet(resub') =>
           (RejectMsg(j) \in ToSet(wire) => RejectMsg(j) \in ToSet(wire'))
    BY <1>2, <1>3, <1>6, MessageTypes
  <2> QED
    BY <1>1, <1>6, <2>1, AskedStays
<1> QED
  BY <1>8, <1>9, <1>10, <1>11, <1>12, <1>13, <1>14 DEF Inv

\* Or the subscription is asked for again, with delayed data.
LEMMA ReadDelayedKeeps ==
    ASSUME Inv, wire # <<>>, NEW n, n = Head(wire), n.kind = "reject",
           held' = held, link' = link, losses' = losses, UNCHANGED <<con, prices, mixed>>,
           NEW s, s = entries[n.id].slot, Awaited(n.id), s \in ToSet(resub),
           SubscribeTop(<<s>>, entries), Send(SubMsgs(<<s>>), Tail(wire)), UNCHANGED refused
    PROVE  Inv'
<1>1. /\ con' = con /\ tags' = tags /\ ended' = ended /\ kept' = kept /\ quote' = quote
      /\ shown' = shown /\ mixed' = mixed /\ refused' = refused
  BY DEF prices
<1>2. PICK B : B = Tail(wire)
  OBVIOUS
<1>3. /\ n \in Messages /\ B \in Seq(Messages)
      /\ n \in ToSet(wire) /\ ToSet(B) \subseteq ToSet(wire)
      /\ \A m \in ToSet(wire) : m = n \/ m \in ToSet(B)
  BY <1>2, FirstRead
<1>4. link # "down"
  BY DEF Inv, Unserved
<1>5. /\ DOMAIN entries \subseteq Ids /\ nextId \in Int /\ resub \in Seq(Slots)
      /\ \A i \in DOMAIN entries : entries[i] \in [slot : Slots, con : Contracts, waiting : BOOLEAN]
      /\ \A i \in DOMAIN entries : i < nextId
      /\ ToSet(held) \subseteq Orders /\ ToSet(wire) \subseteq Messages /\ served \subseteq Ids \X Contracts
      /\ TypeOK
  BY InSet DEF Inv, TypeOK, IdsUsed
<1>6. n.id \in DOMAIN entries /\ s \in Slots /\ con[s] \in Contracts
  BY <1>5 DEF Awaited, Inv, Registered
<1>7. PICK ss : ss = <<s>>
  OBVIOUS
<1>8. ss \in Seq(Slots) /\ ToSet(ss) = {s}
  <2>1. ss \in Seq(Slots) /\ Len(ss) = 1 /\ ss[1] = s
    BY <1>6, <1>7
  <2> QED
    BY <2>1, InSet
<1>9. /\ nextId' \in 1 .. MaxEntries + 1 /\ nextId' >= nextId
      /\ resub' \in Seq(Slots) /\ ToSet(resub') = ToSet(resub) \cup ToSet(ss)
      /\ SubMsgs(ss) \in Seq(Orders)
      /\ \E N : NewEntries(N, ToSet(ss), entries, ToSet(SubMsgs(ss)))
  <2>1. SubscribeTop(ss, entries)
    BY <1>7
  <2>2. \A t \in ToSet(ss) : con'[t] \in Contracts
    BY <1>1, <1>6, <1>8
  <2>3. \A i \in DOMAIN entries : i \in Ids /\ i < nextId
    BY <1>5
  <2> QED
    BY <1>5, <1>8, <2>1, <2>2, <2>3, Made, Zenon
<1>10. PICK M : M = ToSet(SubMsgs(ss))
  OBVIOUS
<1>11. PICK N : NewEntries(N, {s}, entries, M)
  BY <1>8, <1>9, <1>10
<1>12. /\ \A i \in N : i \in Ids /\ i >= nextId /\ i < nextId'
       /\ DOMAIN entries' = DOMAIN entries \cup N
       /\ \A i \in DOMAIN entries : entries'[i] = entries[i]
       /\ \A i \in N : /\ entries'[i] \in [slot : Slots, con : Contracts, waiting : BOOLEAN]
                       /\ entries'[i].slot = s
                       /\ entries'[i].con = con[s]
                       /\ entries'[i].waiting
       /\ \E i \in N : entries'[i].slot = s
       /\ \A m : m \in M <=> \E i \in N : m = SubMsg(i, con[s])
  BY <1>1, <1>11 DEF NewEntries
<1>13. nextId' \in Int /\ ToSet(resub') = ToSet(resub)
  BY <1>8, <1>9
<1>14. \A i \in Ids : i < nextId => i < nextId' /\ i \notin N
  BY <1>5, <1>9, <1>12, <1>13, Numbers
<1>15. M \subseteq Orders /\ Sent(M, B)
      /\ wire' \in Seq(Messages) /\ ToSet(B) \subseteq ToSet(wire')
      /\ served' \subseteq Ids \X Contracts /\ tagOf' \in [Contracts -> Tags \cup {0}]
      /\ stray' \subseteq Ids
  <2>1. PICK g : g = SubMsgs(ss)
    OBVIOUS
  <2>2. g \in Seq(Orders) /\ ToSet(g) = M /\ Send(g, B)
    BY <1>2, <1>7, <1>9, <1>10, <2>1
  <2>3. M \subseteq Orders
    BY <2>2, InSet
  <2> QED
    BY ONLY <1>3, <1>5, <2>2, <2>3, SendOf DEF Sent
<1>16. \A m \in M : m.kind = "sub" /\ m.id \in N /\ m.con = con[s]
  BY <1>12, MessageTypes
<1>17. Subs(M) = M /\ \A j : ~Cancels(M, j)
  BY <1>16 DEF Subs, Cancels
<1>18. \A m \in ToSet(held) : m.id \in Ids /\ m.id < nextId
  BY <1>5 DEF Inv, IdsUsed, Orders
<1>19. \A m \in ToSet(wire) : m.kind # "tick" => m.id \in Ids /\ m.id < nextId
  BY <1>5 DEF Inv, IdsUsed, Messages
<1>20. TypeOK'
  <2>1. /\ DOMAIN entries' \subseteq Ids
        /\ \A i \in DOMAIN entries' : entries'[i] \in [slot : Slots, con : Contracts, waiting : BOOLEAN]
    BY <1>5, <1>12
  <2> QED
    BY <1>1, <1>9, <1>15, <2>1 DEF Inv, TypeOK
<1>21. /\ \A e \in served' : e[1] < nextId'
       /\ \A m \in ToSet(wire') : m.kind # "tick" => m.id < nextId'
       /\ Unserved' /\ Refusals'
  <2>1. \A m \in ToSet(B) : m.kind = "reject" /\ m.id \in DOMAIN entries' => entries'[m.id].waiting
    BY <1>3, <1>12 DEF Inv, Refusals
  <2>2. \A q \in Subs(M) : /\ q.id < nextId'
                           /\ q.id \in DOMAIN entries' => entries'[q.id].waiting
                           /\ \A w \in ToSet(B) : w.kind # "tick" => w.id # q.id
    <3>1. \A q \in Subs(M) : q.id \in N
      BY <1>16, <1>17
    <3> QED
      BY <1>3, <1>12, <1>14, <1>19, <3>1
  <2> QED
    BY <1>3, <1>4, <1>9, <1>13, <1>15, <2>1, <2>2, SentKnown
<1>22. IdsUsed'
  <2>1. \A i \in DOMAIN entries' : i < nextId'
    BY <1>5, <1>12, <1>14
  <2>2. \A m \in ToSet(held') : m.id < nextId'
    BY <1>14, <1>18
  <2> QED
    BY <1>21, <2>1, <2>2 DEF IdsUsed
<1>23. Registered'
  BY <1>1, <1>12, <1>13 DEF Inv, Registered
<1>24. HeldFresh'
  <2>1. SUFFICES ASSUME NEW m \in ToSet(held)
                 PROVE  /\ m.kind = "cancel" => m.id \notin DOMAIN entries'
                        /\ m.kind = "sub" =>
                          /\ \A e \in served' : e[1] # m.id
                          /\ \A w \in ToSet(wire') : w.kind # "tick" => w.id # m.id
                          /\ m.id \in DOMAIN entries' => entries'[m.id].waiting /\ entries'[m.id].con = m.con
    BY DEF HeldFresh
  <2>2. m.id \notin N
    BY <1>14, <1>18
  <2>3. \A e \in served' : e \in served \/ e[1] \in N
    <3>1. CASE link # "up"
      BY <1>15, <3>1 DEF Sent
    <3>2. CASE link = "up"
      <4>1. PICK no : Answered(M, B, no)
        BY <1>15, <3>2 DEF Sent
      <4>2. TAKE e \in served'
      <4>3. e \in served \/ \E q \in Subs(M) : e = <<q.id, q.con>>
        BY <4>1 DEF Answered
      <4> QED
        BY <1>16, <1>17, <4>3
    <3> QED
      BY <3>1, <3>2
  <2>4. \A w \in ToSet(wire') : w.kind # "tick" => w \in ToSet(wire) \/ w.id \in N
    <3>1. CASE link # "up"
      BY <1>3, <1>15, <3>1 DEF Sent
    <3>2. CASE link = "up"
      <4>1. PICK no : Answered(M, B, no)
        BY <1>15, <3>2 DEF Sent
      <4>2. TAKE w \in ToSet(wire')
      <4>3. CASE w \in ToSet(B)
        BY <1>3, <4>3
      <4>4. CASE \E q \in Subs(M) : w = RejectMsg(q.id) \/ w = AckMsg(q.id, tagOf'[q.con])
        <5>1. PICK q \in Subs(M) : w = RejectMsg(q.id) \/ w = AckMsg(q.id, tagOf'[q.con])
          BY <4>4
        <5>2. w.id = q.id /\ q.id \in N
          BY <1>16, <1>17, <5>1, MessageTypes
        <5> QED
          BY <5>2
      <4> QED
        BY <4>1, <4>3, <4>4 DEF Answered
    <3> QED
      BY <3>1, <3>2
  <2>5. /\ m.kind = "cancel" => m.id \notin DOMAIN entries
        /\ m.kind = "sub" =>
             /\ \A e \in served : e[1] # m.id
             /\ \A w \in ToSet(wire) : w.kind # "tick" => w.id # m.id
             /\ m.id \in DOMAIN entries => entries[m.id].waiting /\ entries[m.id].con = m.con
    BY DEF Inv, HeldFresh
  <2> QED
    BY <1>12, <2>2, <2>3, <2>4, <2>5
<1>25. TagsMean'
  <2>1. \A m \in ToSet(B) : m.kind = "ack" /\ m.id \in DOMAIN entries' =>
              m.id \in DOMAIN entries /\ entries'[m.id].con = entries[m.id].con
    BY <1>3, <1>12, <1>14, <1>19
  <2>2. \A q \in Subs(M) : q.id \in DOMAIN entries' => entries'[q.id].con = q.con
    BY <1>12, <1>16, <1>17
  <2> QED
    BY <1>1, <1>3, <1>15, <2>1, <2>2, SentMeans
<1>26. Prices'
  BY <1>1 DEF Inv, Prices
<1>27. AckedTagged'
  BY <1>1, <1>12 DEF Inv, AckedTagged
<1>28. ServedKnown'
  <2>1. SUFFICES ASSUME NEW e \in served'
                 PROVE  e[1] \in DOMAIN entries' \cup stray' \/ Cancels(ToSet(held), e[1])
    BY DEF ServedKnown
  <2>2. CASE link # "up"
    BY <1>15, <2>1, <2>2 DEF Inv, Unserved, Sent
  <2>3. CASE link = "up"
    <3>1. PICK no : Answered(M, B, no)
      BY <1>15, <2>3 DEF Sent
    <3>2. e \in served \/ e[1] \in DOMAIN entries' \cup stray'
      BY <3>1 DEF Answered
    <3>3. stray \subseteq stray'
      BY <3>1 DEF Answered
    <3> QED
      BY <1>12, <3>2, <3>3 DEF Inv, ServedKnown
  <2> QED
    BY <2>2, <2>3
<1>29. Asked'
  <2>1. SUFFICES ASSUME link = "up", NEW t \in ToSet(resub)
                 PROVE  \E i \in DOMAIN entries' :
                          /\ entries'[i].slot = t
                          /\ \/ <<i, con[t]>> \in served' \/ RejectMsg(i) \in ToSet(wire')
                             \/ SubMsg(i, con[t]) \in ToSet(held)
    BY <1>1, <1>13 DEF Asked
  <2>2. PICK no : Answered(M, B, no)
    BY <1>15, <2>1 DEF Sent
  <2>3. CASE t = s
    <3>1. PICK i \in N : entries'[i].slot = s
      BY <1>12
    <3>2. PICK q : q = SubMsg(i, con[s])
      OBVIOUS
    <3>3. q \in Subs(M) /\ q.id = i /\ q.con = con[s] /\ i \in DOMAIN entries'
      BY <1>12, <1>17, <3>2, MessageTypes
    <3>4. CASE q.id \in no
      BY <2>2, <2>3, <3>1, <3>3, <3>4 DEF Answered
    <3>5. CASE q.id \notin no
      <4>1. <<q.id, q.con>> \in served'
        BY <1>17, <2>2, <3>3, <3>5 DEF Answered
      <4> QED
        BY <2>3, <3>1, <3>3, <4>1
    <3> QED
      BY <3>4, <3>5
  <2>4. CASE t # s
    <3>1. PICK i \in DOMAIN entries :
             /\ entries[i].slot = t
             /\ <<i, con[t]>> \in served \/ RejectMsg(i) \in ToSet(wire) \/ SubMsg(i, con[t]) \in ToSet(held)
      BY <2>1 DEF Inv, Asked
    <3>2. i \in DOMAIN entries' /\ entries'[i].slot = t
      BY <1>12, <3>1
    <3>3. RejectMsg(i) \in ToSet(wire) => RejectMsg(i) \in ToSet(wire')
      <4>1. RejectMsg(i) # n
        BY <2>4, <3>1, MessageTypes
      <4> QED
        BY <1>3, <1>15, <4>1
    <3>4. <<i, con[t]>> \in served => <<i, con[t]>> \in served'
      BY <1>17, <2>2 DEF Answered
    <3> QED
      BY ONLY <3>1, <3>2, <3>3, <3>4, Zenon
  <2> QED
    BY <2>3, <2>4
<1> QED
  BY <1>20, <1>21, <1>22, <1>23, <1>24, <1>25, <1>26, <1>27, <1>28, <1>29 DEF Inv

LEMMA ReadFarmKeeps ==
    ASSUME Inv, ReadFarm PROVE Inv'
<1>1. PICK n : n = Head(wire)
  OBVIOUS
<1>2. /\ wire # <<>> /\ held' = held /\ link' = link /\ losses' = losses
      /\ \/ n.kind = "ack" /\ ReadAck(n.id, n.tag)
         \/ n.kind = "reject" /\ ReadReject(n.id)
         \/ n.kind = "tick" /\ ReadTick(n.tag, n.con)
  BY <1>1 DEF ReadFarm
<1>3. CASE n.kind = "ack" /\ ReadAck(n.id, n.tag)
  BY <1>1, <1>2, <1>3, ReadAckKeeps
<1>4. CASE n.kind = "tick" /\ ReadTick(n.tag, n.con)
  BY <1>1, <1>2, <1>4, ReadTickKeeps
<1>5. CASE n.kind = "reject" /\ ReadReject(n.id)
  <2>1. PICK s : s = entries[n.id].slot
    OBVIOUS
  <2>2. UNCHANGED <<con, prices, mixed>>
    BY <1>5 DEF ReadReject
  <2>3. \/ ~Awaited(n.id) /\ wire' = Tail(wire) /\ UNCHANGED <<subs, refused, served, tagOf, stray>>
        \/ /\ Awaited(n.id)
           /\ resub' = Kept(resub, Slots \ {s})
           /\ refused' = refused \cup {s}
           /\ wire' = Tail(wire)
           /\ UNCHANGED <<entries, nextId, served, tagOf, stray>>
        \/ /\ Awaited(n.id) /\ s \in ToSet(resub)
           /\ SubscribeTop(<<s>>, entries)
           /\ Send(SubMsgs(<<s>>), Tail(wire))
           /\ UNCHANGED refused
    BY <1>5, <2>1, Zenon DEF ReadReject
  <2>4. CASE ~Awaited(n.id) /\ wire' = Tail(wire) /\ UNCHANGED <<subs, refused, served, tagOf, stray>>
    <3>1. /\ UNCHANGED <<entries, nextId, served, tagOf, stray>>
          /\ ~Awaited(n.id) /\ resub' = resub /\ refused' = refused
      BY <2>4 DEF subs
    <3> QED
      BY <1>1, <1>2, <1>5, <2>2, <2>4, <3>1, ReadRefusalKeeps, Zenon
  <2>5. CASE /\ Awaited(n.id)
             /\ resub' = Kept(resub, Slots \ {s})
             /\ refused' = refused \cup {s}
             /\ wire' = Tail(wire)
             /\ UNCHANGED <<entries, nextId, served, tagOf, stray>>
    BY <1>1, <1>2, <1>5, <2>1, <2>2, <2>5, ReadRefusalKeeps, Zenon
  <2>6. CASE /\ Awaited(n.id) /\ s \in ToSet(resub)
             /\ SubscribeTop(<<s>>, entries)
             /\ Send(SubMsgs(<<s>>), Tail(wire))
             /\ UNCHANGED refused
    BY <1>1, <1>2, <1>5, <2>1, <2>2, <2>6, ReadDelayedKeeps, Zenon
  <2> QED
    BY <2>3, <2>4, <2>5, <2>6
<1> QED
  BY <1>2, <1>3, <1>4, <1>5

LEMMA StutterKeeps ==
    ASSUME Inv, UNCHANGED vars PROVE Inv'
<1>1. /\ con' = con /\ entries' = entries /\ resub' = resub /\ nextId' = nextId
      /\ held' = held /\ tags' = tags /\ ended' = ended /\ kept' = kept /\ quote' = quote
      /\ shown' = shown /\ refused' = refused /\ link' = link /\ served' = served /\ tagOf' = tagOf
      /\ wire' = wire /\ losses' = losses /\ mixed' = mixed /\ stray' = stray
  BY DEF vars, subs, prices, farm, history
<1>2. TypeOK' /\ IdsUsed' /\ Registered' /\ Unserved' /\ HeldFresh' /\ Refusals'
  BY <1>1 DEF Inv, TypeOK, IdsUsed, Registered, Unserved, HeldFresh, Refusals
<1>3. TagsMean'
  BY <1>1 DEF Inv, TagsMean, Means, Session
<1>4. Prices' /\ AckedTagged' /\ ServedKnown' /\ Asked'
  BY <1>1 DEF Inv, Prices, AckedTagged, ServedKnown, Asked
<1> QED
  BY <1>2, <1>3, <1>4 DEF Inv

LEMMA StepKeeps ==
    ASSUME Inv, [Next]_vars PROVE Inv'
<1>1. CASE \E s \in Slots, c \in Contracts : Subscribe(s, c)
  BY <1>1, SubscribeKeeps
<1>2. CASE \E s \in Slots, reclaimed \in BOOLEAN : Unsubscribe(s, reclaimed)
  BY <1>2, UnsubscribeKeeps
<1>3. CASE \E c \in Contracts : FarmTick(c)
  BY <1>3, FarmTickKeeps
<1> QED
  BY <1>1, <1>2, <1>3, SendPassKeeps, PermissionChangeKeeps, ReadFarmKeeps, LinkLostKeeps,
     NoticeLossKeeps, ReconnectKeepsInv, StutterKeeps DEF Next

LEMMA InvHolds == Spec => []Inv
  BY Start, StepKeeps, PTL DEF Spec

\* The type invariant holds for every number of slots, contracts and entries.
THEOREM TopOfBookTypes == Spec => []TypeOK
<1>1. Inv => TypeOK
  BY DEF Inv
<1> QED
  BY <1>1, InvHolds, PTL

\* No slot shows the price of another contract, whatever acknowledgements and
\* data were on their way when it was given to its own: a tag leads to the slot
\* that has its contract, or to none (handle_subscription_ack, unregister).
THEOREM NoForeignPrice == Spec => []PriceOfItsContract
<1>1. Inv => PriceOfItsContract
  BY DEF Inv, Prices, PriceOfItsContract
<1> QED
  BY <1>1, InvHolds, PTL

\* Once the messages left and the link is up, every subscription is served or
\* its refusal is on its way: each entry of a subscription is asked for by a
\* message not yet sent, or was (subscribe_top, farm_lost, reconnect_farm).
THEOREM EverySubscriptionAsked == Spec => []AskedWhenUp
<1>1. ASSUME Inv PROVE AskedWhenUp
  <2>1. SUFFICES ASSUME link = "up", held = <<>>, NEW s \in ToSet(resub)
                 PROVE  \E i \in EntriesOf(s) : <<i, con[s]>> \in served \/ RejectMsg(i) \in ToSet(wire)
    BY DEF AskedWhenUp
  <2>2. ToSet(held) = {}
    BY <2>1, InNone
  <2>3. PICK i \in DOMAIN entries :
             /\ entries[i].slot = s
             /\ <<i, con[s]>> \in served \/ RejectMsg(i) \in ToSet(wire) \/ SubMsg(i, con[s]) \in ToSet(held)
    BY <1>1, <2>1 DEF Inv, Asked
  <2> QED
    BY <2>2, <2>3 DEF EntriesOf
<1> QED
  BY <1>1, InvHolds, PTL

\* The farm serves nothing the engine let go, but what is stray: an entry goes
\* with a cancel that is sent behind its request (cancel_top_entries, group).
THEOREM NothingServedUnwanted == Spec => []NothingLeftServed
<1>1. Inv => NothingLeftServed
  BY InNone DEF Inv, ServedKnown, Cancels, NothingLeftServed
<1> QED
  BY <1>1, InvHolds, PTL

\* An acknowledged subscription has a tag that leads to its contract's slot,
\* until the slot is given up or the farm lost (handle_subscription_ack).
THEOREM DataReachesItsSlot == Spec => []DataHasASlot
<1>1. Inv => DataHasASlot
  BY DEF Inv, AckedTagged, DataHasASlot
<1> QED
  BY <1>1, InvHolds, PTL
=============================================================================
