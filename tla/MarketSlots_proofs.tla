-------------------------- MODULE MarketSlots_proofs --------------------------
(***************************************************************************)
(* Proofs about MarketSlots: its types, no request forgotten, each request *)
(* reads its contract, and the slots are given back, for every number of   *)
(* requests, contracts and slots.                                          *)
(*                                                                         *)
(* The inductive invariant MarketInv(f) has three parts.  EngineInv is the *)
(* engine's table, true in every state.  Pairs(f) ties the slots told to   *)
(* the subscribe commands that wait for their turn, one to one and in      *)
(* order: f is the place of the command of each.  PictureInv and TurnInv   *)
(* are what client and engine know of each other's slots, true until a     *)
(* note is misread.  f is a bound variable: a step that takes a command    *)
(* gives another pairing.                                                  *)
(***************************************************************************)
EXTENDS MarketSlots, Picks_proofs

-----------------------------------------------------------------------------
(***************************************************************************)
(* The inductive invariant.                                                *)
(***************************************************************************)
\* A request reads the slot.
Read(s) == \E r \in Reqs : at[r] = s

\* The notes on their way: a merge that is not stale, a merge from a slot, a
\* refusal, one that is not stale, the end of a cancelled lookup.
FreshMerge(x, s) ==
    \E i \in 1 .. Len(merges) : merges[i].from = x /\ merges[i].into = s /\ ~merges[i].stale
MergeFrom(x) == \E i \in 1 .. Len(merges) : merges[i].from = x
Refused(s) == \E i \in 1 .. Len(rejects) : rejects[i].slot = s /\ ~rejects[i].cancelled
FreshRefused(s) ==
    \E i \in 1 .. Len(rejects) :
      rejects[i].slot = s /\ ~rejects[i].cancelled /\ ~rejects[i].stale
CancelNoted(s) == \E i \in 1 .. Len(rejects) : rejects[i].slot = s /\ rejects[i].cancelled

\* The slot is told for a contract, or (NoContract) for a symbol.
ToldFor(c, s) ==
    \E j \in 1 .. Len(slotsTold) : slotsTold[j][1] = c /\ slotsTold[j][2] = s

\* What the slot has of the farm, or would have had with a route; or it is
\* being looked up.
Busy(s) == s \in running \/ s \in parked \/ s \in unrouted
Holds(s) == Busy(s) \/ InLookup(s)

\* The table of slots: the free ones are free, and listed once.
FreeInv ==
    /\ \A i \in 1 .. Len(freeIds) : con[freeIds[i]] = FREE_SLOT /\ freeIds[i] <= active
    /\ \A i, j \in 1 .. Len(freeIds) : freeIds[i] = freeIds[j] => i = j
    /\ \A s \in Slots : s > active => con[s] = FREE_SLOT

\* The contract of a slot that is told, looked up, busy or the contract's.
ConInv ==
    /\ \A c \in Contracts, s \in Slots : ToldFor(c, s) => con[s] = c
    /\ \A s \in Slots : ToldFor(NoContract, s) => con[s] = Unresolved /\ ~InLookup(s)
    /\ \A s \in Slots : InLookup(s) => con[s] = Unresolved
    /\ \A s \in Slots : Busy(s) => con[s] \in Contracts
    /\ \A c \in Contracts : conMap[c] # NoSlot => con[conMap[c]] = c

\* A slot told for a symbol is told once and has one lookup.
OnceInv ==
    /\ \A i, j \in 1 .. Len(slotsTold) :
         slotsTold[i][1] = NoContract /\ slotsTold[j][2] = slotsTold[i][2] => i = j
    /\ \A l, k \in lookups : l.slot = k.slot => l = k
    /\ \A s \in lookupCancelled : InLookup(s)

ReqInv ==
    /\ \A r \in Reqs : phase[r] = "none" => at[r] = NoSlot
    /\ \A r \in Reqs : at[r] # NoSlot => of[r] \in Contracts

EngineInv == TypeOK /\ FreeInv /\ ConInv /\ OnceInv /\ ReqInv

\* The slot of a contract the client streams is of the contract, and read.
StreamsInv == \A c \in Contracts : conSlot[c] # NoSlot => con[conSlot[c]] = c /\ Read(conSlot[c])

\* A request reads its contract; what is looked up on its slot is that one.
ReadsInv ==
    /\ \A r \in Reqs : at[r] # NoSlot => con[at[r]] \in {Unresolved, of[r]}
    /\ \A l \in lookups, r \in Reqs : at[r] = l.slot => of[r] = l.con

\* A merge that is not stale: its slot is resolved and idle, the slot it joins
\* is of the same contract and busy or refused, and neither is let go.
MergeIdle(x) ==
    /\ con[x] \in Contracts /\ ~Holds(x) /\ ~Told(x) /\ x \notin follow /\ ~CancelOnItsWay(x)
    /\ \A c \in Contracts : conSlot[c] # x
MergeInto(x, s) ==
    /\ con[s] = con[x] /\ (Busy(s) \/ Refused(s)) /\ s \notin follow /\ ~CancelOnItsWay(s)
    /\ \A z \in Slots : ~FreshMerge(s, z)
MergeInv == \A x, s \in Slots : FreshMerge(x, s) => MergeIdle(x) /\ MergeInto(x, s)

\* A slot let go directly is not read, nor let go twice.
DirectInv ==
    /\ \A s \in ToSet(direct) : ~Read(s) /\ Unsubscribe(s) \notin ToSet(turn)
    /\ \A p, q \in 1 .. Len(direct) : direct[p] = direct[q] => p = q

\* A slot the client is about to let go after a merge is idle and not read.
FollowInv ==
    /\ pc = "idle" => follow = {}
    /\ \A s \in follow :
         ~Read(s) /\ ~Holds(s) /\ ~Told(s) /\ con[s] \in Contracts /\ ~CancelOnItsWay(s)

\* A slot whose lookup was cancelled is not read, and is let go once.
CancelledInv ==
    /\ \A s \in lookupCancelled : ~Read(s) /\ ~CancelOnItsWay(s)
    /\ \A s \in Slots : CancelNoted(s) =>
         con[s] = Unresolved /\ ~Read(s) /\ ~InLookup(s) /\ ~Told(s) /\ ~CancelOnItsWay(s)
    /\ \A s \in Slots : FreshRefused(s) => ~CancelOnItsWay(s)

\* A slot that is read waits.
WaitInv == \A s \in Slots : Read(s) => Holds(s) \/ Told(s) \/ Refused(s) \/ MergeFrom(s)

\* A slot in use is read, leaked, or about to be let go.
Owed(s) ==
    \/ Read(s) \/ s \in leaked \/ CancelOnItsWay(s) \/ s \in follow
    \/ s \in lookupCancelled \/ CancelNoted(s)
OwedInv == \A s \in Slots : con[s] # FREE_SLOT => Owed(s)

\* The slots told are those of the subscribe commands in turn, in their order:
\* f gives the place of the command.
Pairs(f) ==
    /\ f \in [1 .. Len(slotsTold) -> 1 .. Len(turn)]
    /\ \A i, j \in 1 .. Len(slotsTold) : i < j => f[i] < f[j]
    /\ \A p \in 1 .. Len(turn) :
         turn[p].kind # "unsubscribe" => \E j \in 1 .. Len(slotsTold) : f[j] = p
    /\ \A j \in 1 .. Len(slotsTold) :
         \/ turn[f[j]].kind = "subscribe" /\ slotsTold[j][1] = turn[f[j]].con
         \/ turn[f[j]].kind = "bySymbol" /\ slotsTold[j][1] = NoContract

\* A slot told after the place p.
Behind(f, p, s) == \E j \in 1 .. Len(slotsTold) : slotsTold[j][2] = s /\ p < f[j]

\* A slot that is read is told again after each unsubscribe of it in turn;
\* between two of them it was told; a slot told is read or leaked, or an
\* unsubscribe comes after it; and what a symbol names is what its request
\* asks for.
BehindInv(f) ==
    \A p \in 1 .. Len(turn), s \in Slots : turn[p] = Unsubscribe(s) /\ Read(s) => Behind(f, p, s)
BetweenInv(f) ==
    \A p, q \in 1 .. Len(turn), s \in Slots :
      turn[p] = Unsubscribe(s) /\ turn[q] = Unsubscribe(s) /\ p < q =>
        \E j \in 1 .. Len(slotsTold) : slotsTold[j][2] = s /\ p < f[j] /\ f[j] < q
ToldInv(f) ==
    \A j \in 1 .. Len(slotsTold), s \in Slots : slotsTold[j][2] = s =>
      \/ Read(s) \/ s \in leaked
      \/ \E q \in 1 .. Len(turn) : turn[q] = Unsubscribe(s) /\ f[j] < q
SymbolInv(f) ==
    \A j \in 1 .. Len(slotsTold), r \in Reqs :
      slotsTold[j][1] = NoContract /\ at[r] = slotsTold[j][2] => of[r] = turn[f[j]].con

TurnInv(f) == BehindInv(f) /\ BetweenInv(f) /\ ToldInv(f) /\ SymbolInv(f)

PictureInv ==
    /\ StreamsInv /\ ReadsInv /\ MergeInv /\ DirectInv /\ FollowInv /\ CancelledInv
    /\ WaitInv /\ OwedInv

MarketInv(f) == EngineInv /\ Pairs(f) /\ (~misread => PictureInv /\ TurnInv(f))

-----------------------------------------------------------------------------
(***************************************************************************)
(* The numbers, the commands, and what a step does to the sequences.       *)
(***************************************************************************)
LEMMA Numbers ==
    /\ MAX_INSTRUMENTS \in Nat \ {0} /\ MaxReqs \in Nat /\ MaxLosses \in Nat
    /\ Slots = 1 .. MAX_INSTRUMENTS /\ NoSlot = 0 /\ NoSlot \notin Slots /\ Slots \subseteq Nat
    /\ NoContract \notin Contracts /\ Unresolved \notin Contracts /\ FREE_SLOT \notin Contracts
    /\ Unresolved # FREE_SLOT
<1>1. /\ MAX_INSTRUMENTS \in Nat \ {0} /\ MaxReqs \in Nat /\ MaxLosses \in Nat
      /\ {NoContract, Unresolved, FREE_SLOT} \cap Contracts = {}
  BY MarketSlotsAssumption DEF Unresolved, FREE_SLOT
<1>2. Slots = 1 .. MAX_INSTRUMENTS /\ NoSlot = 0 /\ NoSlot \notin Slots /\ Slots \subseteq Nat
  BY <1>1 DEF Slots, NoSlot
<1>3. NoContract \notin Contracts /\ Unresolved \notin Contracts /\ FREE_SLOT \notin Contracts
  BY <1>1
<1>4. Unresolved # FREE_SLOT
  BY DEF Unresolved, FREE_SLOT
<1> QED
  BY <1>1, <1>2, <1>3, <1>4

Commands ==
    [kind : {"subscribe", "bySymbol"}, con : Contracts] \cup [kind : {"unsubscribe"}, slot : Slots]

LEMMA CommandsAre ==
    /\ \A c \in Contracts : Subscribe(c) \in Commands /\ SubscribeBySymbol(c) \in Commands
    /\ \A s \in Slots : Unsubscribe(s) \in Commands
    /\ \A s, t : Unsubscribe(s) = Unsubscribe(t) => s = t
    /\ \A s, c : Unsubscribe(s) # Subscribe(c) /\ Unsubscribe(s) # SubscribeBySymbol(c)
    /\ \A c : Subscribe(c).kind = "subscribe" /\ Subscribe(c).con = c
    /\ \A c : SubscribeBySymbol(c).kind = "bySymbol" /\ SubscribeBySymbol(c).con = c
    /\ \A s : Unsubscribe(s).kind = "unsubscribe" /\ Unsubscribe(s).slot = s
    /\ \A m \in Commands : m.kind \in {"subscribe", "bySymbol", "unsubscribe"}
    /\ \A m \in Commands : m.kind = "unsubscribe" => m.slot \in Slots /\ m = Unsubscribe(m.slot)
    /\ \A m \in Commands : m.kind # "unsubscribe" => m.con \in Contracts
<1>1. /\ \A c \in Contracts : Subscribe(c) \in Commands /\ SubscribeBySymbol(c) \in Commands
      /\ \A s \in Slots : Unsubscribe(s) \in Commands
  BY DEF Subscribe, SubscribeBySymbol, Unsubscribe, Commands
<1>2. \A s, t : Unsubscribe(s) = Unsubscribe(t) => s = t
  BY DEF Unsubscribe
<1>3. /\ \A c : Subscribe(c).kind = "subscribe" /\ Subscribe(c).con = c
      /\ \A c : SubscribeBySymbol(c).kind = "bySymbol" /\ SubscribeBySymbol(c).con = c
      /\ \A s : Unsubscribe(s).kind = "unsubscribe" /\ Unsubscribe(s).slot = s
  BY DEF Subscribe, SubscribeBySymbol, Unsubscribe
<1>4. \A s, c : Unsubscribe(s) # Subscribe(c) /\ Unsubscribe(s) # SubscribeBySymbol(c)
  BY <1>3
<1>5. /\ \A m \in Commands : m.kind \in {"subscribe", "bySymbol", "unsubscribe"}
      /\ \A m \in Commands : m.kind = "unsubscribe" => m.slot \in Slots /\ m = Unsubscribe(m.slot)
      /\ \A m \in Commands : m.kind # "unsubscribe" => m.con \in Contracts
  BY DEF Commands, Unsubscribe
<1> QED
  BY <1>1, <1>2, <1>3, <1>4, <1>5

LEMMA AppendAt ==
    ASSUME NEW E, NEW s \in Seq(E), NEW e \in E
    PROVE  /\ Append(s, e) \in Seq(E) /\ Len(s) \in Nat /\ Len(Append(s, e)) = Len(s) + 1
           /\ \A k \in 1 .. Len(s) : Append(s, e)[k] = s[k]
           /\ Append(s, e)[Len(s) + 1] = e
  OBVIOUS

LEMMA TailAt ==
    ASSUME NEW E, NEW s \in Seq(E), s # <<>>
    PROVE  /\ Tail(s) \in Seq(E) /\ Len(s) \in Nat \ {0} /\ Len(Tail(s)) = Len(s) - 1
           /\ \A k \in 1 .. Len(s) - 1 : Tail(s)[k] = s[k + 1]
           /\ Head(s) = s[1] /\ Head(s) \in E
  OBVIOUS

\* What a step leaves alone.
LEMMA SameAt == UNCHANGED at => \A s : Read(s)' <=> Read(s)
  BY DEF Read

LEMMA SameTold ==
    UNCHANGED slotsTold => \A s, c : (Told(s)' <=> Told(s)) /\ (ToldFor(c, s)' <=> ToldFor(c, s))
  BY DEF Told, ToldFor

LEMMA SameQueues == UNCHANGED queues => \A s : CancelOnItsWay(s)' <=> CancelOnItsWay(s)
  BY DEF CancelOnItsWay, queues

LEMMA SameMerges ==
    UNCHANGED merges =>
      \A x, s : (FreshMerge(x, s)' <=> FreshMerge(x, s)) /\ (MergeFrom(x)' <=> MergeFrom(x))
  BY DEF FreshMerge, MergeFrom

LEMMA SameRejects ==
    UNCHANGED rejects =>
      \A s : /\ Refused(s)' <=> Refused(s)
             /\ FreshRefused(s)' <=> FreshRefused(s)
             /\ CancelNoted(s)' <=> CancelNoted(s)
  BY DEF Refused, FreshRefused, CancelNoted

LEMMA SameFarm ==
    UNCHANGED <<running, parked, unrouted>> => \A s : Busy(s)' <=> Busy(s)
  BY DEF Busy

LEMMA SameLookups == UNCHANGED lookups => \A s : InLookup(s)' <=> InLookup(s)
  BY DEF InLookup

LEMMA Joins ==
    /\ \A s : Holds(s) <=> Busy(s) \/ InLookup(s)
    /\ \A s : Holds(s)' <=> Busy(s)' \/ InLookup(s)'
    /\ \A s : JoinsTop(s) => Holds(s)
  BY DEF Holds, Busy, JoinsTop

LEMMA ToldIs ==
    ASSUME TypeOK
    PROVE  /\ \A s : Told(s) <=> \E j \in 1 .. Len(slotsTold) : slotsTold[j][2] = s
           /\ \A s : Told(s) <=> ToldFor(NoContract, s) \/ \E c \in Contracts : ToldFor(c, s)
<1>1. slotsTold \in Seq((Contracts \cup {NoContract}) \X Slots)
  BY DEF TypeOK
<1>2. \A s : Told(s) <=> \E j \in 1 .. Len(slotsTold) : slotsTold[j][2] = s
  BY <1>1 DEF Told
<1>3. \A j \in 1 .. Len(slotsTold) : slotsTold[j][1] \in Contracts \cup {NoContract}
  BY <1>1
<1> QED
  BY <1>2, <1>3 DEF ToldFor

LEMMA ToldNext ==
    ASSUME TypeOK'
    PROVE  /\ \A s : Told(s)' <=> (\E j \in 1 .. Len(slotsTold) : slotsTold[j][2] = s)'
           /\ \A s : Told(s)' <=> ToldFor(NoContract, s)' \/ \E c \in Contracts : ToldFor(c, s)'
<1>1. slotsTold' \in Seq((Contracts \cup {NoContract}) \X Slots)
  BY DEF TypeOK
<1>2. \A s : Told(s)' <=> (\E j \in 1 .. Len(slotsTold) : slotsTold[j][2] = s)'
  BY <1>1 DEF Told
<1>3. \A j \in 1 .. Len(slotsTold') : slotsTold'[j][1] \in Contracts \cup {NoContract}
  BY <1>1
<1> QED
  BY <1>2, <1>3 DEF ToldFor

Merges  == [from : Slots, into : Slots, stale : BOOLEAN]
Rejects == [slot : Slots, cancelled : BOOLEAN, stale : BOOLEAN]

LEMMA MergeMarked ==
    ASSUME NEW m \in Merges, NEW c \in BOOLEAN
    PROVE  LET n == [m EXCEPT !.stale = c]
           IN  n \in Merges /\ n.from = m.from /\ n.into = m.into /\ n.stale = c
  BY DEF Merges

LEMMA RejectMarked ==
    ASSUME NEW m \in Rejects, NEW c \in BOOLEAN
    PROVE  LET n == [m EXCEPT !.stale = c]
           IN  n \in Rejects /\ n.slot = m.slot /\ n.cancelled = m.cancelled /\ n.stale = c
  BY DEF Rejects

\* The notes that become stale.
LEMMA MergesStale ==
    ASSUME TypeOK, NEW ss,
           merges' = [i \in DOMAIN merges |->
                        [merges[i] EXCEPT !.stale = @ \/ {merges[i].from, merges[i].into} \cap ss # {}]]
    PROVE  /\ merges' \in Seq(Merges)
           /\ \A x, s : FreshMerge(x, s)' <=> FreshMerge(x, s) /\ x \notin ss /\ s \notin ss
           /\ \A x : MergeFrom(x)' <=> MergeFrom(x)
<1>1. merges \in Seq(Merges)
  BY DEF TypeOK, Merges
<1>2. \A i \in 1 .. Len(merges) :
          /\ merges'[i] \in Merges
          /\ merges'[i].from = merges[i].from /\ merges'[i].into = merges[i].into
          /\ merges'[i].stale <=> merges[i].stale \/ {merges[i].from, merges[i].into} \cap ss # {}
  <2>1. TAKE i \in 1 .. Len(merges)
  <2>2. merges[i] \in Merges
    BY <1>1
  <2>3. PICK c \in BOOLEAN : c = (merges[i].stale \/ {merges[i].from, merges[i].into} \cap ss # {})
    OBVIOUS
  <2>4. merges'[i] = [merges[i] EXCEPT !.stale = c]
    BY <1>1, <2>3
  <2> QED
    BY ONLY <2>2, <2>3, <2>4, MergeMarked
<1>3. Len(merges) \in Nat /\ merges' = [i \in 1 .. Len(merges) |-> merges'[i]]
  BY <1>1
<1>4. merges' \in Seq(Merges) /\ Len(merges') = Len(merges)
  BY ONLY <1>2, <1>3
<1>5. \A i \in 1 .. Len(merges) :
          /\ merges'[i].from = merges[i].from /\ merges'[i].into = merges[i].into
          /\ merges'[i].stale <=> merges[i].stale \/ merges[i].from \in ss \/ merges[i].into \in ss
  BY ONLY <1>2
<1>6. /\ \A x, s : FreshMerge(x, s)' <=> FreshMerge(x, s) /\ x \notin ss /\ s \notin ss
      /\ \A x : MergeFrom(x)' <=> MergeFrom(x)
  BY ONLY <1>4, <1>5 DEF FreshMerge, MergeFrom
<1> QED
  BY <1>4, <1>6

LEMMA MergesToldAnew ==
    ASSUME TypeOK, NEW t, ToldAnew(t)
    PROVE  /\ merges' \in Seq(Merges)
           /\ \A x, s : FreshMerge(x, s)' <=> FreshMerge(x, s) /\ x # t
           /\ \A x : MergeFrom(x)' <=> MergeFrom(x)
<1>1. merges \in Seq(Merges)
  BY DEF TypeOK, Merges
<1>2. \A i \in 1 .. Len(merges) :
          /\ merges'[i] \in Merges
          /\ merges'[i].from = merges[i].from /\ merges'[i].into = merges[i].into
          /\ merges'[i].stale <=> merges[i].stale \/ merges[i].from = t
  <2>1. TAKE i \in 1 .. Len(merges)
  <2>2. merges[i] \in Merges
    BY <1>1
  <2>3. PICK c \in BOOLEAN : c = (merges[i].stale \/ merges[i].from = t)
    OBVIOUS
  <2>4. merges'[i] = [merges[i] EXCEPT !.stale = c]
    BY <1>1, <2>3 DEF ToldAnew
  <2> QED
    BY ONLY <2>2, <2>3, <2>4, MergeMarked
<1>3. Len(merges) \in Nat /\ merges' = [i \in 1 .. Len(merges) |-> merges'[i]]
  BY <1>1 DEF ToldAnew
<1>4. merges' \in Seq(Merges) /\ Len(merges') = Len(merges)
  BY ONLY <1>2, <1>3
<1> QED
  BY <1>2, <1>4 DEF FreshMerge, MergeFrom

LEMMA RejectsStale ==
    ASSUME TypeOK, NEW ss, Stale(ss, merges, rejects)
    PROVE  /\ rejects' \in Seq(Rejects)
           /\ \A s : Refused(s)' <=> Refused(s)
           /\ \A s : CancelNoted(s)' <=> CancelNoted(s)
           /\ \A s : FreshRefused(s)' <=> FreshRefused(s) /\ s \notin ss
<1>1. rejects \in Seq(Rejects)
  BY DEF TypeOK, Rejects
<1>2. \A i \in 1 .. Len(rejects) :
          /\ rejects'[i] \in Rejects
          /\ rejects'[i].slot = rejects[i].slot /\ rejects'[i].cancelled = rejects[i].cancelled
          /\ rejects'[i].stale <=> rejects[i].stale \/ rejects[i].slot \in ss
  <2>1. TAKE i \in 1 .. Len(rejects)
  <2>2. rejects[i] \in Rejects
    BY <1>1
  <2>3. PICK c \in BOOLEAN : c = (rejects[i].stale \/ rejects[i].slot \in ss)
    OBVIOUS
  <2>4. rejects'[i] = [rejects[i] EXCEPT !.stale = c]
    BY <1>1, <2>3 DEF Stale
  <2> QED
    BY ONLY <2>2, <2>3, <2>4, RejectMarked
<1>3. Len(rejects) \in Nat /\ rejects' = [i \in 1 .. Len(rejects) |-> rejects'[i]]
  BY <1>1 DEF Stale
<1>4. rejects' \in Seq(Rejects) /\ Len(rejects') = Len(rejects)
  BY ONLY <1>2, <1>3
<1> QED
  BY <1>2, <1>4 DEF Refused, CancelNoted, FreshRefused

\* A refusal is pushed.
LEMMA RejectPushed ==
    ASSUME TypeOK, NEW t \in Slots, NEW b \in BOOLEAN, PushReject(t, b)
    PROVE  /\ rejects' \in Seq(Rejects)
           /\ \A s : Refused(s)' <=> Refused(s) \/ (s = t /\ ~b)
           /\ \A s : CancelNoted(s)' <=> CancelNoted(s) \/ (s = t /\ b)
           /\ \A s : FreshRefused(s)' <=> FreshRefused(s) \/ (s = t /\ ~b /\ ~CancelOnItsWay(t))
<1>1. rejects \in Seq(Rejects)
  BY DEF TypeOK, Rejects
<1>2. PICK c \in BOOLEAN : c = CancelOnItsWay(t)
  BY DEF CancelOnItsWay
<1>3. PICK m : m = [slot |-> t, cancelled |-> b, stale |-> c]
  OBVIOUS
<1>4. m \in Rejects /\ m.slot = t /\ m.cancelled = b /\ m.stale = c
  BY <1>3 DEF Rejects
<1>5. rejects' = Append(rejects, m)
  BY <1>2, <1>3 DEF PushReject
<1>6. /\ rejects' \in Seq(Rejects) /\ Len(rejects) \in Nat /\ Len(rejects') = Len(rejects) + 1
      /\ \A k \in 1 .. Len(rejects) : rejects'[k] = rejects[k]
      /\ rejects'[Len(rejects) + 1] = m
  BY <1>1, <1>4, <1>5, AppendAt
<1>7. \A i \in 1 .. Len(rejects') : i \in 1 .. Len(rejects) \/ i = Len(rejects) + 1
  BY <1>6
<1>8. 1 .. Len(rejects) \subseteq 1 .. Len(rejects') /\ Len(rejects) + 1 \in 1 .. Len(rejects')
  BY <1>6
<1>9. \A s : Refused(s)' <=> Refused(s) \/ (s = t /\ ~b)
  BY <1>4, <1>6, <1>7, <1>8 DEF Refused
<1>10. \A s : CancelNoted(s)' <=> CancelNoted(s) \/ (s = t /\ b)
  BY <1>4, <1>6, <1>7, <1>8 DEF CancelNoted
<1>11. \A s : FreshRefused(s)' <=> FreshRefused(s) \/ (s = t /\ ~b /\ ~CancelOnItsWay(t))
  BY <1>2, <1>4, <1>6, <1>7, <1>8 DEF FreshRefused
<1> QED
  BY <1>6, <1>9, <1>10, <1>11

-----------------------------------------------------------------------------
(***************************************************************************)
(* The commands in turn and the slots told with them.                      *)
(***************************************************************************)
ToldTypes == (Contracts \cup {NoContract}) \X Slots

LEMMA SeqTypes ==
    ASSUME TypeOK
    PROVE  /\ turn \in Seq(Commands) /\ slotsTold \in Seq(ToldTypes) /\ direct \in Seq(Slots)
           /\ Len(turn) \in Nat /\ Len(slotsTold) \in Nat
           /\ \A j \in 1 .. Len(slotsTold) : slotsTold[j][2] \in Slots
<1>1. turn \in Seq(Commands) /\ slotsTold \in Seq(ToldTypes) /\ direct \in Seq(Slots)
  BY DEF TypeOK, Commands, ToldTypes
<1>2. \A j \in 1 .. Len(slotsTold) : slotsTold[j] \in ToldTypes
  BY <1>1
<1> QED
  BY <1>1, <1>2 DEF ToldTypes

LEMMA PairsKept ==
    ASSUME NEW f, Pairs(f), UNCHANGED <<turn, slotsTold>>
    PROVE  Pairs(f)'
  BY DEF Pairs

LEMMA TurnKept ==
    ASSUME NEW f, TypeOK, Pairs(f), TurnInv(f), UNCHANGED <<turn, slotsTold>>,
           leaked \subseteq leaked',
           \A s \in Slots : Read(s)' => Read(s) \/ Unsubscribe(s) \notin ToSet(turn),
           \A s \in Slots : Read(s) => Read(s)' \/ s \in leaked' \/ ~Told(s),
           \A r \in Reqs, s \in Slots :
             at'[r] = s /\ ToldFor(NoContract, s) => at[r] = s /\ of'[r] = of[r]
    PROVE  TurnInv(f)'
<1>1. /\ turn \in Seq(Commands) /\ Len(turn) \in Nat /\ Len(slotsTold) \in Nat
      /\ \A j \in 1 .. Len(slotsTold) : slotsTold[j][2] \in Slots
  BY SeqTypes
<1>2. \A p \in 1 .. Len(turn) : turn[p] \in ToSet(turn)
  BY <1>1, InSet
<1>3. \A j \in 1 .. Len(slotsTold) : Told(slotsTold[j][2])
  BY ToldIs
<1>4. BehindInv(f)'
  BY <1>2 DEF BehindInv, Behind, TurnInv
<1>5. BetweenInv(f)'
  BY DEF BetweenInv, TurnInv
<1>6. ToldInv(f)'
  BY <1>1, <1>3 DEF ToldInv, TurnInv
<1>7. SymbolInv(f)'
  BY <1>1 DEF SymbolInv, TurnInv, ToldFor
<1> QED
  BY <1>4, <1>5, <1>6, <1>7 DEF TurnInv

\* The last request of the slot is cancelled.
LEMMA TurnCancelled ==
    ASSUME NEW f, TypeOK, Pairs(f), NEW t \in Slots, turn' = Append(turn, Unsubscribe(t)),
           UNCHANGED slotsTold
    PROVE  /\ Pairs(f)'
           /\ TurnInv(f) /\ UNCHANGED <<leaked, of>> /\ Read(t) /\ ~Read(t)'
              /\ (\A s \in Slots : s # t => (Read(s)' <=> Read(s)))
              /\ (\A r \in Reqs : at'[r] \in {NoSlot, at[r]})
              => TurnInv(f)'
<1>1. /\ turn \in Seq(Commands) /\ Len(turn) \in Nat /\ Len(slotsTold) \in Nat
      /\ \A j \in 1 .. Len(slotsTold) : slotsTold[j][2] \in Slots
  BY SeqTypes
<1>2. PICK e \in Commands : e = Unsubscribe(t) /\ e.kind = "unsubscribe"
  BY CommandsAre
<1>3. PICK n \in Nat : n = Len(turn)
  BY <1>1
<1>4. /\ Len(turn') = n + 1
      /\ \A k \in 1 .. n : turn'[k] = turn[k]
      /\ turn'[n + 1] = e
  BY <1>1, <1>2, <1>3, AppendAt
<1>5. /\ \A k \in 1 .. n + 1 : k \in 1 .. n \/ k = n + 1
      /\ \A k \in 1 .. n : k \in 1 .. n + 1 /\ k < n + 1
      /\ n + 1 \in 1 .. n + 1
  BY <1>3
<1>6. /\ f \in [1 .. Len(slotsTold) -> 1 .. n]
      /\ \A j \in 1 .. Len(slotsTold) : f[j] \in 1 .. n
  BY <1>3 DEF Pairs
<1>7. Pairs(f)'
  <2>1. f \in [1 .. Len(slotsTold) -> 1 .. n + 1]
    BY <1>5, <1>6
  <2> QED
    BY <1>2, <1>3, <1>4, <1>5, <1>6, <2>1 DEF Pairs
<1>8. ASSUME TurnInv(f), UNCHANGED <<leaked, of>>, Read(t), ~Read(t)',
             \A s \in Slots : s # t => (Read(s)' <=> Read(s)),
             \A r \in Reqs : at'[r] \in {NoSlot, at[r]}
      PROVE  TurnInv(f)'
  <2>1. BehindInv(f)'
    <3>1. SUFFICES ASSUME NEW p \in 1 .. n + 1, NEW s \in Slots, turn'[p] = Unsubscribe(s), Read(s)'
                   PROVE  \E j \in 1 .. Len(slotsTold) : slotsTold[j][2] = s /\ p < f[j]
      BY <1>4 DEF BehindInv, Behind
    <3>2. s # t /\ p \in 1 .. n /\ turn[p] = Unsubscribe(s) /\ Read(s)
      BY <1>2, <1>4, <1>5, <1>8, <3>1, CommandsAre
    <3> QED
      BY <1>3, <1>8, <3>2 DEF TurnInv, BehindInv, Behind
  <2>2. BetweenInv(f)'
    <3>1. SUFFICES ASSUME NEW p \in 1 .. n + 1, NEW q \in 1 .. n + 1, NEW s \in Slots, p < q,
                          turn'[p] = Unsubscribe(s), turn'[q] = Unsubscribe(s)
                   PROVE  \E j \in 1 .. Len(slotsTold) : slotsTold[j][2] = s /\ p < f[j] /\ f[j] < q
      BY <1>4 DEF BetweenInv
    <3>2. CASE q \in 1 .. n
      <4>1. p \in 1 .. n
        BY <1>3, <3>1, <3>2
      <4> QED
        BY <1>3, <1>4, <1>8, <3>1, <3>2, <4>1 DEF TurnInv, BetweenInv
    <3>3. CASE q = n + 1
      <4>1. s = t /\ p \in 1 .. n /\ turn[p] = Unsubscribe(t)
        BY <1>2, <1>3, <1>4, <3>1, <3>3, CommandsAre
      <4>2. PICK j \in 1 .. Len(slotsTold) : slotsTold[j][2] = t /\ p < f[j]
        BY <1>3, <1>8, <4>1 DEF TurnInv, BehindInv, Behind
      <4> QED
        BY <1>5, <1>6, <3>3, <4>1, <4>2
    <3> QED
      BY <1>5, <3>2, <3>3
  <2>3. ToldInv(f)'
    <3>1. SUFFICES ASSUME NEW j \in 1 .. Len(slotsTold), NEW s \in Slots, s = slotsTold[j][2]
                   PROVE  \/ Read(s)' \/ s \in leaked
                          \/ \E q \in 1 .. n + 1 : turn'[q] = Unsubscribe(s) /\ f[j] < q
      BY <1>1, <1>4, <1>8 DEF ToldInv
    <3>2. CASE s = t
      BY <1>2, <1>4, <1>5, <1>6, <3>2
    <3>3. CASE s # t
      <4>1. \/ Read(s) \/ s \in leaked
            \/ \E q \in 1 .. n : turn[q] = Unsubscribe(s) /\ f[j] < q
        BY <1>3, <1>8, <3>1 DEF TurnInv, ToldInv
      <4> QED
        BY <1>4, <1>5, <1>8, <3>3, <4>1
    <3> QED
      BY <3>2, <3>3
  <2>4. SymbolInv(f)'
    <3>1. \A j \in 1 .. Len(slotsTold) : turn'[f[j]] = turn[f[j]]
      BY <1>4, <1>6
    <3>2. SUFFICES ASSUME NEW j \in 1 .. Len(slotsTold), NEW r \in Reqs,
                          slotsTold[j][1] = NoContract, at'[r] = slotsTold[j][2]
                   PROVE  of[r] = turn'[f[j]].con
      BY <1>8 DEF SymbolInv
    <3>3. at[r] = slotsTold[j][2]
      BY <1>1, <1>8, <3>2, Numbers
    <3> QED
      BY <1>8, <3>1, <3>2, <3>3 DEF SymbolInv, TurnInv
  <2> QED
    BY <2>1, <2>2, <2>3, <2>4 DEF TurnInv
<1> QED
  BY <1>7, <1>8

\* A slot is told, and its command takes its turn.
LEMMA TurnTold ==
    ASSUME NEW f, TypeOK, Pairs(f), NEW t \in Slots, NEW x \in Contracts \cup {NoContract},
           NEW c \in Contracts, NEW e \in Commands,
           turn' = Append(turn, e), slotsTold' = Append(slotsTold, <<x, t>>), e.con = c,
           \/ e.kind = "subscribe" /\ x = c
           \/ e.kind = "bySymbol" /\ x = NoContract
    PROVE  \E g : /\ Pairs(g)'
                  /\ \A r \in Reqs :
                       /\ TurnInv(f) /\ UNCHANGED leaked
                       /\ ~ToldFor(NoContract, t) /\ (x = NoContract => ~Read(t))
                       /\ \A s \in Slots : Read(s)' <=> Read(s) \/ s = t
                       /\ \A q \in Reqs : q # r => at'[q] = at[q] /\ of'[q] = of[q]
                       /\ of'[r] = c /\ at'[r] = t
                       => TurnInv(g)'
<1>1. /\ turn \in Seq(Commands) /\ slotsTold \in Seq(ToldTypes)
      /\ \A j \in 1 .. Len(slotsTold) : slotsTold[j][2] \in Slots
  BY SeqTypes
<1>2. PICK n \in Nat, m \in Nat : n = Len(turn) /\ m = Len(slotsTold)
  BY <1>1
<1>3. PICK d \in ToldTypes : d = <<x, t>> /\ d[1] = x /\ d[2] = t
  <2>1. <<x, t>> \in ToldTypes /\ <<x, t>>[1] = x /\ <<x, t>>[2] = t
    BY DEF ToldTypes
  <2> QED
    BY <2>1
<1>4. /\ Len(turn') = n + 1 /\ turn'[n + 1] = e
      /\ \A k \in 1 .. n : turn'[k] = turn[k]
  BY <1>1, <1>2, AppendAt
<1>5. /\ Len(slotsTold') = m + 1 /\ slotsTold'[m + 1] = d
      /\ \A j \in 1 .. m : slotsTold'[j] = slotsTold[j]
  BY <1>1, <1>2, <1>3, AppendAt
<1>a. Len(turn') = n + 1 /\ Len(slotsTold') = m + 1
  BY <1>4, <1>5
<1>6. /\ \A k \in 1 .. n + 1 : k \in 1 .. n \/ k = n + 1
      /\ \A k \in 1 .. n : k \in 1 .. n + 1 /\ k < n + 1
      /\ n + 1 \in 1 .. n + 1
  BY <1>2
<1>7. /\ \A j \in 1 .. m + 1 : j \in 1 .. m \/ j = m + 1
      /\ \A j \in 1 .. m : j \in 1 .. m + 1 /\ j < m + 1 /\ j # m + 1
      /\ m + 1 \in 1 .. m + 1
  BY <1>2
<1>8. PICK g : g = [j \in 1 .. m + 1 |-> IF j = m + 1 THEN n + 1 ELSE f[j]]
  OBVIOUS
<1>9. /\ f \in [1 .. m -> 1 .. n] /\ \A j \in 1 .. m : f[j] \in 1 .. n
      /\ \A i, j \in 1 .. m : i < j => f[i] < f[j]
      /\ \A p \in 1 .. n : turn[p].kind # "unsubscribe" => \E j \in 1 .. m : f[j] = p
      /\ \A j \in 1 .. m : \/ turn[f[j]].kind = "subscribe" /\ slotsTold[j][1] = turn[f[j]].con
                           \/ turn[f[j]].kind = "bySymbol" /\ slotsTold[j][1] = NoContract
  BY <1>2 DEF Pairs
<1>10. /\ g \in [1 .. m + 1 -> 1 .. n + 1] /\ g[m + 1] = n + 1
       /\ \A j \in 1 .. m : g[j] = f[j] /\ g[j] \in 1 .. n
  BY <1>6, <1>7, <1>8, <1>9
<1>11. Pairs(g)'
  <2>1. \A i, j \in 1 .. m + 1 : i < j => g[i] < g[j]
    <3>1. SUFFICES ASSUME NEW i \in 1 .. m + 1, NEW j \in 1 .. m + 1, i < j PROVE g[i] < g[j]
      OBVIOUS
    <3>2. i \in 1 .. m
      BY <1>2, <3>1
    <3>3. CASE j \in 1 .. m
      BY <1>9, <1>10, <3>1, <3>2, <3>3
    <3>4. CASE j = m + 1
      BY <1>6, <1>10, <3>2, <3>4
    <3> QED
      BY <1>7, <3>3, <3>4
  <2>2. \A p \in 1 .. n + 1 : turn'[p].kind # "unsubscribe" => \E j \in 1 .. m + 1 : g[j] = p
    <3>1. SUFFICES ASSUME NEW p \in 1 .. n + 1, turn'[p].kind # "unsubscribe"
                   PROVE  \E j \in 1 .. m + 1 : g[j] = p
      OBVIOUS
    <3>2. CASE p = n + 1
      BY <1>7, <1>10, <3>2
    <3>3. CASE p \in 1 .. n
      <4>1. PICK j \in 1 .. m : f[j] = p
        BY <1>4, <1>9, <3>1, <3>3
      <4> QED
        BY <1>7, <1>10, <4>1
    <3> QED
      BY <1>6, <3>2, <3>3
  <2>3. \A j \in 1 .. m + 1 :
          \/ turn'[g[j]].kind = "subscribe" /\ slotsTold'[j][1] = turn'[g[j]].con
          \/ turn'[g[j]].kind = "bySymbol" /\ slotsTold'[j][1] = NoContract
    <3>1. TAKE j \in 1 .. m + 1
    <3>2. CASE j = m + 1
      BY <1>3, <1>4, <1>5, <1>10, <3>2
    <3>3. CASE j \in 1 .. m
      BY <1>4, <1>5, <1>9, <1>10, <3>3
    <3> QED
      BY <1>7, <3>2, <3>3
  <2> QED
    BY <1>4, <1>5, <1>10, <2>1, <2>2, <2>3 DEF Pairs
<1>12. ASSUME NEW r \in Reqs, TurnInv(f), UNCHANGED leaked,
              ~ToldFor(NoContract, t), x = NoContract => ~Read(t),
              \A s \in Slots : Read(s)' <=> Read(s) \/ s = t,
              \A q \in Reqs : q # r => at'[q] = at[q] /\ of'[q] = of[q],
              of'[r] = c, at'[r] = t
       PROVE  TurnInv(g)'
  <2>1. BehindInv(g)'
    <3>1. SUFFICES ASSUME NEW p \in 1 .. n + 1, NEW s \in Slots, turn'[p] = Unsubscribe(s), Read(s)'
                   PROVE  \E j \in 1 .. m + 1 : slotsTold'[j][2] = s /\ p < g[j]
      BY ONLY <1>a, <3>1 DEF BehindInv, Behind
    <3>2. p \in 1 .. n /\ turn[p] = Unsubscribe(s)
      BY <1>4, <1>6, <3>1, CommandsAre
    <3>3. CASE s = t
      BY <1>3, <1>5, <1>6, <1>7, <1>10, <3>2, <3>3
    <3>4. CASE s # t
      <4>1. Read(s)
        BY <1>12, <3>1, <3>4
      <4>2. PICK j \in 1 .. m : slotsTold[j][2] = s /\ p < f[j]
        BY <1>2, <1>12, <3>2, <4>1 DEF TurnInv, BehindInv, Behind
      <4> QED
        BY <1>5, <1>7, <1>10, <4>2
    <3> QED
      BY <3>3, <3>4
  <2>2. BetweenInv(g)'
    <3>1. SUFFICES ASSUME NEW p \in 1 .. n + 1, NEW q \in 1 .. n + 1, NEW s \in Slots, p < q,
                          turn'[p] = Unsubscribe(s), turn'[q] = Unsubscribe(s)
                   PROVE  \E j \in 1 .. m + 1 : slotsTold'[j][2] = s /\ p < g[j] /\ g[j] < q
      BY ONLY <1>a, <3>1 DEF BetweenInv
    <3>2. p \in 1 .. n /\ q \in 1 .. n /\ turn[p] = Unsubscribe(s) /\ turn[q] = Unsubscribe(s)
      BY <1>4, <1>6, <3>1, CommandsAre
    <3>3. PICK j \in 1 .. m : slotsTold[j][2] = s /\ p < f[j] /\ f[j] < q
      BY <1>2, <1>12, <3>1, <3>2 DEF TurnInv, BetweenInv
    <3> QED
      BY <1>5, <1>7, <1>10, <3>3
  <2>3. ToldInv(g)'
    <3>1. SUFFICES ASSUME NEW j \in 1 .. m + 1, NEW s \in Slots, slotsTold'[j][2] = s
                   PROVE  \/ Read(s)' \/ s \in leaked
                          \/ \E q \in 1 .. n + 1 : turn'[q] = Unsubscribe(s) /\ g[j] < q
      BY <1>a, <1>12 DEF ToldInv
    <3>2. CASE j = m + 1
      BY <1>3, <1>5, <1>12, <3>1, <3>2
    <3>3. CASE j \in 1 .. m
      <4>1. s = slotsTold[j][2]
        BY <1>5, <3>1, <3>3
      <4>2. Read(s) \/ s \in leaked \/ \E q \in 1 .. n : turn[q] = Unsubscribe(s) /\ f[j] < q
        BY <1>2, <1>12, <3>3, <4>1 DEF TurnInv, ToldInv
      <4>3. CASE Read(s)
        BY <1>12, <4>3
      <4>4. CASE \E q \in 1 .. n : turn[q] = Unsubscribe(s) /\ f[j] < q
        BY <1>4, <1>6, <1>10, <3>3, <4>4
      <4> QED
        BY <4>2, <4>3, <4>4
    <3> QED
      BY <1>7, <3>2, <3>3
  <2>4. SymbolInv(g)'
    <3>1. SUFFICES ASSUME NEW j \in 1 .. m + 1, NEW q \in Reqs,
                          slotsTold'[j][1] = NoContract, at'[q] = slotsTold'[j][2]
                   PROVE  of'[q] = turn'[g[j]].con
      BY <1>5 DEF SymbolInv
    <3>2. CASE j = m + 1
      <4>1. x = NoContract /\ at'[q] = t
        BY <1>3, <1>5, <3>1, <3>2
      <4>2. q = r
        BY <1>12, <4>1 DEF Read
      <4> QED
        BY <1>4, <1>10, <1>12, <3>2, <4>2
    <3>3. CASE j \in 1 .. m
      <4>1. slotsTold[j][1] = NoContract /\ slotsTold[j][2] = at'[q] /\ turn'[g[j]] = turn[f[j]]
        BY <1>4, <1>5, <1>9, <1>10, <3>1, <3>3
      <4>2. q # r
        BY <1>2, <1>12, <3>3, <4>1 DEF ToldFor
      <4> QED
        BY <1>2, <1>12, <3>3, <4>1, <4>2 DEF TurnInv, SymbolInv
    <3> QED
      BY <1>7, <3>2, <3>3
  <2> QED
    BY <2>1, <2>2, <2>3, <2>4 DEF TurnInv
<1> QED
  BY <1>11, <1>12

\* A command that subscribes is taken in its turn: the slot told with it is
\* the first of those told.
LEMMA FirstTold ==
    ASSUME NEW f, TypeOK, Pairs(f), turn # <<>>, Head(turn).kind # "unsubscribe"
    PROVE  /\ slotsTold # <<>> /\ f[1] = 1 /\ 1 \in 1 .. Len(slotsTold)
           /\ \/ Head(turn).kind = "subscribe" /\ slotsTold[1][1] = Head(turn).con
              \/ Head(turn).kind = "bySymbol" /\ slotsTold[1][1] = NoContract
<1>1. turn \in Seq(Commands) /\ slotsTold \in Seq(ToldTypes) /\ Len(slotsTold) \in Nat
  BY SeqTypes
<1>2. Head(turn) = turn[1] /\ Len(turn) \in Nat \ {0} /\ 1 \in 1 .. Len(turn)
  BY <1>1, TailAt
<1>3. PICK j \in 1 .. Len(slotsTold) : f[j] = 1
  BY <1>2 DEF Pairs
<1>4. 1 \in 1 .. Len(slotsTold) /\ f[1] \in 1 .. Len(turn)
  BY <1>1, <1>3 DEF Pairs
<1>5. j = 1
  <2>1. CASE 1 < j
    BY <1>1, <1>3, <1>4, <2>1 DEF Pairs
  <2> QED
    BY ONLY <1>1, <1>3, <2>1
<1>6. slotsTold # <<>>
  BY ONLY <1>1, <1>4
<1> QED
  BY <1>2, <1>3, <1>4, <1>5, <1>6 DEF Pairs

LEMMA TurnTakenSubscribe ==
    ASSUME NEW f, TypeOK, Pairs(f), turn # <<>>, Head(turn).kind # "unsubscribe",
           turn' = Tail(turn), slotsTold' = Tail(slotsTold)
    PROVE  \E g : Pairs(g)' /\ (TurnInv(f) /\ UNCHANGED <<at, of, leaked>> => TurnInv(g)')
<1>1. turn \in Seq(Commands) /\ slotsTold \in Seq(ToldTypes) /\ slotsTold # <<>> /\ f[1] = 1
  BY SeqTypes, FirstTold
<1>2. PICK n \in Nat, m \in Nat : n + 1 = Len(turn) /\ m + 1 = Len(slotsTold)
  <2>1. Len(turn) \in Nat \ {0} /\ Len(slotsTold) \in Nat \ {0}
    BY <1>1, TailAt
  <2>2. Len(turn) - 1 \in Nat /\ Len(slotsTold) - 1 \in Nat
    BY <2>1
  <2> USE <2>1, <2>2
  <2>3. WITNESS Len(turn) - 1 \in Nat, Len(slotsTold) - 1 \in Nat
  <2> QED
    BY <2>1
<1>3. Len(turn') = n /\ \A k \in 1 .. n : turn'[k] = turn[k + 1]
  BY <1>1, <1>2, TailAt
<1>4. Len(slotsTold') = m /\ \A j \in 1 .. m : slotsTold'[j] = slotsTold[j + 1]
  BY <1>1, <1>2, TailAt
<1>a. Len(turn') = n /\ Len(slotsTold') = m
  BY <1>3, <1>4
<1>5. /\ \A k \in 1 .. n : k + 1 \in 1 .. n + 1 /\ (k + 1) - 1 = k
      /\ \A j \in 1 .. m : j + 1 \in 1 .. m + 1 /\ 1 < j + 1
      /\ 1 \in 1 .. m + 1
      /\ \A j \in 1 .. m + 1 : j # 1 => j - 1 \in 1 .. m /\ (j - 1) + 1 = j
      /\ \A k \in 1 .. n + 1 : k # 1 => k - 1 \in 1 .. n /\ (k - 1) + 1 = k
  BY ONLY <1>2
<1>6. /\ \A j \in 1 .. m + 1 : f[j] \in 1 .. n + 1
      /\ \A i, j \in 1 .. m + 1 : i < j => f[i] < f[j]
      /\ \A p \in 1 .. n + 1 : turn[p].kind # "unsubscribe" => \E j \in 1 .. m + 1 : f[j] = p
      /\ \A j \in 1 .. m + 1 : \/ turn[f[j]].kind = "subscribe" /\ slotsTold[j][1] = turn[f[j]].con
                               \/ turn[f[j]].kind = "bySymbol" /\ slotsTold[j][1] = NoContract
  BY <1>2 DEF Pairs
<1>7. PICK g : g = [j \in 1 .. m |-> f[j + 1] - 1]
  OBVIOUS
<1>8. \A j \in 1 .. m : 1 < f[j + 1] /\ f[j + 1] \in 1 .. n + 1
  BY ONLY <1>1, <1>5, <1>6
<1>9. /\ g \in [1 .. m -> 1 .. n]
      /\ \A j \in 1 .. m : g[j] \in 1 .. n /\ g[j] + 1 = f[j + 1]
  <2>1. \A j \in 1 .. m : g[j] = f[j + 1] - 1
    BY ONLY <1>7
  <2>2. \A j \in 1 .. m : g[j] \in 1 .. n /\ g[j] + 1 = f[j + 1]
    <3>1. TAKE j \in 1 .. m
    <3>2. PICK a \in Int : a = f[j + 1] /\ 1 < a /\ a \in 1 .. n + 1 /\ g[j] = a - 1
      BY ONLY <1>8, <2>1
    <3> QED
      BY ONLY <3>2
  <2> QED
    BY ONLY <1>7, <2>2
<1>10. Pairs(g)'
  <2>1. \A i, j \in 1 .. m : i < j => g[i] < g[j]
    <3>1. SUFFICES ASSUME NEW i \in 1 .. m, NEW j \in 1 .. m, i < j PROVE g[i] < g[j]
      OBVIOUS
    <3>2. i + 1 < j + 1
      BY ONLY <1>2, <3>1
    <3>3. f[i + 1] < f[j + 1]
      BY ONLY <1>5, <1>6, <3>2
    <3> QED
      BY ONLY <1>2, <1>9, <3>3
  <2>2. \A p \in 1 .. n : turn'[p].kind # "unsubscribe" => \E j \in 1 .. m : g[j] = p
    <3>1. SUFFICES ASSUME NEW p \in 1 .. n, turn'[p].kind # "unsubscribe"
                   PROVE  \E j \in 1 .. m : g[j] = p
      OBVIOUS
    <3>2. PICK j \in 1 .. m + 1 : f[j] = p + 1
      BY ONLY <1>3, <1>5, <1>6, <3>1
    <3>3. j # 1
      BY ONLY <1>1, <1>2, <3>2
    <3>4. PICK i \in 1 .. m : i + 1 = j
      BY ONLY <1>5, <3>3
    <3>5. g[i] + 1 = p + 1 /\ g[i] \in 1 .. n
      BY ONLY <1>9, <3>2, <3>4
    <3> QED
      BY ONLY <1>2, <3>4, <3>5
  <2>3. \A j \in 1 .. m :
          \/ turn'[g[j]].kind = "subscribe" /\ slotsTold'[j][1] = turn'[g[j]].con
          \/ turn'[g[j]].kind = "bySymbol" /\ slotsTold'[j][1] = NoContract
    <3>1. TAKE j \in 1 .. m
    <3>2. turn'[g[j]] = turn[f[j + 1]] /\ slotsTold'[j] = slotsTold[j + 1] /\ j + 1 \in 1 .. m + 1
      BY ONLY <1>3, <1>4, <1>5, <1>9
    <3> QED
      BY ONLY <1>6, <3>2
  <2> QED
    BY <1>a, <1>9, <2>1, <2>2, <2>3 DEF Pairs
<1>11. ASSUME TurnInv(f), UNCHANGED <<at, of, leaked>>
       PROVE  TurnInv(g)'
  <2>0. \A s : Read(s)' <=> Read(s)
    BY <1>11, SameAt
  <2>1. BehindInv(g)'
    <3>1. SUFFICES ASSUME NEW p \in 1 .. n, NEW s \in Slots, turn'[p] = Unsubscribe(s), Read(s)'
                   PROVE  \E j \in 1 .. m : slotsTold'[j][2] = s /\ p < g[j]
      BY ONLY <1>a, <3>1 DEF BehindInv, Behind
    <3>2. p + 1 \in 1 .. n + 1 /\ turn[p + 1] = Unsubscribe(s) /\ Read(s)
      BY ONLY <1>3, <1>5, <2>0, <3>1
    <3>3. PICK j \in 1 .. m + 1 : slotsTold[j][2] = s /\ p + 1 < f[j]
      BY ONLY <1>2, <1>11, <3>2 DEF TurnInv, BehindInv, Behind
    <3>4. j # 1
      BY ONLY <1>1, <1>2, <3>2, <3>3
    <3>5. PICK i \in 1 .. m : i + 1 = j
      BY ONLY <1>5, <3>4
    <3>6. slotsTold'[i][2] = s /\ p < g[i]
      BY ONLY <1>2, <1>4, <1>9, <3>3, <3>5
    <3> QED
      BY ONLY <3>6
  <2>2. BetweenInv(g)'
    <3>1. SUFFICES ASSUME NEW p \in 1 .. n, NEW q \in 1 .. n, NEW s \in Slots, p < q,
                          turn'[p] = Unsubscribe(s), turn'[q] = Unsubscribe(s)
                   PROVE  \E j \in 1 .. m : slotsTold'[j][2] = s /\ p < g[j] /\ g[j] < q
      BY ONLY <1>a, <3>1 DEF BetweenInv
    <3>2. /\ p + 1 \in 1 .. n + 1 /\ turn[p + 1] = Unsubscribe(s)
          /\ q + 1 \in 1 .. n + 1 /\ turn[q + 1] = Unsubscribe(s) /\ p + 1 < q + 1
      BY ONLY <1>2, <1>3, <1>5, <3>1
    <3>3. PICK j \in 1 .. m + 1 : slotsTold[j][2] = s /\ p + 1 < f[j] /\ f[j] < q + 1
      BY ONLY <1>2, <1>11, <3>2 DEF TurnInv, BetweenInv
    <3>4. j # 1
      BY ONLY <1>1, <1>2, <3>2, <3>3
    <3>5. PICK i \in 1 .. m : i + 1 = j
      BY ONLY <1>5, <3>4
    <3>6. slotsTold'[i][2] = s /\ p < g[i] /\ g[i] < q
      BY ONLY <1>2, <1>4, <1>9, <3>3, <3>5
    <3> QED
      BY ONLY <3>6
  <2>3. ToldInv(g)'
    <3>1. SUFFICES ASSUME NEW j \in 1 .. m, NEW s \in Slots, slotsTold'[j][2] = s
                   PROVE  \/ Read(s) \/ s \in leaked
                          \/ \E q \in 1 .. n : turn'[q] = Unsubscribe(s) /\ g[j] < q
      BY ONLY <1>a, <1>11, <2>0, <3>1 DEF ToldInv
    <3>2. j + 1 \in 1 .. m + 1 /\ slotsTold[j + 1][2] = s
      BY ONLY <1>4, <1>5, <3>1
    <3>3. \/ Read(s) \/ s \in leaked
          \/ \E q \in 1 .. n + 1 : turn[q] = Unsubscribe(s) /\ f[j + 1] < q
      BY ONLY <1>2, <1>11, <3>2 DEF TurnInv, ToldInv
    <3>4. ASSUME NEW q \in 1 .. n + 1, turn[q] = Unsubscribe(s), f[j + 1] < q
          PROVE  \E k \in 1 .. n : turn'[k] = Unsubscribe(s) /\ g[j] < k
      <4>1. q # 1
        BY ONLY <1>2, <1>8, <3>4
      <4>2. PICK k \in 1 .. n : k + 1 = q
        BY ONLY <1>5, <4>1
      <4>3. turn'[k] = Unsubscribe(s) /\ g[j] < k
        <5>1. g[j] + 1 < k + 1 /\ g[j] \in Int
          BY ONLY <1>9, <3>4, <4>2
        <5> QED
          BY ONLY <1>3, <3>4, <4>2, <5>1
      <4> QED
        BY ONLY <4>3
    <3> QED
      BY ONLY <3>3, <3>4
  <2>4. SymbolInv(g)'
    <3>1. SUFFICES ASSUME NEW j \in 1 .. m, NEW q \in Reqs,
                          slotsTold'[j][1] = NoContract, at[q] = slotsTold'[j][2]
                   PROVE  of[q] = turn'[g[j]].con
      BY ONLY <1>a, <1>11, <3>1 DEF SymbolInv
    <3>2. turn'[g[j]] = turn[f[j + 1]] /\ slotsTold'[j] = slotsTold[j + 1] /\ j + 1 \in 1 .. m + 1
      BY ONLY <1>3, <1>4, <1>5, <1>9
    <3> QED
      BY ONLY <1>2, <1>11, <3>1, <3>2 DEF TurnInv, SymbolInv
  <2> QED
    BY ONLY <2>1, <2>2, <2>3, <2>4 DEF TurnInv
<1> QED
  BY ONLY <1>10, <1>11

\* An unsubscribe is taken in its turn.
LEMMA TurnTakenUnsubscribe ==
    ASSUME NEW f, TypeOK, Pairs(f), turn # <<>>, Head(turn).kind = "unsubscribe",
           turn' = Tail(turn), UNCHANGED slotsTold
    PROVE  \E g : Pairs(g)' /\ (TurnInv(f) /\ UNCHANGED <<at, of, leaked>> => TurnInv(g)')
<1>1. turn \in Seq(Commands) /\ slotsTold \in Seq(ToldTypes) /\ Len(slotsTold) \in Nat
  BY SeqTypes
<1>2. PICK n \in Nat, m \in Nat : n + 1 = Len(turn) /\ m = Len(slotsTold)
  <2>1. Len(turn) \in Nat \ {0} /\ Len(slotsTold) \in Nat
    BY <1>1, TailAt
  <2>2. Len(turn) - 1 \in Nat
    BY <2>1
  <2> USE <2>1, <2>2
  <2>3. WITNESS Len(turn) - 1 \in Nat, Len(slotsTold) \in Nat
  <2> QED
    BY <2>1
<1>3. Len(turn') = n /\ (\A k \in 1 .. n : turn'[k] = turn[k + 1]) /\ turn[1].kind = "unsubscribe"
  BY <1>1, <1>2, TailAt
<1>a. Len(turn') = n /\ Len(slotsTold') = m /\ slotsTold' = slotsTold
  BY <1>2, <1>3
<1>5. /\ \A k \in 1 .. n : k + 1 \in 1 .. n + 1 /\ (k + 1) - 1 = k
      /\ \A k \in 1 .. n + 1 : k # 1 => k - 1 \in 1 .. n /\ (k - 1) + 1 = k
  BY ONLY <1>2
<1>6. /\ \A j \in 1 .. m : f[j] \in 1 .. n + 1
      /\ \A i, j \in 1 .. m : i < j => f[i] < f[j]
      /\ \A p \in 1 .. n + 1 : turn[p].kind # "unsubscribe" => \E j \in 1 .. m : f[j] = p
      /\ \A j \in 1 .. m : \/ turn[f[j]].kind = "subscribe" /\ slotsTold[j][1] = turn[f[j]].con
                           \/ turn[f[j]].kind = "bySymbol" /\ slotsTold[j][1] = NoContract
  BY <1>2 DEF Pairs
<1>7. PICK g : g = [j \in 1 .. m |-> f[j] - 1]
  OBVIOUS
<1>8. \A j \in 1 .. m : f[j] # 1 /\ f[j] \in 1 .. n + 1
  BY ONLY <1>3, <1>6
<1>9. /\ g \in [1 .. m -> 1 .. n]
      /\ \A j \in 1 .. m : g[j] \in 1 .. n /\ g[j] + 1 = f[j]
  <2>1. \A j \in 1 .. m : g[j] = f[j] - 1
    BY ONLY <1>7
  <2>2. \A j \in 1 .. m : g[j] \in 1 .. n /\ g[j] + 1 = f[j]
    BY ONLY <1>5, <1>8, <2>1
  <2> QED
    BY ONLY <1>7, <2>2
<1>10. Pairs(g)'
  <2>1. \A i, j \in 1 .. m : i < j => g[i] < g[j]
    <3>1. SUFFICES ASSUME NEW i \in 1 .. m, NEW j \in 1 .. m, i < j PROVE g[i] < g[j]
      OBVIOUS
    <3>2. f[i] < f[j]
      BY ONLY <1>6, <3>1
    <3> QED
      BY ONLY <1>2, <1>9, <3>2
  <2>2. \A p \in 1 .. n : turn'[p].kind # "unsubscribe" => \E j \in 1 .. m : g[j] = p
    <3>1. SUFFICES ASSUME NEW p \in 1 .. n, turn'[p].kind # "unsubscribe"
                   PROVE  \E j \in 1 .. m : g[j] = p
      OBVIOUS
    <3>2. PICK j \in 1 .. m : f[j] = p + 1
      BY ONLY <1>3, <1>5, <1>6, <3>1
    <3>3. g[j] + 1 = p + 1 /\ g[j] \in 1 .. n
      BY ONLY <1>9, <3>2
    <3> QED
      BY ONLY <1>2, <3>3
  <2>3. \A j \in 1 .. m :
          \/ turn'[g[j]].kind = "subscribe" /\ slotsTold'[j][1] = turn'[g[j]].con
          \/ turn'[g[j]].kind = "bySymbol" /\ slotsTold'[j][1] = NoContract
    <3>1. TAKE j \in 1 .. m
    <3>2. turn'[g[j]] = turn[f[j]] /\ slotsTold'[j] = slotsTold[j]
      BY ONLY <1>a, <1>3, <1>5, <1>9
    <3> QED
      BY ONLY <1>6, <3>2
  <2> QED
    BY <1>a, <1>9, <2>1, <2>2, <2>3 DEF Pairs
<1>11. ASSUME TurnInv(f), UNCHANGED <<at, of, leaked>>
       PROVE  TurnInv(g)'
  <2>0. \A s : Read(s)' <=> Read(s)
    BY <1>11, SameAt
  <2>1. BehindInv(g)'
    <3>1. SUFFICES ASSUME NEW p \in 1 .. n, NEW s \in Slots, turn'[p] = Unsubscribe(s), Read(s)'
                   PROVE  \E j \in 1 .. m : slotsTold'[j][2] = s /\ p < g[j]
      BY ONLY <1>a, <3>1 DEF BehindInv, Behind
    <3>2. p + 1 \in 1 .. n + 1 /\ turn[p + 1] = Unsubscribe(s) /\ Read(s)
      BY ONLY <1>3, <1>5, <2>0, <3>1
    <3>3. PICK j \in 1 .. m : slotsTold[j][2] = s /\ p + 1 < f[j]
      BY ONLY <1>2, <1>11, <3>2 DEF TurnInv, BehindInv, Behind
    <3>4. slotsTold'[j][2] = s /\ p < g[j]
      BY ONLY <1>a, <1>2, <1>9, <3>3
    <3> QED
      BY ONLY <3>4
  <2>2. BetweenInv(g)'
    <3>1. SUFFICES ASSUME NEW p \in 1 .. n, NEW q \in 1 .. n, NEW s \in Slots, p < q,
                          turn'[p] = Unsubscribe(s), turn'[q] = Unsubscribe(s)
                   PROVE  \E j \in 1 .. m : slotsTold'[j][2] = s /\ p < g[j] /\ g[j] < q
      BY ONLY <1>a, <3>1 DEF BetweenInv
    <3>2. /\ p + 1 \in 1 .. n + 1 /\ turn[p + 1] = Unsubscribe(s)
          /\ q + 1 \in 1 .. n + 1 /\ turn[q + 1] = Unsubscribe(s) /\ p + 1 < q + 1
      BY ONLY <1>2, <1>3, <1>5, <3>1
    <3>3. PICK j \in 1 .. m : slotsTold[j][2] = s /\ p + 1 < f[j] /\ f[j] < q + 1
      BY ONLY <1>2, <1>11, <3>2 DEF TurnInv, BetweenInv
    <3>4. slotsTold'[j][2] = s /\ p < g[j] /\ g[j] < q
      BY ONLY <1>a, <1>2, <1>9, <3>3
    <3> QED
      BY ONLY <3>4
  <2>3. ToldInv(g)'
    <3>1. SUFFICES ASSUME NEW j \in 1 .. m, NEW s \in Slots, slotsTold[j][2] = s
                   PROVE  \/ Read(s) \/ s \in leaked
                          \/ \E q \in 1 .. n : turn'[q] = Unsubscribe(s) /\ g[j] < q
      BY ONLY <1>a, <1>11, <2>0, <3>1 DEF ToldInv
    <3>3. \/ Read(s) \/ s \in leaked
          \/ \E q \in 1 .. n + 1 : turn[q] = Unsubscribe(s) /\ f[j] < q
      BY ONLY <1>2, <1>11, <3>1 DEF TurnInv, ToldInv
    <3>4. ASSUME NEW q \in 1 .. n + 1, turn[q] = Unsubscribe(s), f[j] < q
          PROVE  \E k \in 1 .. n : turn'[k] = Unsubscribe(s) /\ g[j] < k
      <4>1. q # 1
        BY ONLY <1>2, <1>8, <3>4
      <4>2. PICK k \in 1 .. n : k + 1 = q
        BY ONLY <1>5, <4>1
      <4>3. turn'[k] = Unsubscribe(s) /\ g[j] < k
        <5>1. g[j] + 1 < k + 1 /\ g[j] \in Int
          BY ONLY <1>9, <3>4, <4>2
        <5> QED
          BY ONLY <1>3, <3>4, <4>2, <5>1
      <4> QED
        BY ONLY <4>3
    <3> QED
      BY ONLY <3>3, <3>4
  <2>4. SymbolInv(g)'
    <3>1. SUFFICES ASSUME NEW j \in 1 .. m, NEW q \in Reqs,
                          slotsTold[j][1] = NoContract, at[q] = slotsTold[j][2]
                   PROVE  of[q] = turn'[g[j]].con
      BY ONLY <1>a, <1>11, <3>1 DEF SymbolInv
    <3>2. turn'[g[j]] = turn[f[j]]
      BY ONLY <1>3, <1>9
    <3> QED
      BY ONLY <1>2, <1>11, <3>1, <3>2 DEF TurnInv, SymbolInv
  <2> QED
    BY ONLY <2>1, <2>2, <2>3, <2>4 DEF TurnInv
<1> QED
  BY ONLY <1>10, <1>11

\* A step that leaves the table, the slots told, the lookups and the farm
\* alone.
LEMMA EngineKept ==
    ASSUME FreeInv, ConInv, OnceInv,
           UNCHANGED <<table, slotsTold, lookups, lookupCancelled, parked, running, unrouted>>
    PROVE  FreeInv' /\ ConInv' /\ OnceInv'
<1>0. UNCHANGED <<con, conMap, freeIds, active>>
  BY DEF table
<1>1. FreeInv'
  BY <1>0 DEF FreeInv
<1>2. /\ \A s, c : ToldFor(c, s)' <=> ToldFor(c, s)
      /\ \A s : InLookup(s)' <=> InLookup(s)
      /\ \A s : Busy(s)' <=> Busy(s)
  BY SameTold, SameLookups, SameFarm
<1>3. ConInv'
  BY <1>0, <1>2 DEF ConInv
<1>4. OnceInv'
  BY <1>2 DEF OnceInv
<1> QED
  BY <1>1, <1>3, <1>4

\* What a step that leaves these alone keeps of the engine's side.
LEMMA EngineSame ==
    ASSUME UNCHANGED <<slotsTold, lookups, parked, running, unrouted>>
    PROVE  /\ \A s : Told(s)' <=> Told(s)
           /\ \A s : InLookup(s)' <=> InLookup(s)
           /\ \A s : Busy(s)' <=> Busy(s)
           /\ \A s : Holds(s)' <=> Holds(s)
  BY SameTold, SameLookups, SameFarm, Joins

-----------------------------------------------------------------------------
(***************************************************************************)
(* cancel_mkt_data.                                                        *)
(***************************************************************************)
\* A request that is not the last of its slot.
LEMMA CancelOneEffect ==
    ASSUME TypeOK, NEW r \in Reqs, CancelMktData(r), Requests(at[r]) # {r}
    PROVE  /\ TypeOK'
           /\ \A q \in Reqs : at'[q] = IF q = r THEN NoSlot ELSE at[q]
           /\ phase' = [phase EXCEPT ![r] = "ended"]
           /\ \A s \in Slots : Read(s)' <=> Read(s)
           /\ UNCHANGED <<of, conSlot, pass, queues, notes, table, waits, farm, history>>
<1>1. /\ at[r] \in Slots /\ phase' = [phase EXCEPT ![r] = "ended"]
      /\ at' = [at EXCEPT ![r] = NoSlot]
      /\ UNCHANGED <<of, conSlot, pass, queues, notes, table, waits, farm, history>>
  BY DEF CancelMktData, TypeOK, queues, notes
<1>2. TypeOK'
  BY <1>1 DEF TypeOK, pass, queues, notes, table, waits, farm, history
<1>3. \A q \in Reqs : at'[q] = IF q = r THEN NoSlot ELSE at[q]
  BY <1>1 DEF TypeOK
<1>4. r \in Requests(at[r])
  BY DEF Requests
<1>5. PICK q \in Reqs : q # r /\ at[q] = at[r]
  BY <1>4 DEF Requests
<1>6. \A s \in Slots : Read(s)' <=> Read(s)
  BY <1>3, <1>5, Numbers DEF Read
<1> QED
  BY <1>1, <1>2, <1>3, <1>6

\* The last request of a slot.
LEMMA CancelLastEffect ==
    ASSUME TypeOK, NEW r \in Reqs, CancelMktData(r), Requests(at[r]) = {r}, NEW t, t = at[r]
    PROVE  /\ TypeOK' /\ t \in Slots
           /\ \A q \in Reqs : at'[q] = IF q = r THEN NoSlot ELSE at[q]
           /\ phase' = [phase EXCEPT ![r] = "ended"]
           /\ \A s \in Slots : Read(s)' <=> Read(s) /\ s # t
           /\ \A c \in Contracts : conSlot'[c] = IF conSlot[c] = t THEN NoSlot ELSE conSlot[c]
           /\ turn' = Append(turn, Unsubscribe(t))
           /\ \A s : CancelOnItsWay(s)' <=> CancelOnItsWay(s) \/ s = t
           /\ \A x, s : FreshMerge(x, s)' <=> FreshMerge(x, s) /\ x # t /\ s # t
           /\ \A x : MergeFrom(x)' <=> MergeFrom(x)
           /\ \A s : Refused(s)' <=> Refused(s)
           /\ \A s : CancelNoted(s)' <=> CancelNoted(s)
           /\ \A s : FreshRefused(s)' <=> FreshRefused(s) /\ s # t
           /\ UNCHANGED <<of, pass, direct, table, waits, farm, history>>
<1>1. /\ t \in Slots /\ phase' = [phase EXCEPT ![r] = "ended"]
      /\ at' = [at EXCEPT ![r] = NoSlot]
      /\ conSlot' = [c \in Contracts |-> IF conSlot[c] \in {t} THEN NoSlot ELSE conSlot[c]]
      /\ turn' = Append(turn, Unsubscribe(t)) /\ Stale({t}, merges, rejects)
      /\ UNCHANGED <<of, pass, direct, table, waits, farm, history>>
  BY DEF CancelMktData, TypeOK, Forget
<1>2. turn \in Seq(Commands)
  BY DEF TypeOK, Commands
<1>3. Unsubscribe(t) \in Commands
  BY <1>1, CommandsAre
<1>4. turn' \in Seq(Commands) /\ ToSet(turn') = ToSet(turn) \cup {Unsubscribe(t)}
  BY <1>1, <1>2, <1>3, InAppend
<1>5. \A s : CancelOnItsWay(s)' <=> CancelOnItsWay(s) \/ s = t
  BY <1>1, <1>4, CommandsAre DEF CancelOnItsWay
<1>6. /\ merges' \in Seq(Merges)
      /\ \A x, s : FreshMerge(x, s)' <=> FreshMerge(x, s) /\ x # t /\ s # t
      /\ \A x : MergeFrom(x)' <=> MergeFrom(x)
  BY <1>1, MergesStale DEF Stale
<1>7. /\ rejects' \in Seq(Rejects)
      /\ \A s : Refused(s)' <=> Refused(s)
      /\ \A s : CancelNoted(s)' <=> CancelNoted(s)
      /\ \A s : FreshRefused(s)' <=> FreshRefused(s) /\ s # t
  BY <1>1, RejectsStale
<1>8. \A q \in Reqs : at'[q] = IF q = r THEN NoSlot ELSE at[q]
  BY <1>1 DEF TypeOK
<1>9. \A q \in Reqs : at[q] = t <=> q = r
  BY DEF Requests
<1>10. \A s \in Slots : Read(s)' <=> Read(s) /\ s # t
  BY <1>8, <1>9, Numbers DEF Read
<1>11. \A c \in Contracts : conSlot'[c] = IF conSlot[c] = t THEN NoSlot ELSE conSlot[c]
  BY <1>1
<1>12. TypeOK'
  BY <1>1, <1>4, <1>6, <1>7 DEF TypeOK, pass, table, waits, farm, history, Merges, Rejects, Commands
<1> QED
  BY <1>1, <1>5, <1>6, <1>7, <1>8, <1>10, <1>11, <1>12

LEMMA CancelOneStep ==
    ASSUME NEW f, MarketInv(f), NEW r \in Reqs, CancelMktData(r), Requests(at[r]) # {r}
    PROVE  MarketInv(f)'
<1>0. TypeOK /\ FreeInv /\ ConInv /\ OnceInv /\ ReqInv /\ Pairs(f)
  BY DEF MarketInv, EngineInv
<1>1. /\ TypeOK'
      /\ \A q \in Reqs : at'[q] = IF q = r THEN NoSlot ELSE at[q]
      /\ phase' = [phase EXCEPT ![r] = "ended"]
      /\ \A s \in Slots : Read(s)' <=> Read(s)
      /\ UNCHANGED <<of, conSlot, pass, queues, notes, table, waits, farm, history>>
  BY <1>0, CancelOneEffect
<1>2. UNCHANGED <<of, conSlot, pc, follow, turn, direct, merges, rejects, con, conMap, freeIds, active,
                  slotsTold, lookups, lookupCancelled, parked, running, unrouted, misread, leaked>>
  BY <1>1 DEF pass, queues, notes, table, waits, farm, history
<1>3. FreeInv' /\ ConInv' /\ OnceInv'
  BY <1>0, <1>1, <1>2, EngineKept
<1>4. ReqInv'
  BY <1>0, <1>1, <1>2, Numbers DEF ReqInv, TypeOK
<1>5. /\ \A s : Told(s)' <=> Told(s)
      /\ \A s : InLookup(s)' <=> InLookup(s)
      /\ \A s : Busy(s)' <=> Busy(s)
      /\ \A s : Holds(s)' <=> Holds(s)
  BY <1>2, EngineSame
<1>6. \A s : CancelOnItsWay(s)' <=> CancelOnItsWay(s)
  BY <1>1, SameQueues
<1>7. /\ \A x, s : (FreshMerge(x, s)' <=> FreshMerge(x, s)) /\ (MergeFrom(x)' <=> MergeFrom(x))
      /\ \A s : /\ Refused(s)' <=> Refused(s)
                /\ FreshRefused(s)' <=> FreshRefused(s)
                /\ CancelNoted(s)' <=> CancelNoted(s)
  BY <1>2, SameMerges, SameRejects
<1>8. ASSUME PictureInv, TurnInv(f)
      PROVE  PictureInv' /\ TurnInv(f)'
  <2> USE <1>8 DEF PictureInv
  <2>1. \A c \in Contracts : conSlot[c] # NoSlot => conSlot[c] \in Slots
    BY <1>0 DEF TypeOK
  <2>2. StreamsInv'
    BY <1>1, <1>2, <2>1 DEF StreamsInv
  <2>3. ReadsInv'
    BY <1>0, <1>1, <1>2, Numbers DEF ReadsInv, TypeOK
  <2>4. MergeInv'
    BY <1>2, <1>5, <1>6, <1>7 DEF MergeInv, MergeIdle, MergeInto
  <2>5. DirectInv'
    BY <1>0, <1>1, <1>2, SeqTypes, InSet DEF DirectInv
  <2>6. FollowInv'
    <3>1. follow \subseteq Slots
      BY <1>0 DEF TypeOK
    <3> QED
      BY <1>1, <1>2, <1>5, <1>6, <3>1 DEF FollowInv
  <2>7. CancelledInv'
    <3>1. lookupCancelled \subseteq Slots
      BY <1>0 DEF TypeOK
    <3> QED
      BY <1>1, <1>2, <1>5, <1>6, <1>7, <3>1 DEF CancelledInv
  <2>8. WaitInv'
    BY <1>1, <1>5, <1>7 DEF WaitInv
  <2>9. OwedInv'
    BY <1>1, <1>2, <1>6, <1>7 DEF OwedInv, Owed
  <2>10. TurnInv(f)'
    <3>1. \A q \in Reqs, s \in Slots : at'[q] = s => at[q] = s
      BY <1>1, Numbers
    <3> QED
      BY <1>0, <1>1, <1>2, <3>1, TurnKept
  <2> QED
    BY <2>2, <2>3, <2>4, <2>5, <2>6, <2>7, <2>8, <2>9, <2>10
<1>9. Pairs(f)'
  BY <1>0, <1>2, PairsKept
<1> QED
  BY <1>1, <1>2, <1>3, <1>4, <1>8, <1>9 DEF MarketInv, EngineInv

LEMMA CancelLastStep ==
    ASSUME NEW f, MarketInv(f), NEW r \in Reqs, CancelMktData(r), Requests(at[r]) = {r}
    PROVE  MarketInv(f)'
<1>0. TypeOK /\ FreeInv /\ ConInv /\ OnceInv /\ ReqInv /\ Pairs(f)
  BY DEF MarketInv, EngineInv
<1>a. PICK t : t = at[r]
  OBVIOUS
<1>1. /\ TypeOK' /\ t \in Slots
      /\ \A q \in Reqs : at'[q] = IF q = r THEN NoSlot ELSE at[q]
      /\ phase' = [phase EXCEPT ![r] = "ended"]
      /\ \A s \in Slots : Read(s)' <=> Read(s) /\ s # t
      /\ \A c \in Contracts : conSlot'[c] = IF conSlot[c] = t THEN NoSlot ELSE conSlot[c]
      /\ turn' = Append(turn, Unsubscribe(t))
      /\ \A s : CancelOnItsWay(s)' <=> CancelOnItsWay(s) \/ s = t
      /\ \A x, s : FreshMerge(x, s)' <=> FreshMerge(x, s) /\ x # t /\ s # t
      /\ \A x : MergeFrom(x)' <=> MergeFrom(x)
      /\ \A s : Refused(s)' <=> Refused(s)
      /\ \A s : CancelNoted(s)' <=> CancelNoted(s)
      /\ \A s : FreshRefused(s)' <=> FreshRefused(s) /\ s # t
      /\ UNCHANGED <<of, pass, direct, table, waits, farm, history>>
  BY <1>0, <1>a, CancelLastEffect
<1>2. UNCHANGED <<of, pc, follow, direct, con, conMap, freeIds, active,
                  slotsTold, lookups, lookupCancelled, parked, running, unrouted, misread, leaked>>
  BY <1>1 DEF pass, table, waits, farm, history
<1>3. FreeInv' /\ ConInv' /\ OnceInv'
  BY <1>0, <1>1, <1>2, EngineKept
<1>4. ReqInv'
  BY <1>0, <1>1, <1>2, Numbers DEF ReqInv, TypeOK
<1>5. /\ \A s : Told(s)' <=> Told(s)
      /\ \A s : InLookup(s)' <=> InLookup(s)
      /\ \A s : Busy(s)' <=> Busy(s)
      /\ \A s : Holds(s)' <=> Holds(s)
  BY <1>2, EngineSame
<1>6. Read(t)
  BY <1>a DEF Read
<1>7. Pairs(f)'
  BY <1>0, <1>1, <1>2, TurnCancelled
<1>8. ASSUME PictureInv, TurnInv(f)
      PROVE  PictureInv' /\ TurnInv(f)'
  <2> USE <1>8 DEF PictureInv
  <2>1. \A c \in Contracts : conSlot[c] # NoSlot => conSlot[c] \in Slots
    BY <1>0 DEF TypeOK
  <2>2. StreamsInv'
    BY <1>1, <1>2, <2>1 DEF StreamsInv
  <2>3. ReadsInv'
    BY <1>0, <1>1, <1>2, Numbers DEF ReadsInv, TypeOK
  <2>4. MergeInv'
    <3>1. SUFFICES ASSUME NEW x \in Slots, NEW s \in Slots, FreshMerge(x, s)'
                   PROVE  MergeIdle(x)' /\ MergeInto(x, s)'
      BY DEF MergeInv
    <3>2. FreshMerge(x, s) /\ x # t /\ s # t /\ MergeIdle(x) /\ MergeInto(x, s)
      BY <1>1, <3>1 DEF MergeInv
    <3>3. MergeIdle(x)'
      BY <1>1, <1>2, <1>5, <3>2, Numbers DEF MergeIdle
    <3>4. MergeInto(x, s)'
      BY <1>1, <1>2, <1>5, <3>2 DEF MergeInto
    <3> QED
      BY <3>3, <3>4
  <2>5. DirectInv'
    <3>1. direct \in Seq(Slots) /\ ToSet(direct) \subseteq Slots
      BY <1>0, SeqTypes, InSet
    <3>2. turn \in Seq(Commands) /\ Unsubscribe(t) \in Commands
      BY <1>0, <1>1, SeqTypes, CommandsAre
    <3>3. ToSet(turn') = ToSet(turn) \cup {Unsubscribe(t)}
      BY <1>1, <3>2, InAppend
    <3>4. t \notin ToSet(direct)
      BY <1>6 DEF DirectInv
    <3>5. \A s \in ToSet(direct) : ~Read(s)' /\ Unsubscribe(s) \notin ToSet(turn')
      BY <1>1, <3>1, <3>3, <3>4, CommandsAre DEF DirectInv
    <3> QED
      BY <1>2, <3>5 DEF DirectInv
  <2>6. FollowInv'
    <3>1. follow \subseteq Slots /\ t \notin follow
      BY <1>0, <1>6 DEF TypeOK, FollowInv
    <3> QED
      BY <1>1, <1>2, <1>5, <3>1 DEF FollowInv
  <2>7. CancelledInv'
    <3>1. lookupCancelled \subseteq Slots /\ t \notin lookupCancelled /\ ~CancelNoted(t)
      BY <1>0, <1>1, <1>6 DEF TypeOK, CancelledInv
    <3> QED
      BY <1>1, <1>2, <1>5, <3>1 DEF CancelledInv
  <2>8. WaitInv'
    BY <1>1, <1>5 DEF WaitInv
  <2>9. OwedInv'
    BY <1>1, <1>2 DEF OwedInv, Owed
  <2>10. TurnInv(f)'
    <3>1. \A q \in Reqs : at'[q] \in {NoSlot, at[q]}
      BY <1>1
    <3>2. ~Read(t)' /\ \A s \in Slots : s # t => (Read(s)' <=> Read(s))
      BY <1>1
    <3> QED
      BY <1>0, <1>1, <1>2, <1>6, <3>1, <3>2, TurnCancelled
  <2> QED
    BY <2>2, <2>3, <2>4, <2>5, <2>6, <2>7, <2>8, <2>9, <2>10
<1> QED
  BY <1>1, <1>2, <1>3, <1>4, <1>7, <1>8 DEF MarketInv, EngineInv

-----------------------------------------------------------------------------
(***************************************************************************)
(* A step that leaves what the invariant is about alone.                   *)
(***************************************************************************)
LEMMA NothingMoves ==
    ASSUME NEW f, MarketInv(f), TypeOK',
           UNCHANGED <<client, pass, queues, notes, table, slotsTold, lookups, lookupCancelled,
                       history>>,
           \A s : Busy(s)' <=> Busy(s)
    PROVE  MarketInv(f)'
<1>0. TypeOK /\ FreeInv /\ ConInv /\ OnceInv /\ ReqInv /\ Pairs(f)
  BY DEF MarketInv, EngineInv
<1>2. UNCHANGED <<phase, of, at, conSlot, pc, follow, turn, direct, merges, rejects, con, conMap,
                  freeIds, active, misread, leaked>>
  BY DEF client, pass, queues, notes, table, history
<1>5. /\ \A s : Told(s)' <=> Told(s)
      /\ \A s, c : ToldFor(c, s)' <=> ToldFor(c, s)
      /\ \A s : InLookup(s)' <=> InLookup(s)
      /\ \A s : Holds(s)' <=> Holds(s)
  BY SameTold, SameLookups, Joins
<1>3. FreeInv' /\ ConInv' /\ OnceInv'
  BY <1>0, <1>2, <1>5 DEF FreeInv, ConInv, OnceInv
<1>4. ReqInv'
  BY <1>0, <1>2 DEF ReqInv
<1>6. /\ \A s : CancelOnItsWay(s)' <=> CancelOnItsWay(s)
      /\ \A s : Read(s)' <=> Read(s)
  BY <1>2, SameQueues, SameAt
<1>7. /\ \A x, s : (FreshMerge(x, s)' <=> FreshMerge(x, s)) /\ (MergeFrom(x)' <=> MergeFrom(x))
      /\ \A s : /\ Refused(s)' <=> Refused(s)
                /\ FreshRefused(s)' <=> FreshRefused(s)
                /\ CancelNoted(s)' <=> CancelNoted(s)
  BY <1>2, SameMerges, SameRejects
<1>8. ASSUME PictureInv, TurnInv(f)
      PROVE  PictureInv' /\ TurnInv(f)'
  <2> USE <1>8 DEF PictureInv
  <2>2. StreamsInv'
    BY <1>2, <1>6 DEF StreamsInv
  <2>3. ReadsInv'
    BY <1>2 DEF ReadsInv
  <2>4. MergeInv'
    BY <1>2, <1>5, <1>6, <1>7 DEF MergeInv, MergeIdle, MergeInto
  <2>5. DirectInv'
    BY <1>2, <1>6 DEF DirectInv
  <2>6. FollowInv'
    BY <1>2, <1>5, <1>6 DEF FollowInv
  <2>7. CancelledInv'
    BY <1>2, <1>5, <1>6, <1>7 DEF CancelledInv
  <2>8. WaitInv'
    BY <1>5, <1>6, <1>7 DEF WaitInv
  <2>9. OwedInv'
    BY <1>2, <1>6, <1>7 DEF OwedInv, Owed
  <2>10. TurnInv(f)'
    BY <1>0, <1>2, <1>6, TurnKept
  <2> QED
    BY <2>2, <2>3, <2>4, <2>5, <2>6, <2>7, <2>8, <2>9, <2>10
<1>9. Pairs(f)'
  BY <1>0, <1>2, PairsKept
<1> QED
  BY <1>2, <1>3, <1>4, <1>8, <1>9 DEF MarketInv, EngineInv

LEMMA FarmStep ==
    ASSUME NEW f, MarketInv(f), FarmLost \/ \E s \in Slots : FarmConfirms(s)
    PROVE  MarketInv(f)'
<1>0. TypeOK
  BY DEF MarketInv, EngineInv
<1>1. UNCHANGED <<client, pass, queues, notes, table, waits, running, history>>
  BY DEF FarmLost, FarmConfirms
<1>2. /\ losses' \in 0 .. MaxLosses /\ confirmed' \subseteq Slots /\ unrouted' \subseteq Slots
      /\ running \cup unrouted' = running \cup unrouted
  <2>1. CASE FarmLost
    <3>1. losses' = losses + 1 /\ losses < MaxLosses /\ confirmed' = {}
      BY <2>1 DEF FarmLost
    <3>2. PICK missed \in SUBSET running : unrouted' = (unrouted \ running) \cup missed
      BY <2>1 DEF FarmLost
    <3>3. losses \in 0 .. MaxLosses /\ running \subseteq Slots /\ unrouted \subseteq Slots
      BY <1>0 DEF TypeOK
    <3>4. losses' \in 0 .. MaxLosses
      BY <3>1, <3>3, Numbers
    <3>5. unrouted' \subseteq Slots /\ running \cup unrouted' = running \cup unrouted
      BY <3>2, <3>3
    <3> QED
      BY <3>1, <3>4, <3>5
  <2>2. CASE \E s \in Slots : FarmConfirms(s)
    BY <1>0, <2>2 DEF FarmConfirms, TypeOK
  <2> QED
    BY <2>1, <2>2
<1>3. TypeOK'
  BY <1>0, <1>1, <1>2 DEF TypeOK, client, pass, queues, notes, table, waits, history
<1>4. \A s : Busy(s)' <=> Busy(s)
  BY <1>1, <1>2 DEF waits, Busy
<1> QED
  BY <1>1, <1>3, <1>4, NothingMoves DEF waits

LEMMA DefinitionStep ==
    ASSUME NEW f, MarketInv(f), NEW c \in lotLookups, NEW a \in BOOLEAN, DefinitionEnds(c, a)
    PROVE  MarketInv(f)'
<1>0. TypeOK
  BY DEF MarketInv, EngineInv
<1>1. PICK ready : ready = {s \in parked : con[s] = c}
  OBVIOUS
<1>2. /\ lotLookups' = lotLookups \ {c}
      /\ defined' = IF a THEN defined \cup {c} ELSE defined
      /\ parked' = parked \ ready /\ Route(ready)
      /\ UNCHANGED <<client, pass, queues, notes, table, slotsTold, lookups, lookupCancelled, history>>
  BY <1>1 DEF DefinitionEnds
<1>b. PICK missed \in SUBSET ready :
        /\ running' = running \cup (ready \ missed)
        /\ unrouted' = (unrouted \ ready) \cup missed
        /\ UNCHANGED <<confirmed, losses>>
  BY <1>2 DEF Route
<1>3. ready \subseteq parked /\ parked \subseteq Slots /\ running \subseteq Slots
      /\ unrouted \subseteq Slots
      /\ lotLookups \subseteq Contracts /\ defined \subseteq Contracts
  BY <1>0, <1>1 DEF TypeOK
<1>4. /\ lotLookups' \subseteq Contracts /\ defined' \subseteq Contracts
      /\ parked' \subseteq Slots /\ running' \subseteq Slots /\ unrouted' \subseteq Slots
  BY <1>2, <1>b, <1>3
<1>5. TypeOK'
  BY <1>0, <1>2, <1>b, <1>4 DEF TypeOK, client, pass, queues, notes, table, history
<1>6. \A s : Busy(s)' <=> Busy(s)
  BY <1>2, <1>b, <1>3 DEF Busy
<1> QED
  BY <1>2, <1>5, <1>6, NothingMoves

-----------------------------------------------------------------------------
(***************************************************************************)
(* A request that fails, and one that joins what the client streams.       *)
(***************************************************************************)
LEMMA FullStep ==
    ASSUME NEW f, MarketInv(f), NEW r \in Reqs, NEW c \in Contracts, Unused(r), TableFull(r, c),
           UNCHANGED <<pass, direct, notes, lookups, lookupCancelled, parked, lotLookups, defined,
                       farm, history>>
    PROVE  MarketInv(f)'
<1>0. TypeOK /\ FreeInv /\ ConInv /\ OnceInv /\ ReqInv /\ Pairs(f)
  BY DEF MarketInv, EngineInv
<1>1. /\ phase' = [phase EXCEPT ![r] = "ended"] /\ of' = [of EXCEPT ![r] = c]
      /\ at[r] = NoSlot
      /\ UNCHANGED <<at, conSlot, table, slotsTold, turn>>
  BY <1>0 DEF TableFull, Unused, ReqInv
<1>2. UNCHANGED <<at, conSlot, pc, follow, turn, direct, merges, rejects, con, conMap,
                  freeIds, active, slotsTold, lookups, lookupCancelled, parked, running, unrouted, misread,
                  leaked>>
  BY <1>1 DEF pass, notes, table, farm, history
<1>3. FreeInv' /\ ConInv' /\ OnceInv'
  BY <1>0, <1>1, <1>2, EngineKept
<1>4. TypeOK' /\ ReqInv' /\ \A q \in Reqs : at[q] # NoSlot => of'[q] = of[q]
  <2>1. TypeOK'
    BY <1>0, <1>1, <1>2 DEF TypeOK, pass, notes, table, farm, history
  <2>2. \A q \in Reqs : q # r => of'[q] = of[q] /\ phase'[q] = phase[q]
    BY <1>0, <1>1 DEF TypeOK
  <2> QED
    BY <1>0, <1>1, <1>2, <2>1, <2>2 DEF ReqInv
<1>5. /\ \A s : Told(s)' <=> Told(s)
      /\ \A s : InLookup(s)' <=> InLookup(s)
      /\ \A s : Busy(s)' <=> Busy(s)
      /\ \A s : Holds(s)' <=> Holds(s)
  BY <1>2, EngineSame
<1>6. /\ \A s : CancelOnItsWay(s)' <=> CancelOnItsWay(s)
      /\ \A s : Read(s)' <=> Read(s)
  BY <1>2, SameQueues, SameAt DEF queues
<1>7. /\ \A x, s : (FreshMerge(x, s)' <=> FreshMerge(x, s)) /\ (MergeFrom(x)' <=> MergeFrom(x))
      /\ \A s : /\ Refused(s)' <=> Refused(s)
                /\ FreshRefused(s)' <=> FreshRefused(s)
                /\ CancelNoted(s)' <=> CancelNoted(s)
  BY <1>2, SameMerges, SameRejects
<1>8. ASSUME PictureInv, TurnInv(f)
      PROVE  PictureInv' /\ TurnInv(f)'
  <2> USE <1>8 DEF PictureInv
  <2>2. StreamsInv'
    BY <1>2, <1>6 DEF StreamsInv
  <2>3. ReadsInv'
    <3>1. \A l \in lookups : l.slot \in Slots
      BY <1>0 DEF TypeOK
    <3> QED
      BY <1>2, <1>4, <3>1, Numbers DEF ReadsInv
  <2>4. MergeInv'
    BY <1>2, <1>5, <1>6, <1>7 DEF MergeInv, MergeIdle, MergeInto
  <2>5. DirectInv'
    BY <1>2, <1>6 DEF DirectInv
  <2>6. FollowInv'
    BY <1>2, <1>5, <1>6 DEF FollowInv
  <2>7. CancelledInv'
    BY <1>2, <1>5, <1>6, <1>7 DEF CancelledInv
  <2>8. WaitInv'
    BY <1>5, <1>6, <1>7 DEF WaitInv
  <2>9. OwedInv'
    BY <1>2, <1>6, <1>7 DEF OwedInv, Owed
  <2>10. TurnInv(f)'
    BY <1>0, <1>2, <1>4, <1>6, TurnKept, Numbers
  <2> QED
    BY <2>2, <2>3, <2>4, <2>5, <2>6, <2>7, <2>8, <2>9, <2>10
<1>9. Pairs(f)'
  BY <1>0, <1>2, PairsKept
<1> QED
  BY <1>2, <1>3, <1>4, <1>8, <1>9 DEF MarketInv, EngineInv

LEMMA JoinStep ==
    ASSUME NEW f, MarketInv(f), NEW r \in Reqs, NEW c \in Contracts, Unused(r),
           conSlot[c] # NoSlot, Requests(conSlot[c]) # {}, Attach(r, c, conSlot[c]),
           UNCHANGED <<conSlot, pass, queues, notes, table, waits, farm, history>>
    PROVE  MarketInv(f)'
<1>0. TypeOK /\ FreeInv /\ ConInv /\ OnceInv /\ ReqInv /\ Pairs(f)
  BY DEF MarketInv, EngineInv
<1>a. PICK t \in Slots : t = conSlot[c]
  BY <1>0 DEF TypeOK
<1>1. /\ phase' = [phase EXCEPT ![r] = "open"] /\ of' = [of EXCEPT ![r] = c]
      /\ at' = [at EXCEPT ![r] = t] /\ at[r] = NoSlot
  BY <1>0, <1>a DEF Attach, Unused, ReqInv
<1>2. UNCHANGED <<conSlot, pc, follow, turn, direct, merges, rejects, con, conMap,
                  freeIds, active, slotsTold, lookups, lookupCancelled, parked, running, unrouted, misread,
                  leaked>>
  BY DEF pass, queues, notes, table, waits, farm, history
<1>3. FreeInv' /\ ConInv' /\ OnceInv'
  BY <1>0, <1>2, EngineKept
<1>4. /\ TypeOK' /\ ReqInv' /\ of'[r] = c /\ at'[r] = t
      /\ \A q \in Reqs : q # r => of'[q] = of[q] /\ at'[q] = at[q]
  <2>1. TypeOK'
    BY <1>0, <1>1, <1>2 DEF TypeOK, pass, queues, notes, table, waits, farm, history
  <2>2. \A q \in Reqs : q # r => of'[q] = of[q] /\ phase'[q] = phase[q] /\ at'[q] = at[q]
    BY <1>0, <1>1 DEF TypeOK
  <2>3. of'[r] = c /\ at'[r] = t /\ phase'[r] = "open"
    BY <1>0, <1>1 DEF TypeOK
  <2> QED
    BY <1>0, <2>1, <2>2, <2>3 DEF ReqInv
<1>5. /\ \A s : Told(s)' <=> Told(s)
      /\ \A s : InLookup(s)' <=> InLookup(s)
      /\ \A s : Busy(s)' <=> Busy(s)
      /\ \A s : Holds(s)' <=> Holds(s)
  BY <1>2, EngineSame
<1>b. PICK q \in Reqs : at[q] = t /\ q # r
  BY <1>a, <1>1, Numbers DEF Requests
<1>6. /\ \A s : CancelOnItsWay(s)' <=> CancelOnItsWay(s)
      /\ \A s \in Slots : Read(s)' <=> Read(s)
  <2>1. \A s \in Slots : Read(s)' <=> Read(s)
    BY <1>1, <1>4, <1>b, Numbers DEF Read
  <2> QED
    BY <1>2, <2>1, SameQueues DEF queues
<1>7. /\ \A x, s : (FreshMerge(x, s)' <=> FreshMerge(x, s)) /\ (MergeFrom(x)' <=> MergeFrom(x))
      /\ \A s : /\ Refused(s)' <=> Refused(s)
                /\ FreshRefused(s)' <=> FreshRefused(s)
                /\ CancelNoted(s)' <=> CancelNoted(s)
  BY <1>2, SameMerges, SameRejects
<1>8. ASSUME PictureInv, TurnInv(f)
      PROVE  PictureInv' /\ TurnInv(f)'
  <2> USE <1>8 DEF PictureInv
  <2>0. con[t] = c
    BY <1>a DEF StreamsInv
  <2>1. /\ \A d \in Contracts : conSlot[d] # NoSlot => conSlot[d] \in Slots
        /\ follow \subseteq Slots /\ lookupCancelled \subseteq Slots
        /\ \A l \in lookups : l.slot \in Slots
    BY <1>0 DEF TypeOK
  <2>2. StreamsInv'
    BY <1>2, <1>6, <2>1 DEF StreamsInv
  <2>3. ReadsInv'
    <3>1. \A l \in lookups : l.slot # t
      BY <1>0, <2>0, <2>1, Numbers DEF ConInv, InLookup
    <3> QED
      BY <1>2, <1>4, <2>0, <2>1, <3>1 DEF ReadsInv
  <2>4. MergeInv'
    BY <1>2, <1>5, <1>6, <1>7 DEF MergeInv, MergeIdle, MergeInto
  <2>5. DirectInv'
    <3>1. ToSet(direct) \subseteq Slots
      BY <1>0, SeqTypes, InSet
    <3> QED
      BY <1>2, <1>6, <3>1 DEF DirectInv
  <2>6. FollowInv'
    BY <1>2, <1>5, <1>6, <2>1 DEF FollowInv
  <2>7. CancelledInv'
    BY <1>2, <1>5, <1>6, <1>7, <2>1 DEF CancelledInv
  <2>8. WaitInv'
    BY <1>5, <1>6, <1>7 DEF WaitInv
  <2>9. OwedInv'
    BY <1>2, <1>6, <1>7 DEF OwedInv, Owed
  <2>10. TurnInv(f)'
    <3>1. ~ToldFor(NoContract, t)
      BY <1>0, <2>0, Numbers DEF ConInv
    <3>2. \A p \in Reqs, s \in Slots : at'[p] = s /\ ToldFor(NoContract, s) => at[p] = s /\ of'[p] = of[p]
      BY <1>4, <3>1
    <3> QED
      BY <1>0, <1>2, <1>6, <3>2, TurnKept
  <2> QED
    BY <2>2, <2>3, <2>4, <2>5, <2>6, <2>7, <2>8, <2>9, <2>10
<1>9. Pairs(f)'
  BY <1>0, <1>2, PairsKept
<1> QED
  BY <1>2, <1>3, <1>4, <1>8, <1>9 DEF MarketInv, EngineInv


-----------------------------------------------------------------------------
(***************************************************************************)
(* A refusal is left for the client: by the farm, or by a lookup that ends *)
(* without a contract.                                                     *)
(***************************************************************************)
LEMMA RefusalStep ==
    ASSUME NEW f, MarketInv(f), TypeOK', NEW t \in Slots, NEW b \in BOOLEAN, PushReject(t, b),
           UNCHANGED <<client, pass, queues, merges, table, slotsTold, parked, misread>>,
           \A s : Busy(s)' => Busy(s), \A s : s # t => (Busy(s)' <=> Busy(s)),
           \A s : InLookup(s)' => InLookup(s), \A s : s # t => (InLookup(s)' <=> InLookup(s)),
           lookups' \subseteq lookups, lookupCancelled' = lookupCancelled \ {t},
           leaked \subseteq leaked', t \in lookupCancelled => b \/ t \in leaked',
           b => t \in lookupCancelled /\ ~InLookup(t)'
    PROVE  MarketInv(f)'
<1>0. TypeOK /\ FreeInv /\ ConInv /\ OnceInv /\ ReqInv /\ Pairs(f)
  BY DEF MarketInv, EngineInv
<1>1. /\ \A s : Refused(s)' <=> Refused(s) \/ (s = t /\ ~b)
      /\ \A s : CancelNoted(s)' <=> CancelNoted(s) \/ (s = t /\ b)
      /\ \A s : FreshRefused(s)' <=> FreshRefused(s) \/ (s = t /\ ~b /\ ~CancelOnItsWay(t))
  BY <1>0, RejectPushed
<1>2. UNCHANGED <<phase, of, at, conSlot, pc, follow, turn, direct, merges, con, conMap, freeIds,
                  active, slotsTold, misread>>
  BY DEF client, pass, queues, table
<1>3. \A s, c : (Told(s)' <=> Told(s)) /\ (ToldFor(c, s)' <=> ToldFor(c, s))
  BY SameTold
<1>4. FreeInv' /\ ConInv' /\ OnceInv' /\ ReqInv'
  <2>1. FreeInv' /\ ReqInv'
    BY <1>0, <1>2 DEF FreeInv, ReqInv
  <2>2. ConInv'
    BY <1>0, <1>2, <1>3 DEF ConInv
  <2>3. OnceInv'
    BY <1>0, <1>2 DEF OnceInv
  <2> QED
    BY <2>1, <2>2, <2>3
<1>5. /\ \A s : Holds(s)' => Holds(s)
      /\ \A s : s # t => (Holds(s)' <=> Holds(s))
  BY Joins
<1>6. /\ \A s : CancelOnItsWay(s)' <=> CancelOnItsWay(s)
      /\ \A s : Read(s)' <=> Read(s)
      /\ \A x, s : (FreshMerge(x, s)' <=> FreshMerge(x, s)) /\ (MergeFrom(x)' <=> MergeFrom(x))
  BY <1>2, SameQueues, SameAt, SameMerges
<1>8. ASSUME PictureInv, TurnInv(f)
      PROVE  PictureInv' /\ TurnInv(f)'
  <2> USE <1>8 DEF PictureInv
  <2>1. StreamsInv'
    BY <1>2, <1>6 DEF StreamsInv
  <2>2. ReadsInv'
    BY <1>2 DEF ReadsInv
  <2>3. MergeInv'
    <3>1. SUFFICES ASSUME NEW x \in Slots, NEW s \in Slots, FreshMerge(x, s)'
                   PROVE  MergeIdle(x)' /\ MergeInto(x, s)'
      BY DEF MergeInv
    <3>2. MergeIdle(x) /\ MergeInto(x, s)
      BY <1>6, <3>1 DEF MergeInv
    <3>3. MergeIdle(x)'
      BY <1>2, <1>3, <1>5, <1>6, <3>2 DEF MergeIdle
    <3>4. b => s # t
      <4>1. con[s] \in Contracts
        BY <3>2 DEF MergeIdle, MergeInto
      <4> QED
        BY <1>0, <4>1, Numbers DEF OnceInv, ConInv
    <3>5. Busy(s)' \/ Refused(s)'
      BY <1>1, <3>2, <3>4 DEF MergeInto
    <3>6. MergeInto(x, s)'
      BY <1>2, <1>6, <3>2, <3>5 DEF MergeInto
    <3> QED
      BY <3>3, <3>6
  <2>4. DirectInv'
    BY <1>2, <1>6 DEF DirectInv
  <2>5. FollowInv'
    BY <1>2, <1>3, <1>5, <1>6 DEF FollowInv
  <2>6. CancelledInv'
    <3>1. b => con[t] = Unresolved /\ ~Read(t) /\ ~Told(t) /\ ~CancelOnItsWay(t)
      <4>1. SUFFICES ASSUME b PROVE con[t] = Unresolved /\ ~Read(t) /\ ~Told(t) /\ ~CancelOnItsWay(t)
        OBVIOUS
      <4>2. t \in lookupCancelled /\ InLookup(t)
        BY <1>0, <4>1 DEF OnceInv
      <4>3. con[t] = Unresolved
        BY <1>0, <4>2 DEF ConInv
      <4>4. ~Told(t)
        BY <1>0, <4>2, <4>3, ToldIs, Numbers DEF ConInv
      <4> QED
        BY <4>2, <4>3, <4>4 DEF CancelledInv
    <3> QED
      BY <1>1, <1>2, <1>3, <1>6, <3>1 DEF CancelledInv
  <2>7. WaitInv'
    BY <1>1, <1>3, <1>5, <1>6 DEF WaitInv, CancelledInv
  <2>8. OwedInv'
    BY <1>1, <1>2, <1>6 DEF OwedInv, Owed
  <2>9. TurnInv(f)'
    BY <1>0, <1>2, <1>6, TurnKept
  <2> QED
    BY <2>1, <2>2, <2>3, <2>4, <2>5, <2>6, <2>7, <2>8, <2>9
<1>9. Pairs(f)'
  BY <1>0, <1>2, PairsKept
<1> QED
  BY <1>2, <1>4, <1>8, <1>9 DEF MarketInv, EngineInv

LEMMA FarmRefusesStep ==
    ASSUME NEW f, MarketInv(f), NEW t \in Slots, FarmRefuses(t)
    PROVE  MarketInv(f)'
<1>0. TypeOK /\ ConInv /\ OnceInv
  BY DEF MarketInv, EngineInv
<1>1. /\ running' = running \ {t} /\ t \in running /\ PushReject(t, FALSE)
      /\ UNCHANGED <<client, pass, queues, merges, table, waits, unrouted, confirmed, losses, history>>
  BY DEF FarmRefuses
<1>2. TypeOK'
  <2>1. rejects' \in Seq(Rejects)
    BY <1>0, <1>1, RejectPushed
  <2> QED
    BY <1>0, <1>1, <2>1 DEF TypeOK, Rejects, client, pass, queues, table, waits, history
<1>3. UNCHANGED <<slotsTold, lookups, lookupCancelled, parked, misread, leaked>>
  BY <1>1 DEF waits, history
<1>4. t \notin lookupCancelled
  BY <1>0, <1>1, Numbers DEF OnceInv, ConInv, Busy
<1>5. /\ \A s : Busy(s)' => Busy(s)
      /\ \A s : s # t => (Busy(s)' <=> Busy(s))
      /\ \A s : InLookup(s)' <=> InLookup(s)
  BY <1>1, <1>3, SameLookups DEF Busy
<1>6. lookupCancelled' = lookupCancelled \ {t}
  BY <1>3, <1>4
<1> QED
  BY <1>1, <1>2, <1>3, <1>4, <1>5, <1>6, RefusalStep

LEMMA LookupEndsStep ==
    ASSUME NEW f, MarketInv(f), NEW l \in lookups, LookupRefused(l) \/ LookupTimesOut(l)
    PROVE  MarketInv(f)'
<1>0. TypeOK /\ ConInv /\ OnceInv
  BY DEF MarketInv, EngineInv
<1>a. PICK t \in Slots : t = l.slot
  BY <1>0 DEF TypeOK
<1>b. PICK b \in BOOLEAN :
        /\ PushReject(t, b) /\ (b => t \in lookupCancelled)
        /\ leaked \subseteq leaked' /\ leaked' \subseteq Slots
        /\ t \in lookupCancelled => b \/ t \in leaked'
  <2>1. CASE LookupRefused(l)
    <3>0. (t \in lookupCancelled) \in BOOLEAN
      OBVIOUS
    <3>1. PICK b \in BOOLEAN : b = (t \in lookupCancelled)
      BY ONLY <3>0
    <3>2. PushReject(t, b) /\ leaked' = leaked
      BY <1>a, <2>1, <3>1 DEF LookupRefused, history
    <3> QED
      BY <1>0, <3>1, <3>2 DEF TypeOK
  <2>2. CASE LookupTimesOut(l)
    <3>1. /\ PushReject(t, FALSE)
          /\ leaked' = IF t \in lookupCancelled THEN leaked \cup {t} ELSE leaked
      BY <1>a, <2>2 DEF LookupTimesOut
    <3>2. leaked \subseteq Slots
      BY <1>0 DEF TypeOK
    <3> QED
      BY <3>1, <3>2
  <2> QED
    BY <2>1, <2>2
<1>1. /\ lookups' = lookups \ {l} /\ lookupCancelled' = lookupCancelled \ {t}
      /\ UNCHANGED <<client, pass, queues, merges, table, slotsTold, parked, lotLookups, defined, farm,
                     misread>>
  BY <1>a DEF LookupRefused, LookupTimesOut, history
<1>2. TypeOK'
  <2>1. rejects' \in Seq(Rejects)
    BY <1>0, <1>b, RejectPushed
  <2> QED
    BY <1>0, <1>1, <1>b, <2>1 DEF TypeOK, Rejects, client, pass, queues, table, farm
<1>3. \A s : InLookup(s)' <=> InLookup(s) /\ s # t
  BY <1>0, <1>1, <1>a DEF InLookup, OnceInv
<1>4. \A s : Busy(s)' <=> Busy(s)
  BY <1>1, SameFarm DEF farm
<1> QED
  BY <1>1, <1>2, <1>3, <1>4, <1>b, RefusalStep

-----------------------------------------------------------------------------
(***************************************************************************)
(* The first slot of a contract a request can join.                        *)
(***************************************************************************)
LEMMA Least ==
    ASSUME NEW S \in SUBSET Nat, IsFiniteSet(S), S # {}
    PROVE  \E i \in S : \A j \in S : i <= j
<1>1. Cardinality(S) \in Nat /\ Cardinality(S) # 0
  BY FS_CardinalityType, FS_EmptySet
<1>2. 1 \in 1 .. Cardinality(S)
  BY <1>1
<1>3. PICK i \in S : Rank(S, i) = 1
  BY <1>2, RankOf
<1>4. ASSUME NEW j \in S, j < i PROVE FALSE
  <2>1. Rank(S, j) < 1 /\ Rank(S, j) \in 1 .. Cardinality(S)
    BY <1>3, <1>4, RankRises, RankType
  <2> QED
    BY ONLY <1>1, <2>1
<1> QED
  BY <1>3, <1>4

LEMMA SlotsFinite == \A S : S \subseteq Slots => S \in SUBSET Nat /\ IsFiniteSet(S)
<1>1. IsFiniteSet(Slots)
  BY Numbers, FS_Interval
<1> QED
  BY <1>1, Numbers, FS_Subset

LEMMA TopSlot ==
    ASSUME NEW c, NEW e
    PROVE  /\ RunningTopSlot(c, e) = NoSlot
              => \A s \in Slots \ {e} : con[s] = c => ~JoinsTop(s)
           /\ RunningTopSlot(c, e) # NoSlot
              => /\ RunningTopSlot(c, e) \in Slots \ {e}
                 /\ con[RunningTopSlot(c, e)] = c /\ JoinsTop(RunningTopSlot(c, e))
<1>1. PICK found : found = {s \in Slots \ {e} : con[s] = c /\ JoinsTop(s)}
  OBVIOUS
<1>2. RunningTopSlot(c, e) = IF found = {} THEN NoSlot
                             ELSE CHOOSE s \in found : \A t \in found : s <= t
  BY <1>1 DEF RunningTopSlot
<1>3. found \subseteq Slots
  BY <1>1
<1>4. CASE found = {}
  BY <1>1, <1>2, <1>4
<1>5. CASE found # {}
  <2>1. \E s \in found : \A t \in found : s <= t
    BY <1>3, <1>5, SlotsFinite, Least
  <2>2. RunningTopSlot(c, e) \in found
    BY <1>2, <1>5, <2>1
  <2> QED
    BY <1>1, <2>2, Numbers
<1> QED
  BY <1>4, <1>5

-----------------------------------------------------------------------------
(***************************************************************************)
(* A lookup finds its contract.                                            *)
(***************************************************************************)
LEMMA MergePushed ==
    ASSUME TypeOK, NEW t \in Slots, NEW u \in Slots,
           merges' = Append(merges, [from |-> t, into |-> u,
                                     stale |-> CancelOnItsWay(t) \/ CancelOnItsWay(u)])
    PROVE  /\ merges' \in Seq(Merges)
           /\ \A x, s : FreshMerge(x, s)' <=>
                \/ FreshMerge(x, s)
                \/ x = t /\ s = u /\ ~CancelOnItsWay(t) /\ ~CancelOnItsWay(u)
           /\ \A x : MergeFrom(x)' <=> MergeFrom(x) \/ x = t
<1>1. merges \in Seq(Merges)
  BY DEF TypeOK, Merges
<1>2. PICK c \in BOOLEAN : c = (CancelOnItsWay(t) \/ CancelOnItsWay(u))
  BY DEF CancelOnItsWay
<1>3. PICK m : m = [from |-> t, into |-> u, stale |-> c]
  OBVIOUS
<1>4. m \in Merges /\ m.from = t /\ m.into = u /\ m.stale = c
  BY <1>3 DEF Merges
<1>5. merges' = Append(merges, m)
  BY <1>2, <1>3
<1>6. /\ merges' \in Seq(Merges) /\ Len(merges) \in Nat /\ Len(merges') = Len(merges) + 1
      /\ \A k \in 1 .. Len(merges) : merges'[k] = merges[k]
      /\ merges'[Len(merges) + 1] = m
  BY <1>1, <1>4, <1>5, AppendAt
<1>7. \A i \in 1 .. Len(merges') : i \in 1 .. Len(merges) \/ i = Len(merges) + 1
  BY ONLY <1>6
<1>8. 1 .. Len(merges) \subseteq 1 .. Len(merges') /\ Len(merges) + 1 \in 1 .. Len(merges')
  BY ONLY <1>6
<1>9. \A x, s : FreshMerge(x, s)' <=>
         \/ FreshMerge(x, s)
         \/ x = t /\ s = u /\ ~CancelOnItsWay(t) /\ ~CancelOnItsWay(u)
  BY ONLY <1>2, <1>4, <1>6, <1>7, <1>8 DEF FreshMerge
<1>10. \A x : MergeFrom(x)' <=> MergeFrom(x) \/ x = t
  BY ONLY <1>4, <1>6, <1>7, <1>8 DEF MergeFrom
<1> QED
  BY <1>6, <1>9, <1>10

LEMMA FoundEffect ==
    ASSUME TypeOK, ConInv, OnceInv, NEW l \in lookups, LookupFound(l),
           NEW t, t = l.slot, NEW c, c = l.con, NEW u, u = RunningTopSlot(c, t)
    PROVE  /\ TypeOK' /\ t \in Slots /\ c \in Contracts /\ con[t] = Unresolved /\ t \notin lookupCancelled
           /\ u # NoSlot => u \in Slots /\ u # t /\ con[u] = c /\ Busy(u)
           /\ \A s \in Slots : con'[s] = IF s = t THEN c ELSE con[s]
           /\ \A d \in Contracts : conMap'[d] = IF d = c /\ conMap[c] = NoSlot THEN t ELSE conMap[d]
           /\ lookups' = lookups \ {l}
           /\ \A s : InLookup(s)' <=> InLookup(s) /\ s # t
           /\ \A s : Busy(s)' <=> Busy(s) \/ (s = t /\ u = NoSlot)
           /\ \A x, s : FreshMerge(x, s)' <=>
                \/ FreshMerge(x, s)
                \/ u # NoSlot /\ x = t /\ s = u /\ ~CancelOnItsWay(t) /\ ~CancelOnItsWay(u)
           /\ \A x : MergeFrom(x)' <=> MergeFrom(x) \/ (u # NoSlot /\ x = t)
           /\ UNCHANGED <<client, pass, queues, rejects, freeIds, active, slotsTold, lookupCancelled,
                          parked, history>>
<1>1. /\ t \notin lookupCancelled /\ lookups' = lookups \ {l} /\ defined' = defined \cup {c}
      /\ con' = [con EXCEPT ![t] = c]
      /\ conMap' = IF conMap[c] = NoSlot THEN [conMap EXCEPT ![c] = t] ELSE conMap
      /\ UNCHANGED <<client, pass, queues, rejects, freeIds, active, slotsTold, lookupCancelled,
                     parked, lotLookups, history>>
  BY DEF LookupFound
<1>2. t \in Slots /\ c \in Contracts
  BY DEF TypeOK
<1>3. InLookup(t) /\ con[t] = Unresolved
  BY <1>2 DEF InLookup, ConInv
<1>4. u # NoSlot => u \in Slots /\ u # t /\ con[u] = c /\ Busy(u)
  <2>1. SUFFICES ASSUME u # NoSlot PROVE u \in Slots /\ u # t /\ con[u] = c /\ Busy(u)
    OBVIOUS
  <2>2. u \in Slots /\ u # t /\ con[u] = c /\ JoinsTop(u)
    BY <2>1, TopSlot
  <2> QED
    BY <1>2, <2>2, Joins, Numbers DEF ConInv
<1>5. \A s : InLookup(s)' <=> InLookup(s) /\ s # t
  BY <1>1 DEF InLookup, OnceInv
<1>6. \A s \in Slots : con'[s] = IF s = t THEN c ELSE con[s]
  BY <1>1, <1>2 DEF TypeOK
<1>7. \A d \in Contracts : conMap'[d] = IF d = c /\ conMap[c] = NoSlot THEN t ELSE conMap[d]
  BY <1>1, <1>2 DEF TypeOK
<1>8. /\ con' \in [Slots -> Contracts \cup {Unresolved, FREE_SLOT}]
      /\ conMap' \in [Contracts -> Slots \cup {NoSlot}]
      /\ defined' \subseteq Contracts /\ lookups' \subseteq [slot : Slots, con : Contracts]
  BY <1>1, <1>2 DEF TypeOK
<1>9. CASE u = NoSlot
  <2>0. Route({t}) /\ UNCHANGED merges
    BY <1>9 DEF LookupFound
  <2>1. /\ running' \cup unrouted' = running \cup unrouted \cup {t}
        /\ UNCHANGED <<confirmed, losses, merges>>
    BY <2>0 DEF Route
  <2>2. running' \subseteq Slots /\ unrouted' \subseteq Slots
    BY <1>2, <2>1 DEF TypeOK
  <2>3. TypeOK'
    BY <1>1, <1>8, <2>1, <2>2 DEF TypeOK, client, pass, queues, history
  <2>4. \A s : Busy(s)' <=> Busy(s) \/ s = t
    BY <1>1, <2>1 DEF Busy
  <2> QED
    BY <1>1, <1>2, <1>3, <1>5, <1>6, <1>7, <1>9, <2>1, <2>3, <2>4, SameMerges
<1>10. CASE u # NoSlot
  <2>1. /\ merges' = Append(merges, [from |-> t, into |-> u,
                                     stale |-> CancelOnItsWay(t) \/ CancelOnItsWay(u)])
        /\ UNCHANGED <<running, unrouted, confirmed, losses>>
    BY <1>10 DEF LookupFound, farm
  <2>2. /\ merges' \in Seq(Merges)
        /\ \A x, s : FreshMerge(x, s)' <=>
                \/ FreshMerge(x, s)
                \/ x = t /\ s = u /\ ~CancelOnItsWay(t) /\ ~CancelOnItsWay(u)
        /\ \A x : MergeFrom(x)' <=> MergeFrom(x) \/ x = t
    BY <1>2, <1>4, <1>10, <2>1, MergePushed
  <2>3. TypeOK'
    BY <1>1, <1>8, <2>1, <2>2 DEF TypeOK, Merges, client, pass, queues, history
  <2>4. \A s : Busy(s)' <=> Busy(s)
    BY <1>1, <2>1, SameFarm
  <2> QED
    BY <1>1, <1>2, <1>3, <1>4, <1>5, <1>6, <1>7, <1>10, <2>2, <2>3, <2>4
<1> QED
  BY <1>9, <1>10

LEMMA FoundStep ==
    ASSUME NEW f, MarketInv(f), NEW l \in lookups, LookupFound(l)
    PROVE  MarketInv(f)'
<1>0. TypeOK /\ FreeInv /\ ConInv /\ OnceInv /\ ReqInv /\ Pairs(f)
  BY DEF MarketInv, EngineInv
<1>a. PICK t, c, u : t = l.slot /\ c = l.con /\ u = RunningTopSlot(c, t)
  OBVIOUS
<1>1. /\ TypeOK' /\ t \in Slots /\ c \in Contracts /\ con[t] = Unresolved /\ t \notin lookupCancelled
      /\ u # NoSlot => u \in Slots /\ u # t /\ con[u] = c /\ Busy(u)
      /\ \A s \in Slots : con'[s] = IF s = t THEN c ELSE con[s]
      /\ \A d \in Contracts : conMap'[d] = IF d = c /\ conMap[c] = NoSlot THEN t ELSE conMap[d]
      /\ lookups' = lookups \ {l}
      /\ \A s : InLookup(s)' <=> InLookup(s) /\ s # t
      /\ \A s : Busy(s)' <=> Busy(s) \/ (s = t /\ u = NoSlot)
      /\ \A x, s : FreshMerge(x, s)' <=>
           \/ FreshMerge(x, s)
           \/ u # NoSlot /\ x = t /\ s = u /\ ~CancelOnItsWay(t) /\ ~CancelOnItsWay(u)
      /\ \A x : MergeFrom(x)' <=> MergeFrom(x) \/ (u # NoSlot /\ x = t)
      /\ UNCHANGED <<client, pass, queues, rejects, freeIds, active, slotsTold, lookupCancelled,
                     parked, history>>
  BY <1>0, <1>a, FoundEffect
<1>2. UNCHANGED <<phase, of, at, conSlot, pc, follow, turn, direct, rejects, freeIds, active,
                  slotsTold, lookupCancelled, misread, leaked>>
  BY <1>1 DEF client, pass, queues, history
<1>3. /\ \A s, d : (Told(s)' <=> Told(s)) /\ (ToldFor(d, s)' <=> ToldFor(d, s))
      /\ \A s : CancelOnItsWay(s)' <=> CancelOnItsWay(s)
      /\ \A s : Read(s)' <=> Read(s)
      /\ \A s : /\ Refused(s)' <=> Refused(s)
                /\ FreshRefused(s)' <=> FreshRefused(s)
                /\ CancelNoted(s)' <=> CancelNoted(s)
  BY <1>1, <1>2, SameTold, SameQueues, SameAt, SameRejects
<1>4. InLookup(t) /\ ~Told(t) /\ ~Busy(t) /\ l \in lookups
  <2>1. InLookup(t)
    BY <1>a DEF InLookup
  <2> QED
    BY <1>0, <1>1, <2>1, ToldIs, Numbers DEF ConInv
<1>5. /\ \A s : s # t => (Holds(s)' <=> Holds(s))
      /\ Holds(t)' <=> u = NoSlot
  BY <1>1, <1>4, Joins
<1>6. FreeInv' /\ ConInv' /\ OnceInv' /\ ReqInv'
  <2>1. FreeInv'
    <3>1. \A i \in 1 .. Len(freeIds) : freeIds[i] \in Slots
      BY <1>0 DEF TypeOK
    <3> QED
      BY <1>0, <1>1, <1>2, <3>1, Numbers DEF FreeInv
  <2>2. ConInv'
    <3>1. \A d \in Contracts : conMap[d] # NoSlot => conMap[d] \in Slots /\ conMap[d] # t
      BY <1>0, <1>1, Numbers DEF ConInv, TypeOK
    <3>2. \A d \in Contracts : conMap'[d] # NoSlot => con'[conMap'[d]] = d
      BY <1>0, <1>1, <3>1 DEF ConInv
    <3>3. \A d : \A s \in Slots : ToldFor(d, s)' => s # t
      <4>1. \A d : ~ToldFor(d, t)
        BY <1>0, <1>4, ToldIs DEF ToldFor
      <4> QED
        BY <1>3, <4>1
    <3> QED
      BY <1>0, <1>1, <1>3, <3>2, <3>3 DEF ConInv
  <2>3. OnceInv'
    BY <1>0, <1>1, <1>2 DEF OnceInv
  <2>4. ReqInv'
    BY <1>0, <1>2 DEF ReqInv
  <2> QED
    BY <2>1, <2>2, <2>3, <2>4
<1>8. ASSUME PictureInv, TurnInv(f)
      PROVE  PictureInv' /\ TurnInv(f)'
  <2> USE <1>8 DEF PictureInv
  <2>0. /\ \A d \in Contracts : conSlot[d] # t
        /\ \A d \in Contracts : conSlot[d] # NoSlot => conSlot[d] \in Slots
        /\ follow \subseteq Slots /\ t \notin follow
    <3>1. \A d \in Contracts : conSlot[d] # t
      BY <1>1, Numbers DEF StreamsInv
    <3>2. t \notin follow
      BY <1>1, Numbers DEF FollowInv
    <3> QED
      BY <1>0, <3>1, <3>2 DEF TypeOK
  <2>1. StreamsInv'
    BY <1>1, <1>2, <1>3, <2>0 DEF StreamsInv
  <2>2. ReadsInv'
    <3>1. \A r \in Reqs : at[r] # NoSlot => at[r] \in Slots
      BY <1>0 DEF TypeOK
    <3>2. \A r \in Reqs : at[r] = t => of[r] = c
      BY <1>a DEF ReadsInv
    <3> QED
      BY <1>1, <1>2, <3>1, <3>2 DEF ReadsInv
  <2>3. MergeInv'
    <3>1. SUFFICES ASSUME NEW x \in Slots, NEW s \in Slots, FreshMerge(x, s)'
                   PROVE  MergeIdle(x)' /\ MergeInto(x, s)'
      BY DEF MergeInv
    <3>2. CASE FreshMerge(x, s)
      <4>1. MergeIdle(x) /\ MergeInto(x, s)
        BY <3>2 DEF MergeInv
      <4>2. x # t /\ s # t
        BY <1>1, <4>1, Numbers DEF MergeIdle, MergeInto
      <4>3. MergeIdle(x)'
        BY <1>1, <1>2, <1>3, <1>5, <4>1, <4>2 DEF MergeIdle
      <4>4. MergeInto(x, s)'
        BY <1>1, <1>2, <1>3, <4>1, <4>2 DEF MergeInto
      <4> QED
        BY <4>3, <4>4
    <3>3. CASE u # NoSlot /\ x = t /\ s = u /\ ~CancelOnItsWay(t) /\ ~CancelOnItsWay(u)
      <4>1. MergeIdle(x)'
        BY <1>1, <1>2, <1>3, <1>4, <1>5, <2>0, <3>3 DEF MergeIdle
      <4>2. Holds(u) /\ u \in Slots /\ u # t
        BY <1>1, <3>3, Joins
      <4>3. u \notin follow /\ \A z \in Slots : ~FreshMerge(u, z)
        BY <4>2 DEF FollowInv, MergeInv, MergeIdle
      <4>4. MergeInto(x, s)'
        BY <1>1, <1>2, <1>3, <3>3, <4>2, <4>3 DEF MergeInto
      <4> QED
        BY <4>1, <4>4
    <3> QED
      BY <1>1, <3>1, <3>2, <3>3
  <2>4. DirectInv'
    BY <1>2, <1>3 DEF DirectInv
  <2>5. FollowInv'
    BY <1>1, <1>2, <1>3, <1>5, <2>0 DEF FollowInv
  <2>6. CancelledInv'
    BY <1>1, <1>2, <1>3, <1>4 DEF CancelledInv
  <2>7. WaitInv'
    BY <1>1, <1>3, <1>5 DEF WaitInv
  <2>8. OwedInv'
    BY <1>1, <1>2, <1>3, Numbers DEF OwedInv, Owed
  <2>9. TurnInv(f)'
    BY <1>0, <1>2, <1>3, TurnKept
  <2> QED
    BY <2>1, <2>2, <2>3, <2>4, <2>5, <2>6, <2>7, <2>8, <2>9
<1>9. Pairs(f)'
  BY <1>0, <1>2, PairsKept
<1> QED
  BY <1>1, <1>2, <1>6, <1>8, <1>9 DEF MarketInv, EngineInv

-----------------------------------------------------------------------------
(***************************************************************************)
(* The commands that subscribe, in their turn.                             *)
(***************************************************************************)
LEMMA CommandTaken ==
    ASSUME TypeOK, turn # <<>>, turn' = Tail(turn)
    PROVE  /\ turn' \in Seq(Commands) /\ Head(turn) \in Commands
           /\ \A s : Unsubscribe(s) \in ToSet(turn)
                     <=> Unsubscribe(s) \in ToSet(turn') \/ Head(turn) = Unsubscribe(s)
           /\ Head(turn).kind # "unsubscribe" =>
                \A s : Unsubscribe(s) \in ToSet(turn') <=> Unsubscribe(s) \in ToSet(turn)
<1>1. turn \in Seq(Commands)
  BY SeqTypes
<1>2. /\ turn' \in Seq(Commands) /\ Head(turn) \in Commands
      /\ ToSet(turn) = {Head(turn)} \cup ToSet(turn')
  BY <1>1, InTail
<1>3. \A s : Head(turn) = Unsubscribe(s) => Head(turn).kind = "unsubscribe"
  BY CommandsAre
<1> QED
  BY <1>2, <1>3

LEMMA FirstToldTaken ==
    ASSUME TypeOK, OnceInv, NEW d, NEW t, slotsTold # <<>>, slotsTold[1][1] = d, slotsTold[1][2] = t,
           slotsTold' = Tail(slotsTold)
    PROVE  /\ slotsTold' \in Seq(ToldTypes) /\ t \in Slots /\ d \in Contracts \cup {NoContract}
           /\ \A s : Told(s) <=> Told(s)' \/ s = t
           /\ \A x, s : ToldFor(x, s) <=> ToldFor(x, s)' \/ (x = d /\ s = t)
           /\ d = NoContract => ~Told(t)'
           /\ \A i, j \in 1 .. Len(slotsTold') :
                slotsTold'[i][1] = NoContract /\ slotsTold'[j][2] = slotsTold'[i][2] => i = j
<1>1. slotsTold \in Seq(ToldTypes)
  BY SeqTypes
<1>2. PICK m \in Nat : m + 1 = Len(slotsTold)
  <2>1. Len(slotsTold) \in Nat \ {0}
    BY <1>1, TailAt
  <2> QED
    BY <2>1
<1>3. /\ slotsTold' \in Seq(ToldTypes) /\ Len(slotsTold') = m
      /\ \A j \in 1 .. m : slotsTold'[j] = slotsTold[j + 1]
  BY <1>1, <1>2, TailAt
<1>4. /\ \A j \in 1 .. m : j + 1 \in 1 .. m + 1 /\ j + 1 # 1
      /\ \A j \in 1 .. m + 1 : j # 1 => \E k \in 1 .. m : k + 1 = j
      /\ 1 \in 1 .. m + 1
      /\ \A i, j \in 1 .. m : i + 1 = j + 1 => i = j
  <2>1. \A j \in 1 .. m + 1 : j # 1 => j - 1 \in 1 .. m /\ (j - 1) + 1 = j
    BY ONLY <1>2
  <2> QED
    BY ONLY <1>2, <2>1
<1>5. /\ \A s : Told(s) <=> \E j \in 1 .. m + 1 : slotsTold[j][2] = s
      /\ \A s : Told(s)' <=> \E j \in 1 .. m : slotsTold'[j][2] = s
      /\ \A x, s : ToldFor(x, s) <=> \E j \in 1 .. m + 1 : slotsTold[j][1] = x /\ slotsTold[j][2] = s
      /\ \A x, s : ToldFor(x, s)' <=> \E j \in 1 .. m : slotsTold'[j][1] = x /\ slotsTold'[j][2] = s
  <2>1. DOMAIN slotsTold = 1 .. m + 1 /\ DOMAIN slotsTold' = 1 .. m
    BY ONLY <1>1, <1>2, <1>3
  <2> QED
    BY ONLY <1>2, <1>3, <2>1 DEF Told, ToldFor
<1>6. \A s : Told(s) <=> Told(s)' \/ s = t
  <2>1. ASSUME NEW s, Told(s), s # t PROVE Told(s)'
    <3>1. PICK j \in 1 .. m + 1 : slotsTold[j][2] = s
      BY ONLY <1>5, <2>1
    <3>2. PICK k \in 1 .. m : k + 1 = j
      BY ONLY <1>4, <2>1, <3>1, slotsTold[1][2] = t
    <3>3. slotsTold'[k][2] = s
      BY ONLY <1>3, <3>1, <3>2
    <3> QED
      BY ONLY <1>5, <3>3
  <2>2. \A s : Told(s)' \/ s = t => Told(s)
    BY ONLY <1>3, <1>4, <1>5, slotsTold[1][2] = t
  <2> QED
    BY ONLY <2>1, <2>2
<1>7. \A x, s : ToldFor(x, s) <=> ToldFor(x, s)' \/ (x = d /\ s = t)
  <2>1. ASSUME NEW x, NEW s, ToldFor(x, s), ~(x = d /\ s = t) PROVE ToldFor(x, s)'
    <3>1. PICK j \in 1 .. m + 1 : slotsTold[j][1] = x /\ slotsTold[j][2] = s
      BY ONLY <1>5, <2>1
    <3>2. PICK k \in 1 .. m : k + 1 = j
      BY ONLY <1>4, <2>1, <3>1, slotsTold[1][2] = t, slotsTold[1][1] = d
    <3>3. slotsTold'[k][1] = x /\ slotsTold'[k][2] = s
      BY ONLY <1>3, <3>1, <3>2
    <3> QED
      BY ONLY <1>5, <3>3
  <2>2. \A x, s : ToldFor(x, s)' \/ (x = d /\ s = t) => ToldFor(x, s)
    BY ONLY <1>3, <1>4, <1>5, slotsTold[1][2] = t, slotsTold[1][1] = d
  <2> QED
    BY ONLY <2>1, <2>2
<1>8. d = NoContract => ~Told(t)'
  BY <1>2, <1>3, <1>4, <1>5 DEF OnceInv
<1>9. \A i, j \in 1 .. Len(slotsTold') :
        slotsTold'[i][1] = NoContract /\ slotsTold'[j][2] = slotsTold'[i][2] => i = j
  <2>1. SUFFICES ASSUME NEW i \in 1 .. m, NEW j \in 1 .. m, slotsTold'[i][1] = NoContract,
                        slotsTold'[j][2] = slotsTold'[i][2]
                 PROVE  i = j
    BY ONLY <1>3, <2>1
  <2>2. /\ i + 1 \in 1 .. m + 1 /\ j + 1 \in 1 .. m + 1
        /\ slotsTold[i + 1][1] = NoContract /\ slotsTold[j + 1][2] = slotsTold[i + 1][2]
    BY ONLY <1>3, <1>4, <2>1
  <2>3. i + 1 = j + 1
    BY <1>2, <2>2 DEF OnceInv
  <2> QED
    BY ONLY <1>4, <2>3
<1>10. t \in Slots /\ d \in Contracts \cup {NoContract}
  <2>1. slotsTold[1] \in ToldTypes
    BY <1>1, <1>2, <1>4
  <2> QED
    BY <2>1 DEF ToldTypes
<1> QED
  BY <1>3, <1>6, <1>7, <1>8, <1>9, <1>10

LEMMA ToldFirst ==
    ASSUME TypeOK, slotsTold # <<>>, NEW c, slotsTold[1][1] = c
    PROVE  ToldAt(c) = 1 /\ RemoveAt(slotsTold, ToldAt(c)) = Tail(slotsTold)
<1>1. slotsTold \in Seq(ToldTypes)
  BY SeqTypes
<1>2. Len(slotsTold) \in Nat \ {0} /\ DOMAIN slotsTold = 1 .. Len(slotsTold)
  BY <1>1, TailAt
<1>3. 1 \in DOMAIN slotsTold /\ 1 .. 1 - 1 = {} /\ \A i \in DOMAIN slotsTold : i # 1 => 1 \in 1 .. i - 1
  BY ONLY <1>2
<1>4. ToldAt(c) = 1
  BY ONLY <1>3, slotsTold[1][1] = c DEF ToldAt
<1>5. RemoveAt(slotsTold, 1) = Tail(slotsTold)
  BY <1>1, <1>2 DEF RemoveAt
<1> QED
  BY <1>4, <1>5

LEMMA HandleSubscribeStep ==
    ASSUME NEW f, MarketInv(f), HandleSubscribe
    PROVE  \E g : MarketInv(g)'
<1>0. TypeOK /\ FreeInv /\ ConInv /\ OnceInv /\ ReqInv /\ Pairs(f)
  BY DEF MarketInv, EngineInv
<1>a. turn # <<>> /\ Head(turn).kind = "subscribe" /\ turn' = Tail(turn)
  BY DEF HandleSubscribe
<1>b. PICK c : c = Head(turn).con
  OBVIOUS
<1>c. slotsTold # <<>> /\ slotsTold[1][1] = c
  BY <1>0, <1>a, <1>b, FirstTold
<1>d. PICK t : t = slotsTold[1][2]
  OBVIOUS
<1>e. ToldAt(c) = 1 /\ RemoveAt(slotsTold, ToldAt(c)) = Tail(slotsTold)
  BY <1>0, <1>c, ToldFirst
<1>f. /\ slotsTold' = Tail(slotsTold)
      /\ \/ JoinsTop(t) /\ UNCHANGED <<parked, lotLookups, farm>>
         \/ /\ ~JoinsTop(t) /\ parked' = parked \cup {t}
            /\ lotLookups' = lotLookups \cup {c} /\ UNCHANGED farm
         \/ ~JoinsTop(t) /\ Route({t}) /\ UNCHANGED <<parked, lotLookups>>
      /\ UNCHANGED <<client, pass, direct, notes, table, lookups, lookupCancelled, defined, history>>
  BY <1>b, <1>d, <1>e DEF HandleSubscribe
<1>1. /\ turn' \in Seq(Commands) /\ c \in Contracts
      /\ \A s : Unsubscribe(s) \in ToSet(turn') <=> Unsubscribe(s) \in ToSet(turn)
  BY <1>0, <1>a, <1>b, CommandTaken, CommandsAre
<1>2. /\ slotsTold' \in Seq(ToldTypes) /\ t \in Slots
      /\ \A s : Told(s) <=> Told(s)' \/ s = t
      /\ \A x, s : ToldFor(x, s) <=> ToldFor(x, s)' \/ (x = c /\ s = t)
      /\ \A i, j \in 1 .. Len(slotsTold') :
           slotsTold'[i][1] = NoContract /\ slotsTold'[j][2] = slotsTold'[i][2] => i = j
  BY <1>0, <1>c, <1>d, <1>f, FirstToldTaken
<1>3. UNCHANGED <<phase, of, at, conSlot, pc, follow, direct, merges, rejects, con, conMap,
                  freeIds, active, lookups, lookupCancelled, misread, leaked>>
  BY <1>f DEF client, pass, notes, table, history
<1>4. con[t] = c /\ ~InLookup(t)
  BY <1>0, <1>1, <1>2, Numbers DEF ConInv
<1>5. \A s : Busy(s)' <=> Busy(s) \/ s = t
  <2>1. CASE JoinsTop(t) /\ UNCHANGED <<parked, lotLookups, farm>>
    <3>1. Busy(t)
      BY <1>4, <2>1, Joins
    <3> QED
      BY <2>1, <3>1, SameFarm DEF farm
  <2>2. CASE parked' = parked \cup {t} /\ UNCHANGED farm
    BY <2>2 DEF Busy, farm
  <2>3. CASE Route({t}) /\ UNCHANGED parked
    BY <2>3 DEF Busy, Route
  <2> QED
    BY <1>f, <2>1, <2>2, <2>3
<1>6. /\ \A s : InLookup(s)' <=> InLookup(s)
      /\ \A s : Holds(s)' <=> Holds(s) \/ s = t
      /\ \A s : CancelOnItsWay(s)' <=> CancelOnItsWay(s)
      /\ \A s : Read(s)' <=> Read(s)
      /\ \A x, s : (FreshMerge(x, s)' <=> FreshMerge(x, s)) /\ (MergeFrom(x)' <=> MergeFrom(x))
      /\ \A s : /\ Refused(s)' <=> Refused(s)
                /\ FreshRefused(s)' <=> FreshRefused(s)
                /\ CancelNoted(s)' <=> CancelNoted(s)
  <2>1. \A s : CancelOnItsWay(s)' <=> CancelOnItsWay(s)
    BY <1>1, <1>3 DEF CancelOnItsWay
  <2>2. \A s : InLookup(s)' <=> InLookup(s)
    BY <1>3, SameLookups
  <2>3. \A s : Holds(s)' <=> Holds(s) \/ s = t
    BY <1>5, <2>2, Joins
  <2> QED
    BY <1>3, <2>1, <2>2, <2>3, SameAt, SameMerges, SameRejects
<1>7. TypeOK' /\ FreeInv' /\ ConInv' /\ OnceInv' /\ ReqInv'
  <2>1. /\ parked' \subseteq Slots /\ lotLookups' \subseteq Contracts
        /\ running' \subseteq Slots /\ unrouted' \subseteq Slots
        /\ UNCHANGED <<confirmed, losses>>
    BY <1>0, <1>1, <1>2, <1>f DEF TypeOK, farm, Route
  <2>2. TypeOK'
    BY <1>0, <1>1, <1>2, <1>3, <1>f, <2>1 DEF TypeOK, Commands, ToldTypes
  <2>3. FreeInv' /\ ReqInv'
    BY <1>0, <1>3 DEF FreeInv, ReqInv
  <2>4. ConInv'
    BY <1>0, <1>1, <1>2, <1>3, <1>4, <1>5, <1>6 DEF ConInv
  <2>5. OnceInv'
    BY <1>0, <1>2, <1>3, <1>6 DEF OnceInv
  <2> QED
    BY <2>2, <2>3, <2>4, <2>5
<1>8. PICK g : Pairs(g)' /\ (TurnInv(f) /\ UNCHANGED <<at, of, leaked>> => TurnInv(g)')
  BY <1>0, <1>a, <1>f, TurnTakenSubscribe
<1>9. ASSUME PictureInv, TurnInv(f)
      PROVE  PictureInv' /\ TurnInv(g)'
  <2> USE <1>9 DEF PictureInv
  <2>1. StreamsInv'
    BY <1>3, <1>6 DEF StreamsInv
  <2>2. ReadsInv'
    BY <1>3 DEF ReadsInv
  <2>3. MergeInv'
    <3>1. SUFFICES ASSUME NEW x \in Slots, NEW s \in Slots, FreshMerge(x, s)'
                   PROVE  MergeIdle(x)' /\ MergeInto(x, s)'
      BY DEF MergeInv
    <3>2. MergeIdle(x) /\ MergeInto(x, s)
      BY <1>6, <3>1 DEF MergeInv
    <3>3. x # t
      BY <1>2, <3>2 DEF MergeIdle
    <3>4. MergeIdle(x)'
      BY <1>2, <1>3, <1>6, <3>2, <3>3 DEF MergeIdle
    <3>5. MergeInto(x, s)'
      BY <1>3, <1>5, <1>6, <3>2 DEF MergeInto
    <3> QED
      BY <3>4, <3>5
  <2>4. DirectInv'
    BY <1>1, <1>3, <1>6 DEF DirectInv
  <2>5. FollowInv'
    BY <1>2, <1>3, <1>6 DEF FollowInv
  <2>6. CancelledInv'
    BY <1>2, <1>3, <1>6 DEF CancelledInv
  <2>7. WaitInv'
    BY <1>2, <1>6 DEF WaitInv
  <2>8. OwedInv'
    BY <1>3, <1>6 DEF OwedInv, Owed
  <2>9. TurnInv(g)'
    BY <1>3, <1>8
  <2> QED
    BY <2>1, <2>2, <2>3, <2>4, <2>5, <2>6, <2>7, <2>8, <2>9
<1>10. MarketInv(g)'
  BY <1>3, <1>7, <1>8, <1>9 DEF MarketInv, EngineInv
<1> QED
  BY <1>10

LEMMA HandleBySymbolStep ==
    ASSUME NEW f, MarketInv(f), HandleBySymbol
    PROVE  \E g : MarketInv(g)'
<1>0. TypeOK /\ FreeInv /\ ConInv /\ OnceInv /\ ReqInv /\ Pairs(f)
  BY DEF MarketInv, EngineInv
<1>a. turn # <<>> /\ Head(turn).kind = "bySymbol" /\ turn' = Tail(turn)
  BY DEF HandleBySymbol
<1>b. PICK c : c = Head(turn).con
  OBVIOUS
<1>c. slotsTold # <<>> /\ slotsTold[1][1] = NoContract /\ f[1] = 1 /\ 1 \in 1 .. Len(slotsTold)
  BY <1>0, <1>a, FirstTold
<1>d. PICK t : t = slotsTold[1][2]
  OBVIOUS
<1>e. ToldAt(NoContract) = 1 /\ RemoveAt(slotsTold, ToldAt(NoContract)) = Tail(slotsTold)
  BY <1>0, <1>c, ToldFirst
<1>f. PICK l : l = [slot |-> t, con |-> c]
  OBVIOUS
<1>g. /\ slotsTold' = Tail(slotsTold) /\ lookups' = lookups \cup {l}
      /\ UNCHANGED <<client, pass, direct, notes, table, lookupCancelled, parked, lotLookups, defined,
                     farm, history>>
  BY <1>b, <1>d, <1>e, <1>f DEF HandleBySymbol
<1>1. /\ turn' \in Seq(Commands) /\ c \in Contracts
      /\ \A s : Unsubscribe(s) \in ToSet(turn') <=> Unsubscribe(s) \in ToSet(turn)
  BY <1>0, <1>a, <1>b, CommandTaken, CommandsAre
<1>2. /\ slotsTold' \in Seq(ToldTypes) /\ t \in Slots
      /\ \A s : Told(s) <=> Told(s)' \/ s = t
      /\ \A x, s : ToldFor(x, s) <=> ToldFor(x, s)' \/ (x = NoContract /\ s = t)
      /\ ~Told(t)'
      /\ \A i, j \in 1 .. Len(slotsTold') :
           slotsTold'[i][1] = NoContract /\ slotsTold'[j][2] = slotsTold'[i][2] => i = j
  BY <1>0, <1>c, <1>d, <1>g, FirstToldTaken
<1>3. UNCHANGED <<phase, of, at, conSlot, pc, follow, direct, merges, rejects, con, conMap,
                  freeIds, active, lookupCancelled, parked, running, unrouted, misread, leaked>>
  BY <1>g DEF client, pass, notes, table, farm, history
<1>4. con[t] = Unresolved /\ ~InLookup(t) /\ l.slot = t /\ l.con = c
  BY <1>0, <1>2, <1>f DEF ConInv
<1>5. /\ \A s : Busy(s)' <=> Busy(s)
      /\ \A s : InLookup(s)' <=> InLookup(s) \/ s = t
      /\ \A s : Holds(s)' <=> Holds(s) \/ s = t
  <2>1. \A s : Busy(s)' <=> Busy(s)
    BY <1>3, SameFarm
  <2>2. \A s : InLookup(s)' <=> InLookup(s) \/ s = t
    BY <1>4, <1>g DEF InLookup
  <2> QED
    BY <2>1, <2>2, Joins
<1>6. /\ \A s : CancelOnItsWay(s)' <=> CancelOnItsWay(s)
      /\ \A s : Read(s)' <=> Read(s)
      /\ \A x, s : (FreshMerge(x, s)' <=> FreshMerge(x, s)) /\ (MergeFrom(x)' <=> MergeFrom(x))
      /\ \A s : /\ Refused(s)' <=> Refused(s)
                /\ FreshRefused(s)' <=> FreshRefused(s)
                /\ CancelNoted(s)' <=> CancelNoted(s)
  <2>1. \A s : CancelOnItsWay(s)' <=> CancelOnItsWay(s)
    BY <1>1, <1>3 DEF CancelOnItsWay
  <2> QED
    BY <1>3, <2>1, SameAt, SameMerges, SameRejects
<1>7. TypeOK' /\ FreeInv' /\ ConInv' /\ OnceInv' /\ ReqInv'
  <2>1. l \in [slot : Slots, con : Contracts]
    BY <1>1, <1>2, <1>f
  <2>2. TypeOK'
    BY <1>0, <1>1, <1>2, <1>3, <1>g, <2>1 DEF TypeOK, Commands, ToldTypes, farm
  <2>3. FreeInv' /\ ReqInv'
    BY <1>0, <1>3 DEF FreeInv, ReqInv
  <2>4. ConInv'
    <3>1. \A s : ToldFor(NoContract, s)' => s # t /\ ToldFor(NoContract, s)
      BY <1>2, <2>2, ToldNext
    <3> QED
      BY <1>0, <1>1, <1>2, <1>3, <1>4, <1>5, <3>1 DEF ConInv
  <2>5. OnceInv'
    <3>1. \A k \in lookups : k.slot # t
      BY <1>4 DEF InLookup
    <3>2. \A k, n \in lookups' : k.slot = n.slot => k = n
      BY <1>0, <1>4, <1>g, <3>1 DEF OnceInv
    <3> QED
      BY <1>0, <1>2, <1>3, <1>5, <3>2 DEF OnceInv
  <2> QED
    BY <2>2, <2>3, <2>4, <2>5
<1>8. PICK g : Pairs(g)' /\ (TurnInv(f) /\ UNCHANGED <<at, of, leaked>> => TurnInv(g)')
  BY <1>0, <1>a, <1>g, TurnTakenSubscribe
<1>9. ASSUME PictureInv, TurnInv(f)
      PROVE  PictureInv' /\ TurnInv(g)'
  <2> USE <1>9 DEF PictureInv
  <2>1. StreamsInv'
    BY <1>3, <1>6 DEF StreamsInv
  <2>2. ReadsInv'
    <3>1. turn \in Seq(Commands) /\ turn[1] = Head(turn)
      BY <1>0, <1>a, SeqTypes, TailAt
    <3>2. \A r \in Reqs : at[r] = t => of[r] = c
      BY <1>b, <1>c, <1>d, <3>1 DEF TurnInv, SymbolInv
    <3> QED
      BY <1>3, <1>4, <1>g, <3>2 DEF ReadsInv
  <2>3. MergeInv'
    <3>1. SUFFICES ASSUME NEW x \in Slots, NEW s \in Slots, FreshMerge(x, s)'
                   PROVE  MergeIdle(x)' /\ MergeInto(x, s)'
      BY DEF MergeInv
    <3>2. MergeIdle(x) /\ MergeInto(x, s)
      BY <1>6, <3>1 DEF MergeInv
    <3>3. x # t
      BY <1>2, <3>2 DEF MergeIdle
    <3>4. MergeIdle(x)'
      BY <1>2, <1>3, <1>5, <1>6, <3>2, <3>3 DEF MergeIdle
    <3>5. MergeInto(x, s)'
      BY <1>3, <1>5, <1>6, <3>2 DEF MergeInto
    <3> QED
      BY <3>4, <3>5
  <2>4. DirectInv'
    BY <1>1, <1>3, <1>6 DEF DirectInv
  <2>5. FollowInv'
    BY <1>2, <1>3, <1>5, <1>6 DEF FollowInv
  <2>6. CancelledInv'
    BY <1>2, <1>3, <1>5, <1>6 DEF CancelledInv
  <2>7. WaitInv'
    BY <1>2, <1>5, <1>6 DEF WaitInv
  <2>8. OwedInv'
    BY <1>3, <1>6 DEF OwedInv, Owed
  <2>9. TurnInv(g)'
    BY <1>3, <1>8
  <2> QED
    BY <2>1, <2>2, <2>3, <2>4, <2>5, <2>6, <2>7, <2>8, <2>9
<1>10. MarketInv(g)'
  BY <1>3, <1>7, <1>8, <1>9 DEF MarketInv, EngineInv
<1> QED
  BY <1>10

-----------------------------------------------------------------------------
(***************************************************************************)
(* The Unsubscribe arm: of a command in turn, and of a direct one.         *)
(***************************************************************************)
LEMMA UnsubscribeEffect ==
    ASSUME TypeOK, FreeInv, ConInv, OnceInv, NEW t \in Slots, HandleUnsubscribe(t),
           UNCHANGED <<slotsTold, lookups>>
    PROVE  /\ FreeInv' /\ ConInv' /\ OnceInv'
           /\ con' \in [Slots -> Contracts \cup {Unresolved, FREE_SLOT}]
           /\ conMap' \in [Contracts -> Slots \cup {NoSlot}]
           /\ freeIds' \in Seq(Slots) /\ active' = active
           /\ lookupCancelled' \subseteq Slots /\ parked' \subseteq Slots
           /\ running' \subseteq Slots /\ unrouted' \subseteq Slots /\ confirmed' \subseteq Slots
           /\ lookupCancelled' = IF InLookup(t) THEN lookupCancelled \cup {t} ELSE lookupCancelled
           /\ \A s : Busy(s)' <=> Busy(s) /\ s # t
           /\ \A s \in Slots :
                con'[s] = IF s = t /\ ~InLookup(t) /\ ~Told(t) THEN FREE_SLOT ELSE con[s]
<1>0. /\ \A s, c : (Told(s)' <=> Told(s)) /\ (ToldFor(c, s)' <=> ToldFor(c, s))
      /\ \A s : InLookup(s)' <=> InLookup(s)
  BY SameTold, SameLookups
<1>1. ASSUME InLookup(t), lookupCancelled' = lookupCancelled \cup {t},
             UNCHANGED <<table, parked, running, unrouted, confirmed>>
      PROVE  /\ FreeInv' /\ ConInv' /\ OnceInv'
             /\ lookupCancelled' \subseteq Slots
             /\ \A s : Busy(s)' <=> Busy(s) /\ s # t
             /\ UNCHANGED <<con, conMap, freeIds, active>>
  <2>1. UNCHANGED <<con, conMap, freeIds, active>>
    BY <1>1 DEF table
  <2>2. ~Busy(t)
    BY <1>1, Numbers DEF ConInv
  <2>3. \A s : Busy(s)' <=> Busy(s) /\ s # t
    BY <1>1, <2>2, SameFarm
  <2>4. FreeInv'
    BY <2>1 DEF FreeInv
  <2>5. ConInv'
    BY <1>0, <2>1, <2>3 DEF ConInv
  <2>6. OnceInv' /\ lookupCancelled' \subseteq Slots
    BY <1>0, <1>1 DEF OnceInv, TypeOK
  <2> QED
    BY <2>1, <2>3, <2>4, <2>5, <2>6
<1>2. ASSUME ~InLookup(t), parked' = parked \ {t}, running' = running \ {t}, unrouted' = unrouted \ {t},
             confirmed' = confirmed \ {t}, TryReclaim(t), UNCHANGED lookupCancelled
      PROVE  /\ FreeInv' /\ ConInv' /\ OnceInv'
             /\ con' \in [Slots -> Contracts \cup {Unresolved, FREE_SLOT}]
             /\ conMap' \in [Contracts -> Slots \cup {NoSlot}]
             /\ freeIds' \in Seq(Slots) /\ active' = active
             /\ \A s : Busy(s)' <=> Busy(s) /\ s # t
             /\ \A s \in Slots : con'[s] = IF s = t /\ ~Told(t) THEN FREE_SLOT ELSE con[s]
  <2>1. \A s : Busy(s)' <=> Busy(s) /\ s # t
    BY <1>2 DEF Busy
  <2>2. OnceInv'
    BY <1>0, <1>2 DEF OnceInv
  <2>3. CASE con[t] = FREE_SLOT \/ Told(t)
    <3>1. UNCHANGED <<con, conMap, freeIds, active>>
      BY <1>2, <2>3 DEF TryReclaim, table
    <3>2. FreeInv'
      BY <3>1 DEF FreeInv
    <3>3. ConInv'
      BY <1>0, <2>1, <3>1 DEF ConInv
    <3> QED
      BY <2>1, <2>2, <2>3, <3>1, <3>2, <3>3 DEF TypeOK
  <2>4. CASE con[t] # FREE_SLOT /\ ~Told(t)
    <3>1. /\ con' = [con EXCEPT ![t] = FREE_SLOT]
          /\ conMap' = [c \in Contracts |-> IF con[t] = c /\ conMap[c] = t THEN NoSlot ELSE conMap[c]]
          /\ freeIds' = Append(freeIds, t) /\ active' = active
      BY <1>2, <2>4 DEF TryReclaim, Unregister
    <3>2. /\ con' \in [Slots -> Contracts \cup {Unresolved, FREE_SLOT}]
          /\ conMap' \in [Contracts -> Slots \cup {NoSlot}]
          /\ \A s \in Slots : con'[s] = IF s = t THEN FREE_SLOT ELSE con[s]
      BY <3>1 DEF TypeOK
    <3>3. /\ freeIds \in Seq(Slots) /\ Len(freeIds) \in Nat
          /\ \A i \in 1 .. Len(freeIds) : freeIds[i] \in Slots
      BY DEF TypeOK
    <3>4. PICK n \in Nat : n = Len(freeIds)
      BY <3>3
    <3>5. /\ freeIds' \in Seq(Slots) /\ Len(freeIds') = n + 1
          /\ \A k \in 1 .. n : freeIds'[k] = freeIds[k]
          /\ freeIds'[n + 1] = t
      BY <3>1, <3>3, <3>4, AppendAt
    <3>6. FreeInv'
      <4>1. \A k \in 1 .. n + 1 : k \in 1 .. n \/ k = n + 1
        BY ONLY <3>4
      <4>2. t <= active
        BY <2>4, Numbers DEF FreeInv, TypeOK
      <4>3. \A i \in 1 .. n : freeIds[i] # t
        BY <2>4, <3>4 DEF FreeInv
      <4>4. \A i \in 1 .. n + 1 : con'[freeIds'[i]] = FREE_SLOT /\ freeIds'[i] <= active
        BY <3>2, <3>3, <3>4, <3>5, <4>1, <4>2 DEF FreeInv
      <4>5. \A i, j \in 1 .. n + 1 : freeIds'[i] = freeIds'[j] => i = j
        BY <3>4, <3>5, <4>1, <4>3 DEF FreeInv
      <4>6. \A s \in Slots : s > active => con'[s] = FREE_SLOT
        BY <3>2 DEF FreeInv
      <4> QED
        BY <3>1, <3>5, <4>4, <4>5, <4>6 DEF FreeInv
    <3>7. ConInv'
      <4>1. \A c \in Contracts : conMap'[c] # NoSlot => conMap'[c] = conMap[c] /\ conMap[c] # t
        BY <3>1 DEF ConInv
      <4>2. \A c \in Contracts : conMap'[c] # NoSlot => con'[conMap'[c]] = c
        BY <3>2, <4>1 DEF ConInv, TypeOK
      <4>3. \A c : ~ToldFor(c, t)
        BY <2>4, ToldIs DEF ToldFor
      <4> QED
        BY <1>0, <1>2, <2>1, <3>2, <4>2, <4>3 DEF ConInv
    <3> QED
      BY <2>1, <2>2, <2>4, <3>1, <3>2, <3>5, <3>6, <3>7
  <2> QED
    BY <2>3, <2>4
<1>3. CASE InLookup(t)
  <2>1. lookupCancelled' = lookupCancelled \cup {t} /\ UNCHANGED <<table, parked, running, unrouted, confirmed>>
    BY <1>3 DEF HandleUnsubscribe
  <2> QED
    BY <1>1, <1>3, <2>1 DEF TypeOK
<1>4. CASE ~InLookup(t)
  <2>1. /\ parked' = parked \ {t} /\ running' = running \ {t} /\ unrouted' = unrouted \ {t} /\ confirmed' = confirmed \ {t}
        /\ TryReclaim(t) /\ UNCHANGED lookupCancelled
    BY <1>4 DEF HandleUnsubscribe
  <2>2. /\ lookupCancelled' \subseteq Slots /\ parked' \subseteq Slots
        /\ running' \subseteq Slots /\ unrouted' \subseteq Slots /\ confirmed' \subseteq Slots
    BY <2>1 DEF TypeOK
  <2> QED
    BY <1>2, <1>4, <2>1, <2>2
<1> QED
  BY <1>3, <1>4

LEMMA UnsubscribeStep ==
    ASSUME NEW f, NEW g, MarketInv(f), NEW t \in Slots, HandleUnsubscribe(t),
           UNCHANGED <<client, pass, notes, slotsTold, lookups, lotLookups, defined, losses, history>>,
           turn' \in Seq(Commands), direct' \in Seq(Slots), Pairs(g)',
           \A s : s # t => (CancelOnItsWay(s)' <=> CancelOnItsWay(s)),
           PictureInv /\ TurnInv(f) =>
             /\ TurnInv(g)' /\ DirectInv'
             /\ CancelOnItsWay(t)
             /\ Read(t) => Told(t)
             /\ ~Told(t) => ~CancelOnItsWay(t)'
             /\ Told(t) => Read(t) \/ t \in leaked \/ CancelOnItsWay(t)'
    PROVE  MarketInv(g)'
<1>0. TypeOK /\ FreeInv /\ ConInv /\ OnceInv /\ ReqInv /\ Pairs(f)
  BY DEF MarketInv, EngineInv
<1>1. /\ FreeInv' /\ ConInv' /\ OnceInv'
      /\ con' \in [Slots -> Contracts \cup {Unresolved, FREE_SLOT}]
      /\ conMap' \in [Contracts -> Slots \cup {NoSlot}]
      /\ freeIds' \in Seq(Slots) /\ active' = active
      /\ lookupCancelled' \subseteq Slots /\ parked' \subseteq Slots
      /\ running' \subseteq Slots /\ unrouted' \subseteq Slots /\ confirmed' \subseteq Slots
      /\ lookupCancelled' = IF InLookup(t) THEN lookupCancelled \cup {t} ELSE lookupCancelled
      /\ \A s : Busy(s)' <=> Busy(s) /\ s # t
      /\ \A s \in Slots :
           con'[s] = IF s = t /\ ~InLookup(t) /\ ~Told(t) THEN FREE_SLOT ELSE con[s]
  BY <1>0, UnsubscribeEffect
<1>2. UNCHANGED <<phase, of, at, conSlot, pc, follow, merges, rejects, slotsTold, lookups, misread,
                  leaked>>
  BY DEF client, pass, notes, history
<1>3. TypeOK'
  BY <1>0, <1>1, <1>2 DEF TypeOK, Commands
<1>4. ReqInv'
  BY <1>0, <1>2 DEF ReqInv
<1>5. /\ \A s, c : (Told(s)' <=> Told(s)) /\ (ToldFor(c, s)' <=> ToldFor(c, s))
      /\ \A s : InLookup(s)' <=> InLookup(s)
      /\ \A s : Read(s)' <=> Read(s)
      /\ \A x, s : (FreshMerge(x, s)' <=> FreshMerge(x, s)) /\ (MergeFrom(x)' <=> MergeFrom(x))
      /\ \A s : /\ Refused(s)' <=> Refused(s)
                /\ FreshRefused(s)' <=> FreshRefused(s)
                /\ CancelNoted(s)' <=> CancelNoted(s)
  BY <1>2, SameTold, SameLookups, SameAt, SameMerges, SameRejects
<1>6. /\ \A s : Holds(s)' => Holds(s)
      /\ \A s : s # t => (Holds(s)' <=> Holds(s))
  BY <1>1, <1>5, Joins
<1>7. InLookup(t) => ~Told(t)
  BY <1>0, ToldIs, Numbers DEF ConInv
<1>8. ASSUME PictureInv, TurnInv(f)
      PROVE  PictureInv' /\ TurnInv(g)'
  <2> USE <1>8 DEF PictureInv
  <2>a. /\ TurnInv(g)' /\ DirectInv'
        /\ CancelOnItsWay(t)
        /\ Read(t) => Told(t)
        /\ ~Told(t) => ~CancelOnItsWay(t)'
        /\ Told(t) => Read(t) \/ t \in leaked \/ CancelOnItsWay(t)'
    OBVIOUS
  <2>b. \A s : CancelOnItsWay(s)' => CancelOnItsWay(s)
    BY <2>a
  <2>c. /\ \A c \in Contracts : conSlot[c] # NoSlot => conSlot[c] \in Slots
        /\ \A r \in Reqs : at[r] # NoSlot => at[r] \in Slots
        /\ follow \subseteq Slots /\ lookupCancelled \subseteq Slots
        /\ \A l \in lookups : l.slot \in Slots
    BY <1>0 DEF TypeOK
  <2>d. \A s \in Slots : Read(s) => con'[s] = con[s]
    BY <1>1, <2>a
  <2>1. StreamsInv'
    BY <1>2, <1>5, <2>c, <2>d DEF StreamsInv
  <2>2. ReadsInv'
    <3>1. \A r \in Reqs : at[r] # NoSlot => con'[at[r]] = con[at[r]]
      BY <2>c, <2>d DEF Read
    <3> QED
      BY <1>2, <3>1 DEF ReadsInv
  <2>3. MergeInv'
    <3>1. SUFFICES ASSUME NEW x \in Slots, NEW s \in Slots, FreshMerge(x, s)'
                   PROVE  MergeIdle(x)' /\ MergeInto(x, s)'
      BY DEF MergeInv
    <3>2. MergeIdle(x) /\ MergeInto(x, s)
      BY <1>5, <3>1 DEF MergeInv
    <3>3. x # t /\ s # t
      BY <2>a, <3>2 DEF MergeIdle, MergeInto
    <3>4. MergeIdle(x)'
      BY <1>1, <1>2, <1>5, <1>6, <2>b, <3>2, <3>3 DEF MergeIdle
    <3>5. MergeInto(x, s)'
      BY <1>1, <1>2, <1>5, <2>b, <3>2, <3>3 DEF MergeInto
    <3> QED
      BY <3>4, <3>5
  <2>4. FollowInv'
    <3>1. t \notin follow
      BY <2>a DEF FollowInv
    <3> QED
      BY <1>1, <1>2, <1>5, <1>6, <2>b, <2>c, <3>1 DEF FollowInv
  <2>5. CancelledInv'
    <3>1. \A s \in lookupCancelled' : ~Read(s)' /\ ~CancelOnItsWay(s)'
      BY <1>1, <1>5, <1>7, <2>a, <2>b DEF CancelledInv
    <3>2. \A s \in Slots : CancelNoted(s)' => s # t /\ CancelNoted(s)
      BY <1>5, <2>a DEF CancelledInv
    <3> QED
      BY <1>1, <1>5, <2>b, <3>1, <3>2 DEF CancelledInv
  <2>6. WaitInv'
    BY <1>5, <1>6, <2>a DEF WaitInv
  <2>7. OwedInv'
    <3>1. SUFFICES ASSUME NEW s \in Slots, con'[s] # FREE_SLOT PROVE Owed(s)'
      BY DEF OwedInv
    <3>2. con[s] # FREE_SLOT /\ Owed(s)
      BY <1>1, <3>1 DEF OwedInv
    <3>3. CASE s # t
      BY <1>1, <1>2, <1>5, <3>2, <3>3 DEF Owed
    <3>4. CASE s = t
      <4>1. InLookup(t) \/ Told(t)
        BY <1>1, <3>1, <3>4
      <4> QED
        BY <1>1, <1>2, <1>5, <2>a, <3>4, <4>1 DEF Owed
    <3> QED
      BY <3>3, <3>4
  <2> QED
    BY <2>a, <2>1, <2>2, <2>3, <2>4, <2>5, <2>6, <2>7
<1> QED
  BY <1>1, <1>2, <1>3, <1>4, <1>8 DEF MarketInv, EngineInv

LEMMA InTurnStep ==
    ASSUME NEW f, MarketInv(f), UnsubscribeInTurn
    PROVE  \E g : MarketInv(g)'
<1>0. TypeOK /\ ConInv /\ Pairs(f)
  BY DEF MarketInv, EngineInv
<1>a. /\ turn # <<>> /\ Head(turn).kind = "unsubscribe" /\ turn' = Tail(turn)
      /\ HandleUnsubscribe(Head(turn).slot)
      /\ UNCHANGED <<client, pass, direct, notes, slotsTold, lookups, lotLookups, defined, losses,
                     history>>
  BY DEF UnsubscribeInTurn
<1>1. /\ turn' \in Seq(Commands) /\ Head(turn) \in Commands
      /\ \A s : Unsubscribe(s) \in ToSet(turn)
                <=> Unsubscribe(s) \in ToSet(turn') \/ Head(turn) = Unsubscribe(s)
  BY <1>0, <1>a, CommandTaken
<1>2. PICK t \in Slots : t = Head(turn).slot /\ Head(turn) = Unsubscribe(t)
  BY <1>1, <1>a, CommandsAre
<1>3. \A s : s # t => (CancelOnItsWay(s)' <=> CancelOnItsWay(s))
  BY <1>1, <1>2, <1>a, CommandsAre DEF CancelOnItsWay
<1>4. PICK g : Pairs(g)' /\ (TurnInv(f) /\ UNCHANGED <<at, of, leaked>> => TurnInv(g)')
  BY <1>0, <1>a, TurnTakenUnsubscribe
<1>5. direct' \in Seq(Slots) /\ UNCHANGED <<at, of, leaked>>
  BY <1>0, <1>a DEF TypeOK, client, history
<1>6. ASSUME PictureInv, TurnInv(f)
      PROVE  /\ TurnInv(g)' /\ DirectInv'
             /\ CancelOnItsWay(t)
             /\ Read(t) => Told(t)
             /\ ~Told(t) => ~CancelOnItsWay(t)'
             /\ Told(t) => Read(t) \/ t \in leaked \/ CancelOnItsWay(t)'
  <2> USE <1>6 DEF PictureInv
  <2>1. TurnInv(g)'
    BY <1>4, <1>5
  <2>2. CancelOnItsWay(t) /\ Unsubscribe(t) \in ToSet(turn)
    BY <1>1, <1>2 DEF CancelOnItsWay
  <2>3. t \notin ToSet(direct)
    BY <2>2 DEF DirectInv
  <2>4. DirectInv'
    BY <1>1, <1>5, <1>a, SameAt DEF DirectInv
  <2>5. /\ turn \in Seq(Commands) /\ turn[1] = Unsubscribe(t) /\ Len(turn) \in Nat \ {0}
        /\ 1 \in 1 .. Len(turn)
    BY <1>0, <1>2, <1>a, SeqTypes, TailAt
  <2>6. /\ \A k \in 1 .. Len(turn') : k + 1 \in 1 .. Len(turn) /\ turn'[k] = turn[k + 1] /\ 1 < k + 1
        /\ \A k \in 1 .. Len(turn) : 1 < k =>
             k - 1 \in 1 .. Len(turn') /\ turn'[k - 1] = turn[k]
    <3>1. PICK n \in Nat : Len(turn) = n + 1 /\ Len(turn') = n
      <4>1. Len(turn') = Len(turn) - 1
        BY <1>a, <2>5, TailAt
      <4>2. Len(turn) - 1 \in Nat /\ Len(turn) = (Len(turn) - 1) + 1
        BY ONLY <2>5
      <4> QED
        BY ONLY <4>1, <4>2
    <3>2. \A k \in 1 .. n : turn'[k] = turn[k + 1]
      BY <1>a, <2>5, <3>1, TailAt
    <3>3. /\ \A k \in 1 .. n : k + 1 \in 1 .. n + 1 /\ 1 < k + 1
          /\ \A k \in 1 .. n + 1 : 1 < k => k - 1 \in 1 .. n /\ (k - 1) + 1 = k
      BY ONLY <3>1
    <3> QED
      BY ONLY <3>1, <3>2, <3>3
  <2>7. Read(t) => Told(t)
    BY <1>0, <2>5, ToldIs DEF TurnInv, BehindInv, Behind
  <2>8. ~Told(t) => ~CancelOnItsWay(t)'
    <3>1. SUFFICES ASSUME Unsubscribe(t) \in ToSet(turn') PROVE Told(t)
      BY <1>a, <2>3 DEF CancelOnItsWay
    <3>2. PICK k \in 1 .. Len(turn') : turn'[k] = Unsubscribe(t)
      BY <1>1, <3>1, InSet
    <3>3. k + 1 \in 1 .. Len(turn) /\ turn[k + 1] = Unsubscribe(t) /\ 1 < k + 1
      BY ONLY <2>6, <3>2
    <3>4. \E j \in 1 .. Len(slotsTold) : slotsTold[j][2] = t
      BY <2>5, <3>3 DEF TurnInv, BetweenInv
    <3> QED
      BY <1>0, <3>4, ToldIs
  <2>9. Told(t) => Read(t) \/ t \in leaked \/ CancelOnItsWay(t)'
    <3>1. SUFFICES ASSUME Told(t), ~Read(t), t \notin leaked PROVE Unsubscribe(t) \in ToSet(turn')
      BY DEF CancelOnItsWay
    <3>2. PICK j \in 1 .. Len(slotsTold) : slotsTold[j][2] = t
      BY <1>0, <3>1, ToldIs
    <3>3. PICK q \in 1 .. Len(turn) : turn[q] = Unsubscribe(t) /\ f[j] < q
      BY <3>1, <3>2 DEF TurnInv, ToldInv
    <3>4. f[j] \in 1 .. Len(turn)
      BY <1>0 DEF Pairs
    <3>5. 1 < q
      BY ONLY <2>5, <3>3, <3>4
    <3>6. q - 1 \in 1 .. Len(turn') /\ turn'[q - 1] = Unsubscribe(t)
      BY ONLY <2>6, <3>3, <3>5
    <3> QED
      BY <1>1, <3>6, InSet
  <2> QED
    BY <2>1, <2>2, <2>4, <2>7, <2>8, <2>9
<1>7. MarketInv(g)'
  BY <1>1, <1>2, <1>3, <1>4, <1>5, <1>6, <1>a, UnsubscribeStep
<1> QED
  BY <1>7

LEMMA DirectStep ==
    ASSUME NEW f, MarketInv(f), UnsubscribeDirect
    PROVE  MarketInv(f)'
<1>0. TypeOK /\ ConInv /\ Pairs(f)
  BY DEF MarketInv, EngineInv
<1>a. /\ direct # <<>> /\ direct' = Tail(direct) /\ HandleUnsubscribe(Head(direct))
      /\ UNCHANGED <<client, pass, turn, notes, slotsTold, lookups, lotLookups, defined, losses,
                     history>>
  BY DEF UnsubscribeDirect
<1>1. direct \in Seq(Slots) /\ turn' \in Seq(Commands)
  BY <1>0, <1>a, SeqTypes
<1>2. PICK t \in Slots : t = Head(direct)
  BY <1>1, <1>a, InTail
<1>3. direct' \in Seq(Slots) /\ ToSet(direct) = {t} \cup ToSet(direct')
  BY <1>1, <1>2, <1>a, InTail
<1>4. \A s : s # t => (CancelOnItsWay(s)' <=> CancelOnItsWay(s))
  BY <1>3, <1>a DEF CancelOnItsWay
<1>5. Pairs(f)' /\ UNCHANGED <<at, of, leaked>>
  BY <1>0, <1>a, PairsKept DEF client, history
<1>6. ASSUME PictureInv, TurnInv(f)
      PROVE  /\ TurnInv(f)' /\ DirectInv'
             /\ CancelOnItsWay(t)
             /\ Read(t) => Told(t)
             /\ ~Told(t) => ~CancelOnItsWay(t)'
             /\ Told(t) => Read(t) \/ t \in leaked \/ CancelOnItsWay(t)'
  <2> USE <1>6 DEF PictureInv
  <2>0. \A s : Read(s)' <=> Read(s)
    BY <1>5, SameAt
  <2>1. TurnInv(f)'
    BY <1>0, <1>5, <1>a, <2>0, TurnKept
  <2>2. CancelOnItsWay(t) /\ t \in ToSet(direct) /\ ~Read(t) /\ Unsubscribe(t) \notin ToSet(turn)
    BY <1>3 DEF CancelOnItsWay, DirectInv
  <2>3. PICK n \in Nat : Len(direct) = n + 1
    <3>1. Len(direct) \in Nat \ {0}
      BY <1>1, <1>a, TailAt
    <3>2. Len(direct) - 1 \in Nat /\ Len(direct) = (Len(direct) - 1) + 1
      BY ONLY <3>1
    <3> QED
      BY ONLY <3>2
  <2>4. Len(direct') = n /\ (\A k \in 1 .. n : direct'[k] = direct[k + 1]) /\ direct[1] = t
    BY <1>1, <1>2, <1>a, <2>3, TailAt
  <2>5. /\ \A k \in 1 .. n : k + 1 \in 1 .. n + 1 /\ k + 1 # 1
        /\ \A j, k \in 1 .. n : j + 1 = k + 1 => j = k
        /\ 1 \in 1 .. n + 1
    BY ONLY <2>3
  <2>6. \A p, q \in 1 .. n : direct'[p] = direct'[q] => p = q
    <3>1. SUFFICES ASSUME NEW p \in 1 .. n, NEW q \in 1 .. n, direct'[p] = direct'[q] PROVE p = q
      OBVIOUS
    <3>2. p + 1 \in 1 .. n + 1 /\ q + 1 \in 1 .. n + 1 /\ direct[p + 1] = direct[q + 1]
      BY ONLY <2>4, <2>5, <3>1
    <3>3. p + 1 = q + 1
      BY <2>3, <3>2 DEF DirectInv
    <3> QED
      BY ONLY <2>5, <3>3
  <2>7. DirectInv'
    BY <1>3, <1>a, <2>0, <2>4, <2>6 DEF DirectInv
  <2>8. t \notin ToSet(direct')
    <3>1. SUFFICES ASSUME t \in ToSet(direct') PROVE FALSE
      OBVIOUS
    <3>2. PICK k \in 1 .. n : direct'[k] = t
      BY <1>3, <2>4, <3>1, InSet
    <3>3. k + 1 \in 1 .. n + 1 /\ k + 1 # 1 /\ direct[k + 1] = direct[1] /\ 1 \in 1 .. n + 1
      BY ONLY <2>4, <2>5, <3>2
    <3> QED
      BY <2>3, <3>3 DEF DirectInv
  <2>9. ~CancelOnItsWay(t)'
    BY <1>a, <2>2, <2>8 DEF CancelOnItsWay
  <2>10. Told(t) => t \in leaked
    <3>1. SUFFICES ASSUME Told(t), t \notin leaked PROVE FALSE
      OBVIOUS
    <3>2. PICK j \in 1 .. Len(slotsTold) : slotsTold[j][2] = t
      BY <1>0, <3>1, ToldIs
    <3>3. PICK q \in 1 .. Len(turn) : turn[q] = Unsubscribe(t)
      BY <2>2, <3>1, <3>2 DEF TurnInv, ToldInv
    <3> QED
      BY <1>0, <2>2, <3>3, SeqTypes, InSet
  <2> QED
    BY <2>1, <2>2, <2>7, <2>9, <2>10
<1> QED
  BY <1>1, <1>2, <1>3, <1>4, <1>5, <1>6, <1>a, UnsubscribeStep

-----------------------------------------------------------------------------
(***************************************************************************)
(* A slot is told to a new request.                                        *)
(***************************************************************************)
\* What a free slot is not.
LEMMA FreeSlot ==
    ASSUME TypeOK, ConInv, OnceInv, NEW t \in Slots, con[t] = FREE_SLOT
    PROVE  /\ ~Told(t) /\ ~InLookup(t) /\ ~Busy(t) /\ t \notin lookupCancelled
           /\ \A d : ~ToldFor(d, t)
           /\ \A d \in Contracts : conMap[d] # t
<1>1. ~InLookup(t) /\ ~Busy(t)
  BY Numbers DEF ConInv
<1>2. /\ \A d \in Contracts : ~ToldFor(d, t)
      /\ ~ToldFor(NoContract, t)
  BY Numbers DEF ConInv
<1>3. ~Told(t)
  BY <1>2, ToldIs
<1>4. \A d : ~ToldFor(d, t)
  BY <1>3, ToldIs DEF ToldFor
<1>5. \A d \in Contracts : conMap[d] # t
  BY Numbers DEF ConInv
<1> QED
  BY <1>1, <1>3, <1>4, <1>5 DEF OnceInv

\* The slot a registration takes is free, and then listed no more.
LEMMA SlotTaken ==
    ASSUME TypeOK, FreeInv, NEW t, t = NextSlot, t # NoSlot, TakeSlot(t),
           \A s \in Slots : s # t => con'[s] = con[s]
    PROVE  /\ t \in Slots /\ con[t] = FREE_SLOT
           /\ freeIds' \in Seq(Slots) /\ active' \in 0 .. MAX_INSTRUMENTS
           /\ FreeInv'
<1>0. /\ freeIds \in Seq(Slots) /\ Len(freeIds) \in Nat /\ active \in 0 .. MAX_INSTRUMENTS
      /\ MAX_INSTRUMENTS \in Nat
      /\ \A i \in 1 .. Len(freeIds) : freeIds[i] \in Slots
  BY Numbers DEF TypeOK
<1>1. CASE freeIds # <<>>
  <2>1. /\ t = Last(freeIds) /\ freeIds' = Front(freeIds) /\ active' = active
    BY <1>1 DEF NextSlot, TakeSlot
  <2>2. PICK n \in Nat : Len(freeIds) = n + 1
    <3>1. Len(freeIds) \in Nat \ {0}
      BY <1>0, <1>1, TailAt
    <3>2. Len(freeIds) - 1 \in Nat /\ Len(freeIds) = (Len(freeIds) - 1) + 1
      BY ONLY <3>1
    <3> QED
      BY ONLY <3>2
  <2>3. /\ t = freeIds[n + 1]
        /\ freeIds' \in Seq(Slots) /\ Len(freeIds') = n
        /\ \A k \in 1 .. n : freeIds'[k] = freeIds[k]
    BY <1>0, <2>1, <2>2 DEF Last, Front
  <2>4. /\ \A k \in 1 .. n : k \in 1 .. n + 1 /\ k # n + 1
        /\ n + 1 \in 1 .. n + 1
    BY ONLY <2>2
  <2>5. t \in Slots /\ con[t] = FREE_SLOT /\ t <= active
    BY <1>0, <2>2, <2>3, <2>4 DEF FreeInv
  <2>6. \A k \in 1 .. n : freeIds'[k] \in Slots /\ freeIds'[k] # t
    BY <1>0, <2>2, <2>3, <2>4 DEF FreeInv
  <2>7. \A k \in 1 .. n : con'[freeIds'[k]] = FREE_SLOT /\ freeIds'[k] <= active
    BY <2>2, <2>3, <2>4, <2>6 DEF FreeInv
  <2>8. \A i, j \in 1 .. n : freeIds'[i] = freeIds'[j] => i = j
    BY <2>2, <2>3, <2>4 DEF FreeInv
  <2>9. \A s \in Slots : s > active => con'[s] = FREE_SLOT
    <3>1. ~(t > active)
      BY <1>0, <2>5, Numbers
    <3> QED
      BY <3>1 DEF FreeInv
  <2> QED
    BY <1>0, <2>1, <2>3, <2>5, <2>7, <2>8, <2>9 DEF FreeInv
<1>2. CASE freeIds = <<>>
  <2>1. t = active + 1 /\ active < MAX_INSTRUMENTS /\ active' = t /\ freeIds' = freeIds
    BY <1>2 DEF NextSlot, TakeSlot
  <2>2. t \in Slots /\ t > active /\ active' \in 0 .. MAX_INSTRUMENTS
    BY <1>0, <2>1 DEF Slots
  <2>3. Len(freeIds) = 0 /\ 1 .. Len(freeIds) = {}
    BY <1>2
  <2>4. \A s \in Slots : s > active' => con'[s] = FREE_SLOT
    <3>1. \A s \in Slots : s > active' => s > active /\ s # t
      BY <1>0, <2>1, Numbers
    <3> QED
      BY <3>1 DEF FreeInv
  <2> QED
    BY <1>0, <2>1, <2>2, <2>3, <2>4 DEF FreeInv
<1> QED
  BY <1>1, <1>2

LEMMA SlotsTold ==
    ASSUME TypeOK, NEW x \in Contracts \cup {NoContract}, NEW t \in Slots,
           slotsTold' = Append(slotsTold, <<x, t>>)
    PROVE  /\ slotsTold' \in Seq(ToldTypes)
           /\ \A s : Told(s)' <=> Told(s) \/ s = t
           /\ \A d, s : ToldFor(d, s)' <=> ToldFor(d, s) \/ (d = x /\ s = t)
           /\ OnceInv /\ ~ToldFor(NoContract, t) /\ (x = NoContract => ~Told(t)) =>
                \A i, j \in 1 .. Len(slotsTold') :
                  slotsTold'[i][1] = NoContract /\ slotsTold'[j][2] = slotsTold'[i][2] => i = j
<1>1. slotsTold \in Seq(ToldTypes)
  BY SeqTypes
<1>2. PICK e \in ToldTypes : e = <<x, t>> /\ e[1] = x /\ e[2] = t
  <2>1. <<x, t>> \in ToldTypes /\ <<x, t>>[1] = x /\ <<x, t>>[2] = t
    BY DEF ToldTypes
  <2> QED
    BY <2>1
<1>3. PICK m \in Nat : m = Len(slotsTold)
  BY <1>1
<1>4. /\ slotsTold' \in Seq(ToldTypes) /\ Len(slotsTold') = m + 1
      /\ \A k \in 1 .. m : slotsTold'[k] = slotsTold[k]
      /\ slotsTold'[m + 1] = e
  BY <1>1, <1>2, <1>3, AppendAt
<1>5. /\ \A k \in 1 .. m + 1 : k \in 1 .. m \/ k = m + 1
      /\ \A k \in 1 .. m : k \in 1 .. m + 1
      /\ m + 1 \in 1 .. m + 1
  BY ONLY <1>3
<1>6. /\ \A s : Told(s) <=> \E j \in 1 .. m : slotsTold[j][2] = s
      /\ \A s : Told(s)' <=> \E j \in 1 .. m + 1 : slotsTold'[j][2] = s
      /\ \A d, s : ToldFor(d, s) <=> \E j \in 1 .. m : slotsTold[j][1] = d /\ slotsTold[j][2] = s
      /\ \A d, s : ToldFor(d, s)' <=> \E j \in 1 .. m + 1 : slotsTold'[j][1] = d /\ slotsTold'[j][2] = s
  <2>1. DOMAIN slotsTold = 1 .. m /\ DOMAIN slotsTold' = 1 .. m + 1
    BY ONLY <1>1, <1>3, <1>4
  <2> QED
    BY ONLY <1>3, <1>4, <2>1 DEF Told, ToldFor
<1>7. \A s : Told(s)' <=> Told(s) \/ s = t
  BY ONLY <1>2, <1>4, <1>5, <1>6
<1>8. \A d, s : ToldFor(d, s)' <=> ToldFor(d, s) \/ (d = x /\ s = t)
  BY ONLY <1>2, <1>4, <1>5, <1>6
<1>9. ASSUME OnceInv, ~ToldFor(NoContract, t), x = NoContract => ~Told(t),
             NEW i \in 1 .. m + 1, NEW j \in 1 .. m + 1,
             slotsTold'[i][1] = NoContract, slotsTold'[j][2] = slotsTold'[i][2]
      PROVE  i = j
  <2>1. CASE i \in 1 .. m /\ j \in 1 .. m
    BY <1>3, <1>4, <1>9, <2>1 DEF OnceInv
  <2>2. CASE i \in 1 .. m /\ j = m + 1
    BY ONLY <1>2, <1>4, <1>6, <1>9, <2>2
  <2>3. CASE i = m + 1 /\ j \in 1 .. m
    BY ONLY <1>2, <1>4, <1>6, <1>9, <2>3
  <2> QED
    BY ONLY <1>5, <1>9, <2>1, <2>2, <2>3
<1> QED
  BY <1>4, <1>7, <1>8, <1>9

\* A request takes its slot, for its contract (x = c) or for a symbol.
Tells(r, c, t, x, e) ==
    /\ pc = "idle" /\ Unused(r) /\ direct = <<>> /\ Attach(r, c, t) /\ e.con = c
    /\ \/ e.kind = "subscribe" /\ x = c
       \/ e.kind = "bySymbol" /\ x = NoContract
    /\ turn' = Append(turn, e) /\ slotsTold' = Append(slotsTold, <<x, t>>)
    /\ merges' \in Seq(Merges) /\ \A y : MergeFrom(y)' <=> MergeFrom(y)
    /\ \A y, s : FreshMerge(y, s)' => FreshMerge(y, s) /\ (y # t \/ con[t] = FREE_SLOT)
    /\ conSlot' \in [Contracts -> Slots \cup {NoSlot}]
    /\ \A d \in Contracts : conSlot'[d] = conSlot[d] \/ (d = c /\ x = c /\ conSlot'[d] = t)
    /\ con' \in [Slots -> Contracts \cup {Unresolved, FREE_SLOT}]
    /\ \A s \in Slots : s # t => con'[s] = con[s]
    /\ con'[t] = IF x = NoContract THEN Unresolved ELSE c
    /\ con[t] = FREE_SLOT \/ (x = c /\ con[t] = c)
    /\ conMap' \in [Contracts -> Slots \cup {NoSlot}]
    /\ \A d \in Contracts : conMap'[d] = conMap[d] \/ (d = c /\ x = c /\ conMap'[d] = t)
    /\ freeIds' \in Seq(Slots) /\ active' \in 0 .. MAX_INSTRUMENTS /\ FreeInv'
    /\ UNCHANGED <<pass, direct, rejects, lookups, lookupCancelled, parked, lotLookups, defined,
                   farm, history>>

LEMMA TellStep ==
    ASSUME NEW f, MarketInv(f), NEW r \in Reqs, NEW c \in Contracts, NEW t \in Slots,
           NEW x \in Contracts \cup {NoContract}, NEW e \in Commands, Tells(r, c, t, x, e)
    PROVE  \E g : MarketInv(g)'
<1> USE DEF Tells
<1>0. TypeOK /\ FreeInv /\ ConInv /\ OnceInv /\ ReqInv /\ Pairs(f)
  BY DEF MarketInv, EngineInv
<1>1. /\ phase' = [phase EXCEPT ![r] = "open"] /\ of' = [of EXCEPT ![r] = c]
      /\ at' = [at EXCEPT ![r] = t] /\ at[r] = NoSlot
  BY <1>0 DEF Attach, Unused, ReqInv
<1>2. UNCHANGED <<pc, follow, direct, rejects, lookups, lookupCancelled, parked, lotLookups, defined,
                  running, unrouted, confirmed, losses, misread, leaked>>
  BY DEF pass, farm, history
<1>3. /\ phase' \in [Reqs -> {"none", "open", "ended"}]
      /\ of' \in [Reqs -> Contracts \cup {NoContract}] /\ at' \in [Reqs -> Slots \cup {NoSlot}]
      /\ of'[r] = c /\ at'[r] = t /\ phase'[r] = "open"
      /\ \A q \in Reqs : q # r => of'[q] = of[q] /\ at'[q] = at[q] /\ phase'[q] = phase[q]
  BY <1>0, <1>1 DEF TypeOK
<1>4. \A s \in Slots : Read(s)' <=> Read(s) \/ s = t
  BY <1>1, <1>3, Numbers DEF Read
<1>5. /\ turn \in Seq(Commands) /\ turn' \in Seq(Commands)
      /\ ToSet(turn') = ToSet(turn) \cup {e}
  BY <1>0, SeqTypes, InAppend
<1>6. /\ \A s : Unsubscribe(s) \in ToSet(turn') <=> Unsubscribe(s) \in ToSet(turn)
      /\ \A s : CancelOnItsWay(s)' <=> CancelOnItsWay(s)
  <2>1. \A s : Unsubscribe(s) # e
    BY CommandsAre
  <2> QED
    BY <1>2, <1>5, <2>1 DEF CancelOnItsWay
<1>7. x = NoContract <=> x # c
  BY Numbers
<1>8. /\ ~InLookup(t) /\ t \notin lookupCancelled /\ ~ToldFor(NoContract, t)
      /\ x = NoContract => ~Told(t)
  <2>1. CASE con[t] = FREE_SLOT
    BY <1>0, <2>1, FreeSlot
  <2>2. CASE x = c /\ con[t] = c
    BY <1>0, <1>7, <2>2, Numbers DEF ConInv, OnceInv
  <2> QED
    BY <2>1, <2>2
<1>9. /\ slotsTold' \in Seq(ToldTypes)
      /\ \A s : Told(s)' <=> Told(s) \/ s = t
      /\ \A d, s : ToldFor(d, s)' <=> ToldFor(d, s) \/ (d = x /\ s = t)
      /\ \A i, j \in 1 .. Len(slotsTold') :
           slotsTold'[i][1] = NoContract /\ slotsTold'[j][2] = slotsTold'[i][2] => i = j
  BY <1>0, <1>8, SlotsTold
<1>10. /\ \A s : Busy(s)' <=> Busy(s)
       /\ \A s : InLookup(s)' <=> InLookup(s)
       /\ \A s : Holds(s)' <=> Holds(s)
       /\ \A s : /\ Refused(s)' <=> Refused(s)
                 /\ FreshRefused(s)' <=> FreshRefused(s)
                 /\ CancelNoted(s)' <=> CancelNoted(s)
  BY <1>2, SameFarm, SameLookups, Joins, SameRejects
<1>11. TypeOK' /\ ConInv' /\ OnceInv' /\ ReqInv'
  <2>1. TypeOK'
    BY <1>0, <1>2, <1>3, <1>5, <1>9 DEF TypeOK, Commands, ToldTypes, Merges
  <2>2. ConInv'
    <3>1. \A d \in Contracts, s \in Slots : ToldFor(d, s)' => con'[s] = d
      <4>1. SUFFICES ASSUME NEW d \in Contracts, NEW s \in Slots, ToldFor(d, s)' PROVE con'[s] = d
        OBVIOUS
      <4>2. CASE d = x /\ s = t
        BY <1>7, <4>2, Numbers
      <4>3. CASE ToldFor(d, s) /\ s # t
        BY <1>0, <4>3 DEF ConInv
      <4>4. CASE ToldFor(d, s) /\ s = t
        <5>1. con[t] # FREE_SLOT
          BY <1>0, <4>4, FreeSlot
        <5>2. con[t] = d
          BY <1>0, <4>4 DEF ConInv
        <5> QED
          BY <1>7, <4>4, <5>1, <5>2
      <4> QED
        BY <1>9, <4>1, <4>2, <4>3, <4>4
    <3>2. \A s \in Slots : ToldFor(NoContract, s)' => con'[s] = Unresolved /\ ~InLookup(s)'
      <4>1. SUFFICES ASSUME NEW s \in Slots, ToldFor(NoContract, s)'
                     PROVE  con'[s] = Unresolved /\ ~InLookup(s)'
        OBVIOUS
      <4>2. CASE s = t
        BY <1>7, <1>8, <1>9, <1>10, <4>1, <4>2
      <4>3. CASE s # t
        BY <1>0, <1>9, <1>10, <4>1, <4>3 DEF ConInv
      <4> QED
        BY <4>2, <4>3
    <3>3. \A s \in Slots : InLookup(s)' => con'[s] = Unresolved
      BY <1>0, <1>8, <1>10 DEF ConInv
    <3>4. \A s \in Slots : Busy(s)' => con'[s] \in Contracts
      <4>1. con[t] = FREE_SLOT => ~Busy(t)
        BY <1>0, FreeSlot
      <4> QED
        BY <1>0, <1>7, <1>10, <4>1 DEF ConInv
    <3>5. \A d \in Contracts : conMap'[d] # NoSlot => con'[conMap'[d]] = d
      <4>1. SUFFICES ASSUME NEW d \in Contracts, conMap'[d] # NoSlot PROVE con'[conMap'[d]] = d
        OBVIOUS
      <4>2. CASE d = c /\ x = c /\ conMap'[d] = t
        BY <1>7, <4>2
      <4>3. CASE conMap'[d] = conMap[d]
        <5>1. conMap[d] \in Slots /\ con[conMap[d]] = d
          BY <1>0, <4>1, <4>3 DEF ConInv, TypeOK
        <5>2. conMap[d] = t => con'[t] = con[t]
          BY <1>0, <1>7, <5>1, Numbers
        <5> QED
          BY <4>3, <5>1, <5>2
      <4> QED
        BY <4>2, <4>3
    <3> QED
      BY <3>1, <3>2, <3>3, <3>4, <3>5 DEF ConInv
  <2>3. OnceInv'
    BY <1>0, <1>2, <1>9, <1>10 DEF OnceInv
  <2>4. ReqInv'
    BY <1>0, <1>3 DEF ReqInv
  <2> QED
    BY <2>1, <2>2, <2>3, <2>4
<1>12. PICK g : /\ Pairs(g)'
                /\ \A p \in Reqs :
                     /\ TurnInv(f) /\ UNCHANGED leaked
                     /\ ~ToldFor(NoContract, t) /\ (x = NoContract => ~Read(t))
                     /\ \A s \in Slots : Read(s)' <=> Read(s) \/ s = t
                     /\ \A q \in Reqs : q # p => at'[q] = at[q] /\ of'[q] = of[q]
                     /\ of'[p] = c /\ at'[p] = t
                     => TurnInv(g)'
  <2>1. /\ t \in Slots /\ x \in Contracts \cup {NoContract} /\ c \in Contracts /\ e \in Commands
        /\ turn' = Append(turn, e) /\ slotsTold' = Append(slotsTold, <<x, t>>) /\ e.con = c
        /\ \/ e.kind = "subscribe" /\ x = c
           \/ e.kind = "bySymbol" /\ x = NoContract
    OBVIOUS
  <2> QED
    BY ONLY <1>0, <2>1, TurnTold
<1>13. ASSUME PictureInv, TurnInv(f)
       PROVE  PictureInv' /\ TurnInv(g)'
  <2> USE <1>13 DEF PictureInv
  <2>a. /\ \A d \in Contracts : conSlot[d] # NoSlot => conSlot[d] \in Slots
        /\ \A q \in Reqs : at[q] # NoSlot => at[q] \in Slots
        /\ follow = {} /\ lookupCancelled \subseteq Slots
        /\ \A l \in lookups : l.slot \in Slots /\ l.slot # t
    BY <1>0, <1>8 DEF TypeOK, FollowInv, InLookup
  <2>b. /\ con[t] = FREE_SLOT => ~Read(t)
        /\ \A s \in Slots : Read(s) => con'[s] = con[s]
    <3>1. con[t] = FREE_SLOT => ~Read(t)
      <4>1. SUFFICES ASSUME NEW q \in Reqs, at[q] = t PROVE con[t] # FREE_SLOT
        BY DEF Read
      <4>2. con[t] \in {Unresolved, of[q]} /\ of[q] \in Contracts
        BY <1>0, <4>1, Numbers DEF ReadsInv, ReqInv
      <4> QED
        BY ONLY <4>2, Numbers
    <3> QED
      BY <1>7, <3>1
  <2>c. x = NoContract => ~Read(t)
    BY <1>7, <2>b
  <2>1. StreamsInv'
    <3>1. SUFFICES ASSUME NEW d \in Contracts, conSlot'[d] # NoSlot
                   PROVE  con'[conSlot'[d]] = d /\ (\E q \in Reqs : at'[q] = conSlot'[d])
      BY DEF StreamsInv, Read
    <3>2. CASE d = c /\ x = c /\ conSlot'[d] = t
      BY <1>3, <1>7, <3>2
    <3>3. CASE conSlot'[d] = conSlot[d]
      <4>1. PICK s \in Slots : s = conSlot[d] /\ con[s] = d /\ Read(s)
        BY <2>a, <3>1, <3>3 DEF StreamsInv
      <4>2. con'[s] = d /\ Read(s)'
        BY <1>4, <2>b, <4>1
      <4> QED
        BY <3>3, <4>1, <4>2 DEF Read
    <3> QED
      BY <3>2, <3>3
  <2>2. ReadsInv'
    <3>1. \A q \in Reqs : at'[q] # NoSlot => con'[at'[q]] \in {Unresolved, of'[q]}
      <4>1. SUFFICES ASSUME NEW q \in Reqs, at'[q] # NoSlot PROVE con'[at'[q]] \in {Unresolved, of'[q]}
        OBVIOUS
      <4>2. CASE q = r
        BY <1>3, <4>2
      <4>3. CASE q # r
        <5>1. Read(at[q]) /\ at[q] \in Slots /\ at'[q] = at[q] /\ of'[q] = of[q]
          BY <1>3, <2>a, <4>1, <4>3 DEF Read
        <5> QED
          BY <2>b, <4>1, <5>1 DEF ReadsInv
      <4> QED
        BY <4>2, <4>3
    <3>2. \A l \in lookups', q \in Reqs : at'[q] = l.slot => of'[q] = l.con
      <4>1. \A l \in lookups, q \in Reqs : at[q] = l.slot => of[q] = l.con
        BY DEF ReadsInv
      <4> QED
        BY ONLY <1>2, <1>3, <2>a, <4>1
    <3> QED
      BY <3>1, <3>2 DEF ReadsInv
  <2>3. MergeInv'
    <3>1. SUFFICES ASSUME NEW y \in Slots, NEW s \in Slots, FreshMerge(y, s)'
                   PROVE  MergeIdle(y)' /\ MergeInto(y, s)'
      BY DEF MergeInv
    <3>2. MergeIdle(y) /\ MergeInto(y, s) /\ FreshMerge(y, s)
      BY <3>1 DEF MergeInv
    <3>3. y # t /\ con[s] \in Contracts /\ con[y] \in Contracts
      BY <3>1, <3>2, Numbers DEF MergeIdle, MergeInto
    <3>4. con'[y] = con[y] /\ con'[s] = con[s]
      BY <1>7, <3>3, Numbers
    <3>5. \A d \in Contracts : conSlot'[d] # y
      BY <3>2, <3>3 DEF MergeIdle
    <3>6. MergeIdle(y)'
      BY <1>2, <1>6, <1>9, <1>10, <3>2, <3>3, <3>4, <3>5 DEF MergeIdle
    <3>7. MergeInto(y, s)'
      BY <1>2, <1>6, <1>10, <3>2, <3>4 DEF MergeInto
    <3> QED
      BY <3>6, <3>7
  <2>4. DirectInv'
    <3>1. Len(direct) = 0 /\ ToSet(direct) = {}
      BY DEF ToSet
    <3> QED
      BY <1>2, <3>1 DEF DirectInv
  <2>5. FollowInv'
    BY <1>2, <2>a DEF FollowInv
  <2>6. CancelledInv'
    <3>1. ~CancelNoted(t)
      BY <1>7, Numbers DEF CancelledInv
    <3>2. \A s \in lookupCancelled : ~Read(s)' /\ ~CancelOnItsWay(s)'
      BY <1>4, <1>6, <1>8, <2>a DEF CancelledInv
    <3>3. \A s \in Slots : CancelNoted(s)' =>
            con'[s] = Unresolved /\ ~Read(s)' /\ ~InLookup(s)' /\ ~Told(s)' /\ ~CancelOnItsWay(s)'
      BY <1>4, <1>6, <1>9, <1>10, <3>1 DEF CancelledInv
    <3>4. \A s \in Slots : FreshRefused(s)' => ~CancelOnItsWay(s)'
      BY <1>6, <1>10 DEF CancelledInv
    <3> QED
      BY <1>2, <3>2, <3>3, <3>4 DEF CancelledInv
  <2>7. WaitInv'
    BY <1>4, <1>9, <1>10 DEF WaitInv
  <2>8. OwedInv'
    <3>1. SUFFICES ASSUME NEW s \in Slots, con'[s] # FREE_SLOT PROVE Owed(s)'
      BY DEF OwedInv
    <3>2. CASE s = t
      BY <1>4, <3>2 DEF Owed
    <3>3. CASE s # t
      BY <1>2, <1>4, <1>6, <1>10, <3>1, <3>3 DEF OwedInv, Owed
    <3> QED
      BY <3>2, <3>3
  <2>9. TurnInv(g)'
    BY <1>2, <1>3, <1>4, <1>8, <1>12, <2>c
  <2> QED
    BY <2>1, <2>2, <2>3, <2>4, <2>5, <2>6, <2>7, <2>8, <2>9
<1>14. MarketInv(g)'
  BY <1>2, <1>11, <1>12, <1>13 DEF MarketInv, EngineInv
<1> QED
  BY <1>14

LEMMA BySymbolStep ==
    ASSUME NEW f, MarketInv(f), NEW r \in Reqs, NEW c \in Contracts, ReqMktDataBySymbol(r, c)
    PROVE  \E g : MarketInv(g)'
<1>0. TypeOK /\ FreeInv /\ ConInv /\ OnceInv
  BY DEF MarketInv, EngineInv
<1>1. /\ pc = "idle" /\ Unused(r) /\ direct = <<>>
      /\ UNCHANGED <<pass, direct, notes, lookups, lookupCancelled, parked, lotLookups, defined, farm,
                     history>>
  BY DEF ReqMktDataBySymbol
<1>2. CASE TableFull(r, c)
  <2>1. MarketInv(f)'
    BY <1>1, <1>2, FullStep
  <2> QED
    BY <2>1
<1>3. ASSUME NEW t \in Slots, TellUnresolved(t), Attach(r, c, t),
             turn' = Append(turn, SubscribeBySymbol(c)), UNCHANGED conSlot
      PROVE  \E g : MarketInv(g)'
  <2>1. /\ t = NextSlot /\ t # NoSlot /\ TakeSlot(t)
        /\ con' = [con EXCEPT ![t] = Unresolved]
        /\ slotsTold' = Append(slotsTold, <<NoContract, t>>) /\ conMap' = conMap
    BY <1>3 DEF TellUnresolved
  <2>2. /\ con' \in [Slots -> Contracts \cup {Unresolved, FREE_SLOT}]
        /\ con'[t] = Unresolved
        /\ \A s \in Slots : s # t => con'[s] = con[s]
    BY <1>0, <2>1 DEF TypeOK
  <2>3. /\ con[t] = FREE_SLOT /\ freeIds' \in Seq(Slots) /\ active' \in 0 .. MAX_INSTRUMENTS
        /\ FreeInv'
    BY <1>0, <2>1, <2>2, SlotTaken
  <2>4. PICK e \in Commands : e = SubscribeBySymbol(c) /\ e.kind = "bySymbol" /\ e.con = c
    BY CommandsAre
  <2>5. /\ merges' \in Seq(Merges)
        /\ \A y, s : (FreshMerge(y, s)' <=> FreshMerge(y, s)) /\ (MergeFrom(y)' <=> MergeFrom(y))
    BY <1>0, <1>1, SameMerges DEF TypeOK, Merges, notes
  <2>6. /\ conMap' \in [Contracts -> Slots \cup {NoSlot}]
        /\ conSlot' \in [Contracts -> Slots \cup {NoSlot}]
    BY <1>0, <1>3, <2>1 DEF TypeOK
  <2>7. NoContract \in Contracts \cup {NoContract} /\ turn' = Append(turn, e) /\ rejects' = rejects
    BY <1>1, <1>3, <2>4 DEF notes
  <2>8. PICK x \in Contracts \cup {NoContract} : x = NoContract
    BY <2>7
  <2>9. /\ e.con = c
        /\ \/ e.kind = "subscribe" /\ x = c
           \/ e.kind = "bySymbol" /\ x = NoContract
        /\ turn' = Append(turn, e) /\ slotsTold' = Append(slotsTold, <<x, t>>)
    BY <2>1, <2>4, <2>7, <2>8
  <2>10. /\ \A y : MergeFrom(y)' <=> MergeFrom(y)
         /\ \A y, s : FreshMerge(y, s)' => FreshMerge(y, s) /\ (y # t \/ con[t] = FREE_SLOT)
    BY <2>3, <2>5
  <2>11. /\ \A d \in Contracts : conSlot'[d] = conSlot[d] \/ (d = c /\ x = c /\ conSlot'[d] = t)
         /\ \A d \in Contracts : conMap'[d] = conMap[d] \/ (d = c /\ x = c /\ conMap'[d] = t)
         /\ con'[t] = IF x = NoContract THEN Unresolved ELSE c
         /\ con[t] = FREE_SLOT \/ (x = c /\ con[t] = c)
    BY <1>3, <2>1, <2>2, <2>3, <2>8
  <2>12. UNCHANGED <<pass, direct, rejects, lookups, lookupCancelled, parked, lotLookups, defined,
                     farm, history>>
    BY <1>1, <2>7
  <2>13. MarketInv(f) /\ r \in Reqs /\ c \in Contracts /\ t \in Slots
    OBVIOUS
  <2>14. Tells(r, c, t, x, e)
    BY ONLY <1>1, <1>3, <2>2, <2>3, <2>5, <2>6, <2>9, <2>10, <2>11, <2>12 DEF Tells
  <2> QED
    BY ONLY <2>13, <2>14, TellStep
<1> QED
  BY <1>2, <1>3 DEF ReqMktDataBySymbol

LEMMA TellSlotEffect ==
    ASSUME TypeOK, FreeInv, ConInv, OnceInv, NEW c \in Contracts, NEW t \in Slots, TellSlot(c, t)
    PROVE  /\ slotsTold' = Append(slotsTold, <<c, t>>)
           /\ con' \in [Slots -> Contracts \cup {Unresolved, FREE_SLOT}]
           /\ \A s \in Slots : s # t => con'[s] = con[s]
           /\ con'[t] = c
           /\ con[t] = FREE_SLOT \/ con[t] = c
           /\ conMap' \in [Contracts -> Slots \cup {NoSlot}]
           /\ \A d \in Contracts : conMap'[d] = conMap[d] \/ (d = c /\ conMap'[d] = t)
           /\ freeIds' \in Seq(Slots) /\ active' \in 0 .. MAX_INSTRUMENTS /\ FreeInv'
<1>1. PICK joined : joined = IF conMap[c] # NoSlot /\ JoinsTop(conMap[c]) THEN NoSlot
                             ELSE RunningTopSlot(c, conMap[c])
  OBVIOUS
<1>2. /\ slotsTold' = Append(slotsTold, <<c, t>>)
      /\ \/ joined # NoSlot /\ t = joined /\ UNCHANGED table
         \/ conMap[c] # NoSlot /\ t = conMap[c] /\ UNCHANGED table
         \/ /\ t = NextSlot /\ t # NoSlot /\ TakeSlot(t)
            /\ con' = [con EXCEPT ![t] = c] /\ conMap' = [conMap EXCEPT ![c] = t]
  BY <1>1 DEF TellSlot
<1>3. CASE UNCHANGED table /\ con[t] = c
  <2>1. UNCHANGED <<con, conMap, freeIds, active>>
    BY <1>3 DEF table
  <2>2. FreeInv'
    BY <2>1 DEF FreeInv
  <2> QED
    BY <1>2, <1>3, <2>1, <2>2 DEF TypeOK
<1>4. CASE /\ t = NextSlot /\ t # NoSlot /\ TakeSlot(t)
           /\ con' = [con EXCEPT ![t] = c] /\ conMap' = [conMap EXCEPT ![c] = t]
  <2>1. /\ con' \in [Slots -> Contracts \cup {Unresolved, FREE_SLOT}]
        /\ con'[t] = c
        /\ \A s \in Slots : s # t => con'[s] = con[s]
        /\ conMap' \in [Contracts -> Slots \cup {NoSlot}]
        /\ \A d \in Contracts : conMap'[d] = conMap[d] \/ (d = c /\ conMap'[d] = t)
    BY <1>4 DEF TypeOK
  <2>2. /\ con[t] = FREE_SLOT /\ freeIds' \in Seq(Slots) /\ active' \in 0 .. MAX_INSTRUMENTS
        /\ FreeInv'
    BY <1>4, <2>1, SlotTaken
  <2> QED
    BY <1>2, <2>1, <2>2
<1>5. CASE joined # NoSlot /\ t = joined /\ UNCHANGED table
  <2>1. t = RunningTopSlot(c, conMap[c]) /\ t # NoSlot
    BY <1>1, <1>5
  <2>2. con[t] = c
    BY <2>1, TopSlot
  <2> QED
    BY <1>3, <1>5, <2>2
<1>6. CASE conMap[c] # NoSlot /\ t = conMap[c] /\ UNCHANGED table
  BY <1>3, <1>6 DEF ConInv
<1> QED
  BY <1>2, <1>4, <1>5, <1>6

LEMMA ByContractStep ==
    ASSUME NEW f, MarketInv(f), NEW r \in Reqs, NEW c \in Contracts, ReqMktData(r, c)
    PROVE  \E g : MarketInv(g)'
<1>0. TypeOK /\ FreeInv /\ ConInv /\ OnceInv
  BY DEF MarketInv, EngineInv
<1>1. /\ pc = "idle" /\ Unused(r)
      /\ UNCHANGED <<pass, direct, rejects, lookups, lookupCancelled, parked, lotLookups, defined, farm,
                     history>>
  BY DEF ReqMktData
<1>2. \/ /\ conSlot[c] # NoSlot /\ Requests(conSlot[c]) # {}
         /\ Attach(r, c, conSlot[c]) /\ UNCHANGED <<conSlot, table, slotsTold, turn, merges>>
      \/ TableFull(r, c) /\ UNCHANGED merges
      \/ /\ direct = <<>>
         /\ \E t \in Slots :
              /\ TellSlot(c, t) /\ Attach(r, c, t)
              /\ conSlot' = [conSlot EXCEPT ![c] = t]
              /\ turn' = Append(turn, Subscribe(c)) /\ ToldAnew(t)
  BY DEF ReqMktData
<1>3. CASE /\ conSlot[c] # NoSlot /\ Requests(conSlot[c]) # {}
           /\ Attach(r, c, conSlot[c]) /\ UNCHANGED <<conSlot, table, slotsTold, turn, merges>>
  <2>1. UNCHANGED <<conSlot, pass, queues, notes, table, waits, farm, history>>
    BY <1>1, <1>3 DEF queues, notes, waits
  <2>2. MarketInv(f)'
    BY <1>1, <1>3, <2>1, JoinStep
  <2> QED
    BY <2>2
<1>4. CASE TableFull(r, c) /\ UNCHANGED merges
  <2>1. UNCHANGED notes
    BY <1>1, <1>4 DEF notes
  <2>2. MarketInv(f)'
    BY <1>1, <1>4, <2>1, FullStep
  <2> QED
    BY <2>2
<1>5. ASSUME direct = <<>>, NEW t \in Slots, TellSlot(c, t), Attach(r, c, t),
             conSlot' = [conSlot EXCEPT ![c] = t],
             turn' = Append(turn, Subscribe(c)), ToldAnew(t)
      PROVE  \E g : MarketInv(g)'
  <2>1. /\ slotsTold' = Append(slotsTold, <<c, t>>)
        /\ con' \in [Slots -> Contracts \cup {Unresolved, FREE_SLOT}]
        /\ \A s \in Slots : s # t => con'[s] = con[s]
        /\ con'[t] = c
        /\ con[t] = FREE_SLOT \/ con[t] = c
        /\ conMap' \in [Contracts -> Slots \cup {NoSlot}]
        /\ \A d \in Contracts : conMap'[d] = conMap[d] \/ (d = c /\ conMap'[d] = t)
        /\ freeIds' \in Seq(Slots) /\ active' \in 0 .. MAX_INSTRUMENTS /\ FreeInv'
    BY <1>0, <1>5, TellSlotEffect
  <2>2. PICK e \in Commands : e = Subscribe(c) /\ e.kind = "subscribe" /\ e.con = c
    BY CommandsAre
  <2>3. /\ merges' \in Seq(Merges)
        /\ \A y, s : FreshMerge(y, s)' <=> FreshMerge(y, s) /\ y # t
        /\ \A y : MergeFrom(y)' <=> MergeFrom(y)
    BY <1>0, <1>5, MergesToldAnew
  <2>4. /\ conSlot' \in [Contracts -> Slots \cup {NoSlot}]
        /\ \A d \in Contracts : conSlot'[d] = conSlot[d] \/ (d = c /\ conSlot'[d] = t)
    BY <1>0, <1>5 DEF TypeOK
  <2>5. c \in Contracts \cup {NoContract} /\ c # NoContract /\ turn' = Append(turn, e)
    BY <1>5, <2>2, Numbers
  <2>6. PICK x \in Contracts \cup {NoContract} : x = c /\ x # NoContract
    BY <2>5
  <2>7. /\ e.con = c
        /\ \/ e.kind = "subscribe" /\ x = c
           \/ e.kind = "bySymbol" /\ x = NoContract
        /\ turn' = Append(turn, e) /\ slotsTold' = Append(slotsTold, <<x, t>>)
    BY <2>1, <2>2, <2>5, <2>6
  <2>8. /\ \A y : MergeFrom(y)' <=> MergeFrom(y)
        /\ \A y, s : FreshMerge(y, s)' => FreshMerge(y, s) /\ (y # t \/ con[t] = FREE_SLOT)
    BY <2>3
  <2>9. /\ \A d \in Contracts : conSlot'[d] = conSlot[d] \/ (d = c /\ x = c /\ conSlot'[d] = t)
        /\ \A d \in Contracts : conMap'[d] = conMap[d] \/ (d = c /\ x = c /\ conMap'[d] = t)
        /\ con'[t] = IF x = NoContract THEN Unresolved ELSE c
        /\ con[t] = FREE_SLOT \/ (x = c /\ con[t] = c)
    BY <2>1, <2>4, <2>6
  <2>10. MarketInv(f) /\ r \in Reqs /\ c \in Contracts /\ t \in Slots
    OBVIOUS
  <2>11. Tells(r, c, t, x, e)
    BY ONLY <1>1, <1>5, <2>1, <2>3, <2>4, <2>7, <2>8, <2>9 DEF Tells
  <2> QED
    BY ONLY <2>10, <2>11, TellStep
<1> QED
  BY <1>2, <1>3, <1>4, <1>5

-----------------------------------------------------------------------------
(***************************************************************************)
(* take_md_rejects: the merges.                                            *)
(***************************************************************************)
LEMMA TakeMergesEffect ==
    ASSUME TypeOK, TakeMerges
    PROVE  /\ TypeOK' /\ pc = "idle" /\ pc' = "rejects"
           /\ \A x, s : ~FreshMerge(x, s)' /\ ~MergeFrom(x)'
           /\ \A r \in Reqs : ~MergeFrom(at[r]) => at'[r] = at[r]
           /\ \A r \in Reqs : MergeFrom(at[r]) => at[r] \in Slots /\ at'[r] \in Slots
           /\ ~misread' => /\ ~misread
                           /\ \A r \in Reqs : MergeFrom(at[r]) => FreshMerge(at[r], at'[r])
           /\ \A s : s \in follow' <=> \E r \in Reqs : at[r] = s /\ MergeFrom(s)
           /\ UNCHANGED <<phase, of, conSlot, queues, rejects, table, waits, farm, leaked>>
<1> DEFINE Moved(r) == {i \in DOMAIN merges : at[r] = merges[i].from}
           moving   == {r \in Reqs : Moved(r) # {}}
           Merge(r) == merges[CHOOSE i \in Moved(r) : \A j \in Moved(r) : i <= j]
<1>1. /\ pc = "idle" /\ pc' = "rejects" /\ merges' = <<>>
      /\ at' = [r \in Reqs |-> IF r \in moving THEN Merge(r).into ELSE at[r]]
      /\ follow' = {at[r] : r \in moving}
      /\ misread' = (misread \/ \E r \in moving : Merge(r).stale)
      /\ UNCHANGED <<phase, of, conSlot, queues, rejects, table, waits, farm, leaked>>
  BY DEF TakeMerges
<1>2. /\ merges \in Seq(Merges) /\ Len(merges) \in Nat /\ DOMAIN merges = 1 .. Len(merges)
      /\ \A i \in 1 .. Len(merges) : merges[i] \in Merges
  <2>1. merges \in Seq(Merges)
    BY DEF TypeOK, Merges
  <2> QED
    BY ONLY <2>1
<1>3. \A r \in Reqs : Moved(r) # {} <=> MergeFrom(at[r])
  BY <1>2 DEF MergeFrom
<1>4. ASSUME NEW r \in Reqs, MergeFrom(at[r])
      PROVE  \E i \in 1 .. Len(merges) : Merge(r) = merges[i] /\ merges[i].from = at[r]
  <2>1. PICK M : M = Moved(r)
    OBVIOUS
  <2>2. M # {} /\ M \subseteq 1 .. Len(merges) /\ \A i \in M : merges[i].from = at[r]
    BY <1>2, <1>3, <1>4, <2>1
  <2>3. M \in SUBSET Nat /\ IsFiniteSet(M)
    <3>1. IsFiniteSet(1 .. Len(merges))
      BY <1>2, FS_Interval
    <3>2. M \in SUBSET (1 .. Len(merges)) /\ M \in SUBSET Nat
      BY ONLY <1>2, <2>2
    <3>3. IsFiniteSet(M)
      BY ONLY <3>1, <3>2, FS_Subset
    <3> QED
      BY <3>2, <3>3
  <2>4. \E i \in M : \A j \in M : i <= j
    BY <2>2, <2>3, Least
  <2>5. PICK k : k = CHOOSE i \in M : \A j \in M : i <= j
    OBVIOUS
  <2>6. k \in M
    BY ONLY <2>4, <2>5
  <2>7. Merge(r) = merges[k]
    BY <2>1, <2>5
  <2> QED
    BY <2>2, <2>6, <2>7
<1> HIDE DEF Merge
<1>5. \A r \in Reqs : r \in moving <=> MergeFrom(at[r])
  BY <1>3
<1> HIDE DEF moving
<1>6. \A r \in Reqs : at'[r] = IF r \in moving THEN Merge(r).into ELSE at[r]
  BY <1>1
<1>7. \A m \in Merges : m.from \in Slots /\ m.into \in Slots /\ m.stale \in BOOLEAN
  BY DEF Merges
<1>8. \A r \in Reqs : MergeFrom(at[r]) => at[r] \in Slots /\ at'[r] \in Slots
  <2>1. SUFFICES ASSUME NEW r \in Reqs, MergeFrom(at[r]) PROVE at[r] \in Slots /\ at'[r] \in Slots
    OBVIOUS
  <2>2. PICK i \in 1 .. Len(merges) : Merge(r) = merges[i] /\ merges[i].from = at[r]
    BY <1>4, <2>1
  <2> QED
    BY <1>2, <1>5, <1>6, <1>7, <2>1, <2>2
<1>9. ASSUME ~misread', NEW r \in Reqs, MergeFrom(at[r]) PROVE FreshMerge(at[r], at'[r])
  <2>1. PICK i \in 1 .. Len(merges) : Merge(r) = merges[i] /\ merges[i].from = at[r]
    BY <1>4, <1>9
  <2>2. ~merges[i].stale
    BY <1>1, <1>5, <1>9, <2>1
  <2>3. merges[i].into = at'[r]
    BY <1>5, <1>6, <1>9, <2>1
  <2> QED
    BY <2>1, <2>2, <2>3 DEF FreshMerge
<1>10. \A s : s \in follow' <=> \E r \in Reqs : at[r] = s /\ MergeFrom(s)
  <2>1. \A r \in moving : r \in Reqs
    BY DEF moving
  <2> QED
    BY <1>1, <1>5, <2>1
<1>11. \A x, s : ~FreshMerge(x, s)' /\ ~MergeFrom(x)'
  <2>1. Len(merges') = 0
    BY <1>1
  <2> QED
    BY <2>1 DEF FreshMerge, MergeFrom
<1>12. TypeOK'
  <2>1. at' \in [Reqs -> Slots \cup {NoSlot}]
    <3>1. \A r \in Reqs : at'[r] \in Slots \cup {NoSlot}
      BY <1>5, <1>6, <1>8 DEF TypeOK
    <3>2. DOMAIN at' = Reqs /\ at' = [r \in Reqs |-> at'[r]]
      BY <1>1
    <3> QED
      BY ONLY <3>1, <3>2
  <2>2. follow' \subseteq Slots
    BY <1>8, <1>10
  <2>3. misread' \in BOOLEAN /\ merges' \in Seq(Merges)
    BY <1>1 DEF TypeOK
  <2> QED
    BY <1>1, <2>1, <2>2, <2>3 DEF TypeOK, Merges, queues, table, waits, farm
<1>13. ~misread' => ~misread
  BY <1>1
<1> QED
  BY <1>1, <1>5, <1>6, <1>8, <1>9, <1>10, <1>11, <1>12, <1>13

LEMMA TakeMergesStep ==
    ASSUME NEW f, MarketInv(f), TakeMerges
    PROVE  MarketInv(f)'
<1>0. TypeOK /\ FreeInv /\ ConInv /\ OnceInv /\ ReqInv /\ Pairs(f)
  BY DEF MarketInv, EngineInv
<1>1. /\ TypeOK' /\ pc = "idle" /\ pc' = "rejects"
      /\ \A x, s : ~FreshMerge(x, s)' /\ ~MergeFrom(x)'
      /\ \A r \in Reqs : ~MergeFrom(at[r]) => at'[r] = at[r]
      /\ \A r \in Reqs : MergeFrom(at[r]) => at[r] \in Slots /\ at'[r] \in Slots
      /\ ~misread' => /\ ~misread
                      /\ \A r \in Reqs : MergeFrom(at[r]) => FreshMerge(at[r], at'[r])
      /\ \A s : s \in follow' <=> \E r \in Reqs : at[r] = s /\ MergeFrom(s)
      /\ UNCHANGED <<phase, of, conSlot, queues, rejects, table, waits, farm, leaked>>
  BY <1>0, TakeMergesEffect
<1>2. UNCHANGED <<phase, of, conSlot, turn, direct, rejects, con, conMap, freeIds, active,
                  slotsTold, lookups, lookupCancelled, parked, running, unrouted, leaked>>
  BY <1>1 DEF queues, table, waits, farm
<1>3. FreeInv' /\ ConInv' /\ OnceInv'
  BY <1>0, <1>1, <1>2, EngineKept
<1>4. ReqInv'
  BY <1>0, <1>1, <1>2, Numbers DEF ReqInv
<1>5. /\ \A s : Told(s)' <=> Told(s)
      /\ \A s : InLookup(s)' <=> InLookup(s)
      /\ \A s : Busy(s)' <=> Busy(s)
      /\ \A s : Holds(s)' <=> Holds(s)
  BY <1>2, EngineSame
<1>6. /\ \A s : CancelOnItsWay(s)' <=> CancelOnItsWay(s)
      /\ \A s : /\ Refused(s)' <=> Refused(s)
                /\ FreshRefused(s)' <=> FreshRefused(s)
                /\ CancelNoted(s)' <=> CancelNoted(s)
  BY <1>1, <1>2, SameQueues, SameRejects
<1>7. Pairs(f)'
  BY <1>0, <1>2, PairsKept
<1>8. ASSUME ~misread', PictureInv, TurnInv(f)
      PROVE  PictureInv' /\ TurnInv(f)'
  <2> USE <1>8 DEF PictureInv
  \* A request stays, or moves from an idle slot to one of the same contract.
  <2>a. ASSUME NEW r \in Reqs, at'[r] # at[r]
        PROVE  /\ at[r] \in Slots /\ at'[r] \in Slots /\ FreshMerge(at[r], at'[r])
               /\ MergeIdle(at[r]) /\ MergeInto(at[r], at'[r]) /\ con[at'[r]] \in Contracts
    <3>1. at[r] \in Slots /\ at'[r] \in Slots /\ FreshMerge(at[r], at'[r])
      BY <1>1, <1>8, <2>a
    <3>2. MergeIdle(at[r]) /\ MergeInto(at[r], at'[r])
      BY <3>1 DEF MergeInv
    <3> QED
      BY <3>1, <3>2 DEF MergeIdle, MergeInto
  <2>b. ASSUME NEW r \in Reqs, MergeFrom(at[r])
        PROVE  /\ at[r] \in Slots /\ at'[r] \in Slots /\ FreshMerge(at[r], at'[r])
               /\ MergeIdle(at[r]) /\ MergeInto(at[r], at'[r])
    <3>1. at[r] \in Slots /\ at'[r] \in Slots /\ FreshMerge(at[r], at'[r])
      BY <1>1, <1>8, <2>b
    <3> QED
      BY <3>1 DEF MergeInv
  <2>c. /\ \A d \in Contracts : conSlot[d] # NoSlot => conSlot[d] \in Slots
        /\ \A l \in lookups : l.slot \in Slots /\ InLookup(l.slot)
        /\ follow = {} /\ lookupCancelled \subseteq Slots
    BY <1>0, <1>1 DEF TypeOK, InLookup, FollowInv
  \* A slot newly read is of a contract, and no cancel of it is on its way.
  <2>d. ASSUME NEW s \in Slots, Read(s)'
        PROVE  \/ Read(s) /\ ~MergeFrom(s)
               \/ con[s] \in Contracts /\ ~CancelOnItsWay(s) /\ (Busy(s) \/ Refused(s))
    <3>1. PICK r \in Reqs : at'[r] = s
      BY <2>d DEF Read
    <3>2. CASE MergeFrom(at[r])
      <4>1. MergeIdle(at[r]) /\ MergeInto(at[r], s)
        BY <2>b, <3>1, <3>2
      <4> QED
        BY <4>1 DEF MergeIdle, MergeInto
    <3>3. CASE ~MergeFrom(at[r])
      BY <1>1, <3>1, <3>3 DEF Read
    <3> QED
      BY <3>2, <3>3
  <2>e. ASSUME NEW s \in Slots, Read(s)
        PROVE  Read(s)' \/ (s \in follow' /\ MergeIdle(s))
    <3>1. PICK r \in Reqs : at[r] = s
      BY <2>e DEF Read
    <3>2. CASE MergeFrom(s)
      BY <1>1, <2>b, <3>1, <3>2
    <3>3. CASE ~MergeFrom(s)
      BY <1>1, <3>1, <3>3 DEF Read
    <3> QED
      BY <3>2, <3>3
  <2>1. StreamsInv'
    <3>1. SUFFICES ASSUME NEW d \in Contracts, conSlot[d] # NoSlot
                   PROVE  con[conSlot[d]] = d /\ \E q \in Reqs : at'[q] = conSlot[d]
      BY <1>2 DEF StreamsInv, Read
    <3>2. PICK s \in Slots : s = conSlot[d] /\ con[s] = d /\ Read(s)
      BY <2>c, <3>1 DEF StreamsInv
    <3>3. ~MergeIdle(s)
      BY <3>2 DEF MergeIdle
    <3>4. Read(s)'
      BY <2>e, <3>2, <3>3
    <3> QED
      BY <3>2, <3>4 DEF Read
  <2>2. ReadsInv'
    <3>1. \A r \in Reqs : at'[r] # NoSlot => con[at'[r]] \in {Unresolved, of[r]}
      <4>1. SUFFICES ASSUME NEW r \in Reqs, at'[r] # NoSlot PROVE con[at'[r]] \in {Unresolved, of[r]}
        OBVIOUS
      <4>2. CASE at'[r] = at[r]
        BY <4>1, <4>2 DEF ReadsInv
      <4>3. CASE at'[r] # at[r]
        <5>1. at[r] \in Slots /\ con[at'[r]] = con[at[r]] /\ con[at[r]] \in Contracts
          BY <2>a, <4>3 DEF MergeIdle, MergeInto
        <5>2. con[at[r]] \in {Unresolved, of[r]}
          BY <5>1, Numbers DEF ReadsInv
        <5> QED
          BY <5>1, <5>2
      <4> QED
        BY <4>2, <4>3
    <3>2. \A l \in lookups, r \in Reqs : at'[r] = l.slot => of[r] = l.con
      <4>1. SUFFICES ASSUME NEW l \in lookups, NEW r \in Reqs, at'[r] = l.slot PROVE of[r] = l.con
        OBVIOUS
      <4>2. con[l.slot] = Unresolved
        BY <1>0, <2>c DEF ConInv
      <4>3. at'[r] = at[r]
        BY <2>a, <4>1, <4>2, Numbers
      <4> QED
        BY <4>1, <4>3 DEF ReadsInv
    <3> QED
      BY <1>2, <3>1, <3>2 DEF ReadsInv
  <2>3. MergeInv'
    BY <1>1 DEF MergeInv
  <2>4. DirectInv'
    <3>1. ToSet(direct) \subseteq Slots
      BY <1>0, SeqTypes, InSet
    <3>2. \A s \in ToSet(direct) : CancelOnItsWay(s) /\ ~Read(s)
      BY DEF CancelOnItsWay, DirectInv
    <3>3. \A s \in ToSet(direct) : ~Read(s)'
      BY <2>d, <3>1, <3>2
    <3> QED
      BY <1>2, <3>3 DEF DirectInv
  <2>5. FollowInv'
    <3>1. pc' # "idle"
      BY <1>1
    <3>2. ASSUME NEW s \in follow'
          PROVE  /\ ~Read(s)' /\ ~Holds(s) /\ ~Told(s) /\ con[s] \in Contracts
                 /\ ~CancelOnItsWay(s)
      <4>1. PICK r \in Reqs : at[r] = s /\ MergeFrom(s)
        BY <1>1, <3>2
      <4>2. PICK u \in Slots : s \in Slots /\ FreshMerge(s, u) /\ MergeIdle(s)
        BY <2>b, <4>1
      <4>3. ~Read(s)'
        <5>1. SUFFICES ASSUME NEW q \in Reqs, at'[q] = s PROVE FALSE
          BY DEF Read
        <5>2. MergeFrom(at[q])
          BY <1>1, <4>1, <5>1
        <5>3. MergeInto(at[q], s)
          BY <2>b, <5>1, <5>2
        <5> QED
          BY <4>2, <5>3 DEF MergeInto
      <4> QED
        BY <4>2, <4>3 DEF MergeIdle
    <3> QED
      BY <1>2, <1>5, <1>6, <3>1, <3>2 DEF FollowInv
  <2>6. CancelledInv'
    <3>1. \A s \in lookupCancelled : ~Read(s)' /\ ~CancelOnItsWay(s)
      <4>1. TAKE s \in lookupCancelled
      <4>2. s \in Slots /\ con[s] = Unresolved /\ ~Read(s) /\ ~CancelOnItsWay(s)
        BY <1>0, <2>c DEF OnceInv, ConInv, CancelledInv
      <4> QED
        BY <2>d, <4>2, Numbers
    <3>2. \A s \in Slots : CancelNoted(s) => ~Read(s)'
      <4>1. SUFFICES ASSUME NEW s \in Slots, CancelNoted(s) PROVE ~Read(s)'
        OBVIOUS
      <4>2. con[s] = Unresolved /\ ~Read(s)
        BY <4>1 DEF CancelledInv
      <4> QED
        BY <2>d, <4>2, Numbers
    <3> QED
      BY <1>2, <1>5, <1>6, <3>1, <3>2 DEF CancelledInv
  <2>7. WaitInv'
    <3>1. SUFFICES ASSUME NEW s \in Slots, Read(s)' PROVE Holds(s) \/ Told(s) \/ Refused(s)
      BY <1>5, <1>6 DEF WaitInv
    <3>2. CASE Read(s) /\ ~MergeFrom(s)
      BY <3>2 DEF WaitInv
    <3>3. CASE Busy(s) \/ Refused(s)
      BY <3>3, Joins
    <3> QED
      BY <2>d, <3>1, <3>2, <3>3
  <2>8. OwedInv'
    <3>1. SUFFICES ASSUME NEW s \in Slots, con[s] # FREE_SLOT PROVE Owed(s)'
      BY <1>2 DEF OwedInv
    <3>2. Owed(s)
      BY <3>1 DEF OwedInv
    <3>3. CASE Read(s)
      BY <2>e, <3>3 DEF Owed
    <3>4. CASE ~Read(s)
      BY <1>2, <1>6, <2>c, <3>2, <3>4 DEF Owed
    <3> QED
      BY <3>3, <3>4
  <2>9. TurnInv(f)'
    <3>1. \A s \in Slots : Read(s)' => Read(s) \/ Unsubscribe(s) \notin ToSet(turn)
      BY <2>d DEF CancelOnItsWay
    <3>2. \A s \in Slots : Read(s) => Read(s)' \/ ~Told(s)
      BY <2>e DEF MergeIdle
    <3>3. \A r \in Reqs, s \in Slots :
            at'[r] = s /\ ToldFor(NoContract, s) => at[r] = s /\ of'[r] = of[r]
      <4>1. SUFFICES ASSUME NEW r \in Reqs, ToldFor(NoContract, at'[r]), at'[r] \in Slots
                     PROVE  at[r] = at'[r]
        BY <1>2
      <4>2. con[at'[r]] = Unresolved
        BY <1>0, <4>1 DEF ConInv
      <4> QED
        BY <2>a, <4>2, Numbers
    <3> QED
      BY <1>0, <1>2, <3>1, <3>2, <3>3, TurnKept
  <2> QED
    BY <2>1, <2>2, <2>3, <2>4, <2>5, <2>6, <2>7, <2>8, <2>9
<1> QED
  BY <1>1, <1>3, <1>4, <1>7, <1>8 DEF MarketInv, EngineInv

-----------------------------------------------------------------------------
(***************************************************************************)
(* take_md_rejects: the refusals, and the commands that follow.            *)
(***************************************************************************)
\* The sequence has no element twice.
Once(s) == \A p, q \in 1 .. Len(s) : s[p] = s[q] => p = q

LEMMA AscendingOnce ==
    ASSUME NEW S \in SUBSET Slots
    PROVE  Ascending(S) \in Seq(Slots) /\ ToSet(Ascending(S)) = S /\ Once(Ascending(S))
<1>1. PICK a : a = Ascending(S)
  OBVIOUS
<1>n. PICK n : n = Cardinality(S)
  OBVIOUS
<1>m. /\ n \in Nat /\ a \in [1 .. n -> S]
      /\ \A i \in S : \E k \in 1 .. n : a[k] = i
      /\ \A k, l \in 1 .. n : k < l => a[k] < a[l]
  <2>1. S \in SUBSET Nat /\ IsFiniteSet(S)
    BY SlotsFinite
  <2> QED
    BY ONLY <1>1, <1>n, <2>1, AscendingOf
<1>2. a \in Seq(Slots) /\ Len(a) = n
  BY <1>m
<1>3. \A k \in 1 .. n : a[k] \in S /\ a[k] \in Nat
  <2>1. \A s \in S : s \in Nat
    BY SlotsFinite
  <2> QED
    BY ONLY <1>m, <2>1
<1>4. ToSet(a) = S
  <2>1. ASSUME NEW x \in ToSet(a) PROVE x \in S
    BY <1>2, <1>3, <2>1, InSet
  <2>2. ASSUME NEW x \in S PROVE x \in ToSet(a)
    BY <1>2, <1>m, <2>2, InSet
  <2> QED
    BY ONLY <2>1, <2>2
<1>5. Once(a)
  <2>1. SUFFICES ASSUME NEW p \in 1 .. n, NEW q \in 1 .. n, a[p] = a[q] PROVE p = q
    BY <1>2 DEF Once
  <2>2. ~(p < q) /\ ~(q < p)
    BY <1>m, <1>3, <2>1
  <2> QED
    BY ONLY <1>m, <2>2
<1> QED
  BY <1>1, <1>2, <1>4, <1>5

LEMMA ConcatOnce ==
    ASSUME NEW E, NEW s \in Seq(E), NEW t \in Seq(E), Once(s), Once(t),
           ToSet(s) \cap ToSet(t) = {}
    PROVE  Once(s \o t)
<1>m. PICK m : m = Len(s)
  OBVIOUS
<1>n. PICK n : n = Len(t)
  OBVIOUS
<1>u. PICK u : u = s \o t
  OBVIOUS
<1>1. m \in Nat /\ n \in Nat /\ m = Len(s) /\ n = Len(t) /\ u = s \o t
  BY <1>m, <1>n, <1>u
<1>2. /\ Len(u) = m + n
      /\ \A k \in 1 .. m + n : u[k] = IF k <= m THEN s[k] ELSE t[k - m]
  BY <1>1
<1>3. \A k \in 1 .. m + n : (k <= m => k \in 1 .. m) /\ (~(k <= m) => k - m \in 1 .. n)
  BY ONLY <1>1
<1>4. /\ \A k \in 1 .. m : s[k] \in ToSet(s)
      /\ \A k \in 1 .. n : t[k] \in ToSet(t)
  BY <1>1, InSet
<1>5. SUFFICES ASSUME NEW p \in 1 .. m + n, NEW q \in 1 .. m + n, u[p] = u[q] PROVE p = q
  BY <1>1, <1>2 DEF Once
<1>6. CASE p <= m /\ q <= m
  BY <1>1, <1>2, <1>3, <1>5, <1>6 DEF Once
<1>7. CASE ~(p <= m) /\ ~(q <= m)
  <2>1. p - m \in 1 .. n /\ q - m \in 1 .. n /\ t[p - m] = t[q - m]
    BY ONLY <1>2, <1>3, <1>5, <1>7
  <2>2. p - m = q - m
    BY <1>1, <2>1 DEF Once
  <2> QED
    BY ONLY <1>1, <2>2
<1>8. CASE p <= m /\ ~(q <= m)
  BY <1>2, <1>3, <1>4, <1>5, <1>8
<1>9. CASE ~(p <= m) /\ q <= m
  BY <1>2, <1>3, <1>4, <1>5, <1>9
<1> QED
  BY <1>6, <1>7, <1>8, <1>9

\* The slots let go by their requests, and those the client unsubscribes.
Emptied(s) == s \in Slots /\ Refused(s) /\ Read(s)
Released(s) == Emptied(s) \/ (s \in Slots /\ CancelNoted(s))

LEMMA TakeRejectsEffect ==
    ASSUME TypeOK, TakeRejects
    PROVE  /\ TypeOK' /\ pc' = "idle" /\ follow' = {}
           /\ \A s : ~Refused(s)' /\ ~FreshRefused(s)' /\ ~CancelNoted(s)'
           /\ \A r \in Reqs : at'[r] = IF Refused(at[r]) THEN NoSlot ELSE at[r]
           /\ \A r \in Reqs : phase'[r] = IF Refused(at[r]) THEN "ended" ELSE phase[r]
           /\ \A c \in Contracts : conSlot'[c] = IF Emptied(conSlot[c]) THEN NoSlot ELSE conSlot[c]
           /\ \A x, s : FreshMerge(x, s)' <=> FreshMerge(x, s) /\ ~Refused(x) /\ ~Refused(s)
           /\ \A x : MergeFrom(x)' <=> MergeFrom(x)
           /\ direct' \in Seq(Slots)
           /\ \A s : s \in ToSet(direct') <=> s \in ToSet(direct) \/ s \in follow \/ Released(s)
           /\ /\ Once(direct)
              /\ \A s \in ToSet(direct) : s \notin follow /\ ~Released(s)
              /\ \A s \in follow : ~Released(s)
              => Once(direct')
           /\ ~misread' => ~misread /\ \A s : Emptied(s) => FreshRefused(s)
           /\ leaked \subseteq leaked' /\ \A s : Released(s) /\ Told(s) => s \in leaked'
           /\ UNCHANGED <<of, turn, table, waits, farm>>
<1> DEFINE Of(c)   == {rejects[i].slot : i \in {j \in DOMAIN rejects : rejects[j].cancelled = c}}
           ending  == {r \in Reqs : at[r] \in Of(FALSE)}
           emptied == {at[r] : r \in ending}
           release == emptied \cup Of(TRUE)
<1>1. /\ pc' = "idle" /\ follow' = {}
      /\ phase' = [r \in Reqs |-> IF r \in ending THEN "ended" ELSE phase[r]]
      /\ at' = [r \in Reqs |-> IF r \in ending THEN NoSlot ELSE at[r]]
      /\ Forget(emptied)
      /\ direct' = direct \o Ascending(follow) \o Ascending(release)
      /\ Stale(Of(FALSE), merges, <<>>)
      /\ misread' = (misread \/ \E i \in DOMAIN rejects :
                        ~rejects[i].cancelled /\ rejects[i].stale /\ rejects[i].slot \in emptied)
      /\ leaked' = leaked \cup {s \in release : Told(s)}
      /\ UNCHANGED <<of, turn, table, waits, farm>>
  BY DEF TakeRejects
<1>2. /\ rejects \in Seq(Rejects) /\ DOMAIN rejects = 1 .. Len(rejects)
      /\ \A i \in 1 .. Len(rejects) : rejects[i] \in Rejects
  <2>1. rejects \in Seq(Rejects)
    BY DEF TypeOK, Rejects
  <2> QED
    BY ONLY <2>1
<1>3. \A m \in Rejects : m.slot \in Slots /\ m.cancelled \in BOOLEAN /\ m.stale \in BOOLEAN
  BY DEF Rejects
<1>4. /\ \A s : s \in Of(FALSE) <=> Refused(s)
      /\ \A s : s \in Of(TRUE) <=> CancelNoted(s)
      /\ Of(FALSE) \subseteq Slots /\ Of(TRUE) \subseteq Slots
  <2>1. \A s : s \in Of(FALSE) <=> Refused(s)
    BY <1>2, <1>3 DEF Refused
  <2>2. \A s : s \in Of(TRUE) <=> CancelNoted(s)
    BY <1>2, <1>3 DEF CancelNoted
  <2>3. \A c : Of(c) \subseteq Slots
    BY <1>2, <1>3
  <2> QED
    BY <2>1, <2>2, <2>3
<1> HIDE DEF Of
<1>5. \A r \in Reqs : r \in ending <=> Refused(at[r])
  BY <1>4
<1>6. \A s : s \in emptied <=> Emptied(s)
  BY <1>4 DEF Emptied, Read
<1> HIDE DEF ending, emptied
<1>7. release \in SUBSET Slots /\ \A s : s \in release <=> Released(s)
  BY <1>4, <1>6 DEF Released, Emptied
<1> HIDE DEF release
<1>8. /\ \A r \in Reqs : at'[r] = IF Refused(at[r]) THEN NoSlot ELSE at[r]
      /\ \A r \in Reqs : phase'[r] = IF Refused(at[r]) THEN "ended" ELSE phase[r]
  BY <1>1, <1>5
<1>9. /\ conSlot' = [c \in Contracts |-> IF conSlot[c] \in emptied THEN NoSlot ELSE conSlot[c]]
      /\ \A c \in Contracts : conSlot'[c] = IF Emptied(conSlot[c]) THEN NoSlot ELSE conSlot[c]
  BY <1>1, <1>6 DEF Forget
<1>10. /\ merges' \in Seq(Merges)
       /\ \A x, s : FreshMerge(x, s)' <=> FreshMerge(x, s) /\ ~Refused(x) /\ ~Refused(s)
       /\ \A x : MergeFrom(x)' <=> MergeFrom(x)
  <2>1. merges' = [i \in DOMAIN merges |->
                     [merges[i] EXCEPT !.stale = @ \/ {merges[i].from, merges[i].into} \cap Of(FALSE) # {}]]
    BY <1>1 DEF Stale
  <2>2. /\ merges' \in Seq(Merges)
        /\ \A x, s : FreshMerge(x, s)' <=> FreshMerge(x, s) /\ x \notin Of(FALSE) /\ s \notin Of(FALSE)
        /\ \A x : MergeFrom(x)' <=> MergeFrom(x)
    BY <2>1, MergesStale
  <2> QED
    BY <1>4, <2>2
<1>11. rejects' \in Seq(Rejects) /\ Len(rejects') = 0
  <2>1. PICK h : rejects' = [i \in DOMAIN <<>> |-> h[i]]
    <3>1. rejects' = [i \in DOMAIN <<>> |->
                        [<<>>[i] EXCEPT !.stale = @ \/ <<>>[i].slot \in Of(FALSE)]]
      BY <1>1 DEF Stale
    <3>2. rejects' = [i \in DOMAIN <<>> |-> rejects'[i]]
      BY <3>1
    <3> QED
      BY <3>2
  <2>2. rejects' = [i \in 1 .. 0 |-> h[i]] /\ 1 .. 0 = {}
    BY ONLY <2>1
  <2> QED
    BY ONLY <2>2
<1>12. \A s : ~Refused(s)' /\ ~FreshRefused(s)' /\ ~CancelNoted(s)'
  BY <1>11 DEF Refused, FreshRefused, CancelNoted
<1>13. PICK a, b : /\ a = Ascending(follow) /\ b = Ascending(release)
                   /\ a \in Seq(Slots) /\ ToSet(a) = follow /\ Once(a)
                   /\ b \in Seq(Slots) /\ ToSet(b) = release /\ Once(b)
  <2>1. follow \in SUBSET Slots
    BY DEF TypeOK
  <2> QED
    BY <1>7, <2>1, AscendingOnce
<1>14. direct \in Seq(Slots) /\ direct' = (direct \o a) \o b
  BY <1>1, <1>13 DEF TypeOK
<1>15. direct \o a \in Seq(Slots) /\ ToSet(direct \o a) = ToSet(direct) \cup follow
  BY <1>13, <1>14, InConcat
<1>16. direct' \in Seq(Slots) /\ ToSet(direct') = ToSet(direct) \cup follow \cup release
  <2>1. PICK d : d = direct \o a
    OBVIOUS
  <2>2. d \in Seq(Slots) /\ direct' = d \o b /\ ToSet(d) = ToSet(direct) \cup follow
    BY ONLY <1>14, <1>15, <2>1
  <2>3. b \in Seq(Slots) /\ ToSet(b) = release
    BY ONLY <1>13
  <2>4. d \o b \in Seq(Slots) /\ ToSet(d \o b) = ToSet(d) \cup ToSet(b)
    BY ONLY <2>2, <2>3, InConcat
  <2> QED
    BY ONLY <2>2, <2>3, <2>4
<1>17. \A s : s \in ToSet(direct') <=> s \in ToSet(direct) \/ s \in follow \/ Released(s)
  BY ONLY <1>7, <1>16
<1>18. ASSUME Once(direct), \A s \in ToSet(direct) : s \notin follow /\ ~Released(s),
              \A s \in follow : ~Released(s)
       PROVE  Once(direct')
  <2>1. ToSet(direct) \cap ToSet(a) = {} /\ ToSet(direct \o a) \cap ToSet(b) = {}
    BY ONLY <1>7, <1>13, <1>15, <1>18
  <2>2. Once(direct \o a)
    BY ONLY <1>13, <1>14, <1>18, <2>1, ConcatOnce
  <2> QED
    BY ONLY <1>13, <1>14, <1>15, <2>1, <2>2, ConcatOnce
<1>19. ~misread' => ~misread /\ \A s : Emptied(s) => FreshRefused(s)
  <2>1. ASSUME ~misread', NEW s, Emptied(s) PROVE FreshRefused(s)
    <3>1. PICK i \in 1 .. Len(rejects) : rejects[i].slot = s /\ ~rejects[i].cancelled
      BY <2>1 DEF Emptied, Refused
    <3>2. ~rejects[i].stale
      BY <1>1, <1>2, <1>6, <2>1, <3>1
    <3> QED
      BY <3>1, <3>2 DEF FreshRefused
  <2> QED
    BY <1>1, <2>1
<1>20. leaked \subseteq leaked' /\ leaked' \subseteq Slots /\ \A s : Released(s) /\ Told(s) => s \in leaked'
  BY <1>1, <1>7 DEF TypeOK
<1>21. TypeOK'
  <2>1. phase' \in [Reqs -> {"none", "open", "ended"}] /\ at' \in [Reqs -> Slots \cup {NoSlot}]
    BY <1>1 DEF TypeOK
  <2>2. conSlot' \in [Contracts -> Slots \cup {NoSlot}]
    BY <1>9 DEF TypeOK
  <2>3. misread' \in BOOLEAN
    BY <1>1 DEF TypeOK
  <2> QED
    BY <1>1, <1>10, <1>11, <1>16, <1>20, <2>1, <2>2, <2>3
    DEF TypeOK, Merges, Rejects, table, waits, farm
<1> QED
  BY <1>1, <1>8, <1>9, <1>10, <1>12, <1>16, <1>17, <1>18, <1>19, <1>20, <1>21

LEMMA TakeRejectsStep ==
    ASSUME NEW f, MarketInv(f), TakeRejects
    PROVE  MarketInv(f)'
<1>0. TypeOK /\ FreeInv /\ ConInv /\ OnceInv /\ ReqInv /\ Pairs(f)
  BY DEF MarketInv, EngineInv
<1>1. /\ TypeOK' /\ pc' = "idle" /\ follow' = {}
      /\ \A s : ~Refused(s)' /\ ~FreshRefused(s)' /\ ~CancelNoted(s)'
      /\ \A r \in Reqs : at'[r] = IF Refused(at[r]) THEN NoSlot ELSE at[r]
      /\ \A r \in Reqs : phase'[r] = IF Refused(at[r]) THEN "ended" ELSE phase[r]
      /\ \A c \in Contracts : conSlot'[c] = IF Emptied(conSlot[c]) THEN NoSlot ELSE conSlot[c]
      /\ \A x, s : FreshMerge(x, s)' <=> FreshMerge(x, s) /\ ~Refused(x) /\ ~Refused(s)
      /\ \A x : MergeFrom(x)' <=> MergeFrom(x)
      /\ direct' \in Seq(Slots)
      /\ \A s : s \in ToSet(direct') <=> s \in ToSet(direct) \/ s \in follow \/ Released(s)
      /\ /\ Once(direct)
         /\ \A s \in ToSet(direct) : s \notin follow /\ ~Released(s)
         /\ \A s \in follow : ~Released(s)
         => Once(direct')
      /\ ~misread' => ~misread /\ \A s : Emptied(s) => FreshRefused(s)
      /\ leaked \subseteq leaked' /\ \A s : Released(s) /\ Told(s) => s \in leaked'
      /\ UNCHANGED <<of, turn, table, waits, farm>>
  BY <1>0, TakeRejectsEffect
<1>2. UNCHANGED <<of, turn, con, conMap, freeIds, active, slotsTold, lookups, lookupCancelled, parked,
                  running, unrouted>>
  BY <1>1 DEF table, waits, farm
<1>3. FreeInv' /\ ConInv' /\ OnceInv'
  BY <1>0, <1>1, <1>2, EngineKept
<1>4. ReqInv'
  BY <1>0, <1>1, <1>2 DEF ReqInv
<1>5. /\ \A s : Told(s)' <=> Told(s)
      /\ \A s : InLookup(s)' <=> InLookup(s)
      /\ \A s : Busy(s)' <=> Busy(s)
      /\ \A s : Holds(s)' <=> Holds(s)
  BY <1>2, EngineSame
<1>6. /\ \A s \in Slots : Read(s)' <=> Read(s) /\ ~Refused(s)
      /\ \A s : CancelOnItsWay(s)' <=> CancelOnItsWay(s) \/ s \in follow \/ Released(s)
  <2>1. \A s \in Slots : Read(s)' <=> Read(s) /\ ~Refused(s)
    BY <1>1, Numbers DEF Read
  <2>2. \A s : CancelOnItsWay(s)' <=> CancelOnItsWay(s) \/ s \in follow \/ Released(s)
    BY <1>1, <1>2 DEF CancelOnItsWay
  <2> QED
    BY <2>1, <2>2
<1>7. Pairs(f)'
  BY <1>0, <1>2, PairsKept
<1>8. ASSUME ~misread', PictureInv, TurnInv(f)
      PROVE  PictureInv' /\ TurnInv(f)'
  <2> USE <1>8 DEF PictureInv
  <2>a. /\ \A d \in Contracts : conSlot[d] # NoSlot => conSlot[d] \in Slots
        /\ follow \subseteq Slots /\ lookupCancelled \subseteq Slots /\ ToSet(direct) \subseteq Slots
    BY <1>0, SeqTypes, InSet DEF TypeOK
  \* What is let go had no cancel on its way, and no request reads it now.
  <2>b. \A s : Released(s) => s \in Slots /\ ~CancelOnItsWay(s) /\ ~Read(s)'
    BY <1>1, <1>6, <1>8 DEF Released, Emptied, CancelledInv
  <2>c. \A s \in follow : ~Released(s) /\ ~CancelOnItsWay(s) /\ ~Read(s)
    <3>1. TAKE s \in follow
    <3>2. ~Read(s) /\ con[s] \in Contracts /\ ~CancelOnItsWay(s) /\ s \in Slots
      BY <2>a DEF FollowInv
    <3>3. ~CancelNoted(s)
      BY <3>2, Numbers DEF CancelledInv
    <3> QED
      BY <3>2, <3>3 DEF Released, Emptied
  <2>1. StreamsInv'
    <3>1. SUFFICES ASSUME NEW d \in Contracts, conSlot'[d] # NoSlot
                   PROVE  con[conSlot'[d]] = d /\ \E q \in Reqs : at'[q] = conSlot'[d]
      BY <1>2 DEF StreamsInv, Read
    <3>2. PICK s \in Slots : s = conSlot[d] /\ s = conSlot'[d] /\ con[s] = d /\ Read(s) /\ ~Emptied(s)
      BY <1>1, <2>a, <3>1 DEF StreamsInv
    <3>3. Read(s)'
      BY <1>6, <3>2 DEF Emptied
    <3> QED
      BY <3>2, <3>3 DEF Read
  <2>2. ReadsInv'
    <3>1. \A r \in Reqs : at'[r] # NoSlot => at'[r] = at[r]
      BY <1>1
    <3>2. \A l \in lookups : l.slot # NoSlot
      BY <1>0, Numbers DEF TypeOK
    <3> QED
      BY <1>2, <3>1, <3>2 DEF ReadsInv
  <2>3. MergeInv'
    <3>1. SUFFICES ASSUME NEW x \in Slots, NEW s \in Slots, FreshMerge(x, s)'
                   PROVE  MergeIdle(x)' /\ MergeInto(x, s)'
      BY DEF MergeInv
    <3>2. FreshMerge(x, s) /\ ~Refused(x) /\ ~Refused(s) /\ MergeIdle(x) /\ MergeInto(x, s)
      BY <1>1, <3>1 DEF MergeInv
    <3>3. con[x] \in Contracts /\ con[s] \in Contracts
      BY <3>2 DEF MergeIdle, MergeInto
    <3>4. ~Released(x) /\ ~Released(s)
      BY <3>2, <3>3, Numbers DEF Released, Emptied, CancelledInv
    <3>5. \A d \in Contracts : conSlot'[d] # x
      BY <1>1, <3>2, Numbers DEF MergeIdle
    <3>6. MergeIdle(x)'
      BY <1>1, <1>2, <1>5, <1>6, <3>2, <3>4, <3>5 DEF MergeIdle
    <3>7. MergeInto(x, s)'
      BY <1>1, <1>2, <1>5, <1>6, <3>2, <3>4 DEF MergeInto
    <3> QED
      BY <3>6, <3>7
  <2>4. DirectInv'
    <3>1. \A s \in ToSet(direct) : CancelOnItsWay(s) /\ ~Read(s) /\ Unsubscribe(s) \notin ToSet(turn)
      BY DEF DirectInv, CancelOnItsWay
    <3>2. \A s \in ToSet(direct) : s \notin follow /\ ~Released(s)
      BY <2>b, <2>c, <3>1
    <3>3. Once(direct')
      BY <1>1, <2>c, <3>2 DEF DirectInv, Once
    <3>4. \A s \in ToSet(direct') : ~Read(s)' /\ Unsubscribe(s) \notin ToSet(turn)
      <4>1. TAKE s \in ToSet(direct')
      <4>2. CASE s \in ToSet(direct)
        BY <1>6, <2>a, <3>1, <4>2
      <4>3. CASE s \in follow
        BY <1>6, <2>a, <2>c, <4>3 DEF CancelOnItsWay
      <4>4. CASE Released(s)
        BY <2>b, <4>4 DEF CancelOnItsWay
      <4> QED
        BY <1>1, <4>2, <4>3, <4>4
    <3> QED
      BY <1>2, <3>3, <3>4 DEF DirectInv, Once
  <2>5. FollowInv'
    BY <1>1 DEF FollowInv
  <2>6. CancelledInv'
    <3>1. \A s \in lookupCancelled : ~Read(s)' /\ ~CancelOnItsWay(s)'
      <4>1. TAKE s \in lookupCancelled
      <4>2. s \in Slots /\ InLookup(s) /\ ~Read(s) /\ ~CancelOnItsWay(s)
        BY <1>0, <2>a DEF OnceInv, CancelledInv
      <4>3. s \notin follow
        BY <4>2, Joins DEF FollowInv
      <4>4. ~Released(s)
        BY <4>2 DEF Released, Emptied, CancelledInv
      <4> QED
        BY <1>6, <4>2, <4>3, <4>4
    <3> QED
      BY <1>1, <1>2, <3>1 DEF CancelledInv
  <2>7. WaitInv'
    BY <1>1, <1>5, <1>6 DEF WaitInv
  <2>8. OwedInv'
    <3>1. SUFFICES ASSUME NEW s \in Slots, con[s] # FREE_SLOT PROVE Owed(s)'
      BY <1>2 DEF OwedInv
    <3>2. Owed(s)
      BY <3>1 DEF OwedInv
    <3>3. CASE Read(s)
      BY <1>6, <3>3 DEF Owed, Released, Emptied
    <3>4. CASE CancelNoted(s)
      BY <1>6, <3>4 DEF Owed, Released
    <3>5. CASE s \in leaked \/ CancelOnItsWay(s) \/ s \in follow \/ s \in lookupCancelled
      BY <1>1, <1>2, <1>6, <3>5 DEF Owed
    <3> QED
      BY <3>2, <3>3, <3>4, <3>5 DEF Owed
  <2>9. TurnInv(f)'
    <3>1. \A s \in Slots : Read(s) => Read(s)' \/ s \in leaked' \/ ~Told(s)
      BY <1>1, <1>6 DEF Released, Emptied
    <3>2. \A r \in Reqs, s \in Slots :
            at'[r] = s /\ ToldFor(NoContract, s) => at[r] = s /\ of'[r] = of[r]
      BY <1>1, <1>2, Numbers
    <3> QED
      BY <1>0, <1>1, <1>2, <1>6, <3>1, <3>2, TurnKept
  <2> QED
    BY <2>1, <2>2, <2>3, <2>4, <2>5, <2>6, <2>7, <2>8, <2>9
<1> QED
  BY <1>1, <1>3, <1>4, <1>7, <1>8 DEF MarketInv, EngineInv
-----------------------------------------------------------------------------
(***************************************************************************)
(* The invariant holds in every state, and what it gives.                  *)
(***************************************************************************)
MarketAlways == \E f : MarketInv(f)

LEMMA MarketStarts == ASSUME Init PROVE MarketAlways
<1>1. PICK f : f = [j \in 1 .. 0 |-> 0]
  OBVIOUS
<1>2. /\ Len(turn) = 0 /\ Len(merges) = 0 /\ Len(rejects) = 0 /\ Len(slotsTold) = 0
      /\ Len(freeIds) = 0 /\ Len(direct) = 0 /\ 1 .. 0 = {}
  BY DEF Init
<1>3. TypeOK
  <2>1. /\ phase \in [Reqs -> {"none", "open", "ended"}]
        /\ of \in [Reqs -> Contracts \cup {NoContract}]
        /\ at \in [Reqs -> Slots \cup {NoSlot}] /\ conSlot \in [Contracts -> Slots \cup {NoSlot}]
        /\ con \in [Slots -> Contracts \cup {Unresolved, FREE_SLOT}]
        /\ conMap \in [Contracts -> Slots \cup {NoSlot}]
    BY DEF Init
  <2>2. active \in 0 .. MAX_INSTRUMENTS /\ losses \in 0 .. MaxLosses
    BY Numbers DEF Init
  <2>3. /\ pc \in {"idle", "rejects"} /\ follow \subseteq Slots
        /\ lookups \subseteq [slot : Slots, con : Contracts]
        /\ lookupCancelled \subseteq Slots /\ parked \subseteq Slots
        /\ lotLookups \subseteq Contracts /\ defined \subseteq Contracts
        /\ running \subseteq Slots /\ unrouted \subseteq Slots /\ confirmed \subseteq Slots
        /\ misread \in BOOLEAN /\ leaked \subseteq Slots
    BY DEF Init
  <2>4. /\ turn \in Seq([kind : {"subscribe", "bySymbol"}, con : Contracts]
                          \cup [kind : {"unsubscribe"}, slot : Slots])
        /\ direct \in Seq(Slots) /\ freeIds \in Seq(Slots)
    BY DEF Init
  <2>5. /\ merges \in Seq([from : Slots, into : Slots, stale : BOOLEAN])
        /\ rejects \in Seq([slot : Slots, cancelled : BOOLEAN, stale : BOOLEAN])
        /\ slotsTold \in Seq((Contracts \cup {NoContract}) \X Slots)
    BY DEF Init
  <2> QED
    BY <2>1, <2>2, <2>3, <2>4, <2>5 DEF TypeOK
<1>4. \A s : /\ ~Told(s) /\ ~InLookup(s) /\ ~CancelNoted(s) /\ ~FreshRefused(s)
             /\ \A c : ~ToldFor(c, s)
  BY <1>2 DEF Init, Told, InLookup, CancelNoted, FreshRefused, ToldFor
<1>5. \A x, s : ~FreshMerge(x, s)
  BY <1>2 DEF FreshMerge
<1>6. \A s \in Slots : ~Read(s) /\ ~Busy(s)
  BY Numbers DEF Init, Read, Busy
<1>7. ToSet(direct) = {}
  BY <1>2 DEF ToSet, Init
<1>8. FreeInv /\ OnceInv
  BY <1>2 DEF Init, FreeInv, OnceInv
<1>9. ConInv
  BY <1>4, <1>6 DEF Init, ConInv
<1>10. ReqInv
  BY DEF Init, ReqInv
<1>11. Pairs(f)
  BY <1>1, <1>2 DEF Pairs
<1>12. TurnInv(f)
  BY <1>2 DEF TurnInv, BehindInv, BetweenInv, ToldInv, SymbolInv
<1>13. StreamsInv /\ ReadsInv
  BY DEF Init, StreamsInv, ReadsInv
<1>14. MergeInv /\ WaitInv
  BY <1>5, <1>6 DEF MergeInv, WaitInv
<1>15. DirectInv
  BY <1>2, <1>7 DEF DirectInv
<1>16. FollowInv /\ OwedInv
  BY DEF Init, FollowInv, OwedInv
<1>17. CancelledInv
  BY <1>4 DEF Init, CancelledInv
<1>18. MarketInv(f)
  BY <1>3, <1>8, <1>9, <1>10, <1>11, <1>12, <1>13, <1>14, <1>15, <1>16, <1>17
  DEF MarketInv, EngineInv, PictureInv
<1> QED
  BY <1>18 DEF MarketAlways

LEMMA MarketStutters == ASSUME NEW f, MarketInv(f), UNCHANGED vars PROVE MarketInv(f)'
<1>1. UNCHANGED <<client, pass, queues, notes, table, waits, farm, history>>
  BY DEF vars
<1>2. UNCHANGED <<slotsTold, lookups, lookupCancelled, parked, running, unrouted>>
  BY <1>1 DEF waits, farm
<1>3. TypeOK
  BY DEF MarketInv, EngineInv
<1>4. TypeOK'
  BY <1>1, <1>3 DEF TypeOK, client, pass, queues, notes, table, waits, farm, history
<1>5. \A s : Busy(s)' <=> Busy(s)
  BY <1>2, SameFarm
<1> QED
  BY <1>1, <1>2, <1>4, <1>5, NothingMoves

LEMMA MarketNext == ASSUME MarketAlways, [Next]_vars PROVE MarketAlways'
<1>1. PICK f : MarketInv(f)
  BY DEF MarketAlways
<1>2. SUFFICES \E g : MarketInv(g)'
  BY <1>2 DEF MarketAlways
<1>3. CASE Client
  <2>1. ASSUME NEW r \in Reqs, NEW c \in Contracts, ReqMktData(r, c) PROVE \E g : MarketInv(g)'
    BY <1>1, <2>1, ByContractStep
  <2>2. ASSUME NEW r \in Reqs, NEW c \in Contracts, ReqMktDataBySymbol(r, c)
        PROVE  \E g : MarketInv(g)'
    BY <1>1, <2>2, BySymbolStep
  <2>3. ASSUME NEW r \in Reqs, CancelMktData(r) PROVE \E g : MarketInv(g)'
    BY <1>1, <2>3, CancelOneStep, CancelLastStep
  <2> QED
    BY ONLY <1>3, <2>1, <2>2, <2>3 DEF Client
<1>4. CASE Dispatch
  BY ONLY <1>1, <1>4, TakeMergesStep, TakeRejectsStep DEF Dispatch
<1>5. CASE InTurn
  BY ONLY <1>1, <1>5, HandleSubscribeStep, HandleBySymbolStep, InTurnStep DEF InTurn
<1>6. CASE UnsubscribeDirect
  BY ONLY <1>1, <1>6, DirectStep
<1>7. CASE Lookups
  <2>1. ASSUME NEW l \in lookups, LookupFound(l) PROVE \E g : MarketInv(g)'
    BY <1>1, <2>1, FoundStep
  <2>2. ASSUME NEW l \in lookups, LookupRefused(l) \/ LookupTimesOut(l) PROVE \E g : MarketInv(g)'
    BY <1>1, <2>2, LookupEndsStep
  <2>3. ASSUME NEW c \in lotLookups, NEW a \in BOOLEAN, DefinitionEnds(c, a)
        PROVE  \E g : MarketInv(g)'
    BY <1>1, <2>3, DefinitionStep
  <2> QED
    BY ONLY <1>7, <2>1, <2>2, <2>3 DEF Lookups
<1>8. CASE Answers
  <2>1. ASSUME NEW s \in Slots, FarmConfirms(s) PROVE \E g : MarketInv(g)'
    BY <1>1, <2>1, FarmStep
  <2>2. ASSUME NEW s \in Slots, FarmRefuses(s) PROVE \E g : MarketInv(g)'
    BY <1>1, <2>2, FarmRefusesStep
  <2> QED
    BY ONLY <1>8, <2>1, <2>2 DEF Answers
<1>9. CASE FarmLost
  BY ONLY <1>1, <1>9, FarmStep
<1>10. CASE UNCHANGED vars
  BY ONLY <1>1, <1>10, MarketStutters
<1> QED
  BY ONLY <1>3, <1>4, <1>5, <1>6, <1>7, <1>8, <1>9, <1>10, [Next]_vars DEF Next

LEMMA MarketHolds == Spec => []MarketAlways
<1>1. Init => MarketAlways
  BY MarketStarts
<1>2. MarketAlways /\ [Next]_vars => MarketAlways'
  BY MarketNext
<1> QED
  BY <1>1, <1>2, PTL DEF Spec

LEMMA RequestsRead == \A s : Requests(s) # {} <=> Read(s)
  BY DEF Requests, Read

LEMMA RefusedWaits == ASSUME TypeOK, NEW s, Refused(s) \/ MergeFrom(s) PROVE Waits(s)
<1>1. /\ rejects \in Seq([slot : Slots, cancelled : BOOLEAN, stale : BOOLEAN])
      /\ merges \in Seq([from : Slots, into : Slots, stale : BOOLEAN])
  BY DEF TypeOK
<1>2. DOMAIN rejects = 1 .. Len(rejects) /\ DOMAIN merges = 1 .. Len(merges)
  BY <1>1
<1> QED
  BY <1>2 DEF Refused, MergeFrom, Waits

\* The requests, the slots of both sides, the queues and the notes have their
\* types in every state.
THEOREM MarketSlotsTypes == Spec => []TypeOK
<1>1. MarketAlways => TypeOK
  BY DEF MarketAlways, MarketInv, EngineInv
<1> QED
  BY <1>1, MarketHolds, PTL

\* No request is forgotten, whatever the number of requests, contracts and
\* slots: the slot it reads runs, waits, or an answer for it is on its way
\* (the Subscribe and Unsubscribe arms, send_md_resolved, release_lot_parked),
\* as long as no note was applied to requests it is not about, or its
\* subscription had no route.
THEOREM NoneForgotten == Spec => []NoRequestForgotten
<1>1. ASSUME NEW f, MarketInv(f) PROVE NoRequestForgotten
  <2>1. SUFFICES ASSUME ~misread, NEW r \in Reqs, at[r] # NoSlot PROVE Waits(at[r])
    BY DEF NoRequestForgotten
  <2>2. TypeOK /\ WaitInv
    BY <1>1, <2>1 DEF MarketInv, EngineInv, PictureInv
  <2>3. at[r] \in Slots /\ Read(at[r])
    BY <2>1, <2>2 DEF TypeOK, Read
  <2>4. Holds(at[r]) \/ Told(at[r]) \/ Refused(at[r]) \/ MergeFrom(at[r])
    BY <2>2, <2>3 DEF WaitInv
  <2> QED
    BY <2>2, <2>4, RefusedWaits DEF Waits, Holds, Busy, JoinsTop
<1>2. MarketAlways => NoRequestForgotten
  BY <1>1 DEF MarketAlways
<1> QED
  BY <1>2, MarketHolds, PTL

\* The slot a request reads is of the contract it asks for, or not resolved
\* yet: no slot is given to another contract while a request reads it
\* (try_reclaim_instrument), as long as no note was misread.
THEOREM ContractsRead == Spec => []ReadsItsContract
<1>1. ASSUME NEW f, MarketInv(f) PROVE ReadsItsContract
  BY <1>1 DEF MarketInv, PictureInv, ReadsInv, ReadsItsContract
<1>2. MarketAlways => ReadsItsContract
  BY <1>1 DEF MarketAlways
<1> QED
  BY <1>2, MarketHolds, PTL

\* When nothing is on its way every slot in use is read by a request, but the
\* slots known to leak (try_reclaim_instrument, sweep_md_lookups): the table
\* of MAX_INSTRUMENTS slots does not fill with slots nobody uses.
THEOREM SlotsReturned == Spec => []SlotsGivenBack
<1>1. ASSUME NEW f, MarketInv(f) PROVE SlotsGivenBack
  <2>1. SUFFICES ASSUME Quiet, ~misread, NEW s \in Slots, con[s] # FREE_SLOT
                 PROVE  Requests(s) # {} \/ s \in leaked
    BY DEF SlotsGivenBack
  <2>2. TypeOK /\ OnceInv /\ FollowInv /\ OwedInv
    BY <1>1, <2>1 DEF MarketInv, EngineInv, PictureInv
  <2>3. Owed(s)
    BY <2>1, <2>2 DEF OwedInv
  <2>4. ~CancelOnItsWay(s)
    BY <2>1 DEF Quiet, CancelOnItsWay, ToSet
  <2>5. s \notin follow
    BY <2>1, <2>2 DEF Quiet, FollowInv
  <2>6. s \notin lookupCancelled
    BY <2>1, <2>2 DEF Quiet, OnceInv, InLookup
  <2>7. ~CancelNoted(s)
    BY <2>1 DEF Quiet, CancelNoted
  <2> QED
    BY <2>3, <2>4, <2>5, <2>6, <2>7, RequestsRead DEF Owed
<1>2. MarketAlways => SlotsGivenBack
  BY <1>1 DEF MarketAlways
<1> QED
  BY <1>2, MarketHolds, PTL

=============================================================================
