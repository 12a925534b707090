---------------------------- MODULE MarketSlots ----------------------------
(***************************************************************************)
(* The instrument slots of streaming market data: the client's requests    *)
(* and the slots they read (client_core.rs), the command arms and lookups  *)
(* of the engine (hot_loop/mod.rs, hot_loop/farm.rs), its table of slots   *)
(* (market_state.rs), and the notes the engine leaves for the client       *)
(* (bridge.rs).                                                            *)
(*                                                                         *)
(* The session is paced (park.rs): a call is told its slot at once, its    *)
(* command waits for its turn in `turn', and the client's own follow-ups   *)
(* are not paced (`direct').  One thread makes the calls and dispatches.   *)
(* What a subscription does on the farm is TopOfBook's matter: here it is  *)
(* confirmed or refused.  Snapshots, delayed and frozen data, news,        *)
(* generic ticks, the ticker limit and the wording of the errors are left  *)
(* out.                                                                    *)
(***************************************************************************)
EXTENDS Naturals, Sequences, FiniteSets, SequencesExt, Picks

CONSTANTS
    MaxReqs,        \* bound: requests made, numbered as they are made
    Contracts,      \* the conIds
    MAX_INSTRUMENTS,
    MaxLosses,      \* bound: how often the farm link is lost
    NoContract

ASSUME MarketSlotsAssumption ==
    /\ MAX_INSTRUMENTS \in Nat \ {0} /\ MaxReqs \in Nat /\ MaxLosses \in Nat
    /\ {NoContract, "conId 0", "free"} \cap Contracts = {}

VARIABLES
    phase,          \* each request: none, open, ended
    of,             \* the contract each request asks for
    at,             \* req_to_instrument, and instrument_to_req
    conSlot,        \* ClientCore.con_id_to_instrument
    pc,             \* where take_md_rejects is
    follow,         \* the commands it gathered: slots to unsubscribe
    turn,           \* the paced commands, in their order
    direct,         \* the commands that are not paced
    merges,         \* md_merges of the bridge
    rejects,        \* md_rejects of the bridge
    con,            \* instrument_to_con_id
    conMap,         \* MarketState.con_id_to_instrument
    freeIds,        \* free_ids
    active,         \* how many slots were ever used
    slotsTold,      \* md_slots_told
    lookups,        \* md_lookups: the slot, and the contract its symbol names
    lookupCancelled,
    parked,         \* lot_parked
    lotLookups,     \* lot_lookups: the contracts whose definition is on its way
    defined,        \* round_lots: the contracts whose definition is known
    running,        \* md_resub_info: the slots subscribed on the farm
    unrouted,       \* history: the slots whose subscription had no route
    confirmed,      \* external: the slots whose data the farm gives
    losses,
    misread,        \* history: a note was applied to requests it is not about
    leaked          \* history: slots left behind (see SlotsGivenBack)

client  == <<phase, of, at, conSlot>>
pass    == <<pc, follow>>
queues  == <<turn, direct>>
notes   == <<merges, rejects>>
table   == <<con, conMap, freeIds, active>>
waits   == <<slotsTold, lookups, lookupCancelled, parked, lotLookups, defined>>
farm    == <<running, unrouted, confirmed, losses>>
history == <<misread, leaked>>
vars    == <<client, pass, queues, notes, table, waits, farm, history>>

Reqs       == 1 .. MaxReqs
Slots      == 1 .. MAX_INSTRUMENTS
NoSlot     == 0
Unresolved == "conId 0"
FREE_SLOT  == "free"

Subscribe(c)         == [kind |-> "subscribe", con |-> c]
SubscribeBySymbol(c) == [kind |-> "bySymbol", con |-> c]
Unsubscribe(s)       == [kind |-> "unsubscribe", slot |-> s]

TypeOK ==
    /\ phase \in [Reqs -> {"none", "open", "ended"}]
    /\ of \in [Reqs -> Contracts \cup {NoContract}]
    /\ at \in [Reqs -> Slots \cup {NoSlot}]
    /\ conSlot \in [Contracts -> Slots \cup {NoSlot}]
    /\ pc \in {"idle", "rejects"} /\ follow \subseteq Slots
    /\ turn \in Seq([kind : {"subscribe", "bySymbol"}, con : Contracts]
                      \cup [kind : {"unsubscribe"}, slot : Slots])
    /\ direct \in Seq(Slots)
    /\ merges \in Seq([from : Slots, into : Slots, stale : BOOLEAN])
    /\ rejects \in Seq([slot : Slots, cancelled : BOOLEAN, stale : BOOLEAN])
    /\ con \in [Slots -> Contracts \cup {Unresolved, FREE_SLOT}]
    /\ conMap \in [Contracts -> Slots \cup {NoSlot}]
    /\ freeIds \in Seq(Slots) /\ active \in 0 .. MAX_INSTRUMENTS
    /\ slotsTold \in Seq((Contracts \cup {NoContract}) \X Slots)
    /\ lookups \subseteq [slot : Slots, con : Contracts]
    /\ lookupCancelled \subseteq Slots /\ parked \subseteq Slots
    /\ lotLookups \subseteq Contracts /\ defined \subseteq Contracts
    /\ running \subseteq Slots /\ unrouted \subseteq Slots /\ confirmed \subseteq Slots
    /\ losses \in 0 .. MaxLosses
    /\ misread \in BOOLEAN /\ leaked \subseteq Slots

Init ==
    /\ phase = [r \in Reqs |-> "none"] /\ of = [r \in Reqs |-> NoContract]
    /\ at = [r \in Reqs |-> NoSlot] /\ conSlot = [c \in Contracts |-> NoSlot]
    /\ pc = "idle" /\ follow = {}
    /\ turn = <<>> /\ direct = <<>> /\ merges = <<>> /\ rejects = <<>>
    /\ con = [s \in Slots |-> FREE_SLOT] /\ conMap = [c \in Contracts |-> NoSlot]
    /\ freeIds = <<>> /\ active = 0
    /\ slotsTold = <<>> /\ lookups = {} /\ lookupCancelled = {}
    /\ parked = {} /\ lotLookups = {} /\ defined = {}
    /\ running = {} /\ unrouted = {} /\ confirmed = {} /\ losses = 0
    /\ misread = FALSE /\ leaked = {}

-----------------------------------------------------------------------------
(***************************************************************************)
(* The slots of the engine.                                                *)
(***************************************************************************)
Requests(s) == {r \in Reqs : at[r] = s}              \* md_requests_of
Told(s)     == \E i \in DOMAIN slotsTold : slotsTold[i][2] = s
InLookup(s) == \E l \in lookups : l.slot = s

\* A top of book runs on the slot, or waits: a new request shares it.
JoinsTop(s) == s \in running \cup parked \/ InLookup(s)

\* The first slot of the contract, other than `except', a request can join.
RunningTopSlot(c, except) ==
    LET found == {s \in Slots \ {except} : con[s] = c /\ JoinsTop(s)}
    IN  IF found = {} THEN NoSlot ELSE CHOOSE s \in found : \A t \in found : s <= t

\* The slot a registration takes: the last one freed, else the next one.
NextSlot ==
    IF freeIds # <<>> THEN Last(freeIds)
    ELSE IF active < MAX_INSTRUMENTS THEN active + 1 ELSE NoSlot

TakeSlot(s) ==
    IF freeIds # <<>>
    THEN freeIds' = Front(freeIds) /\ UNCHANGED active
    ELSE active' = s /\ UNCHANGED freeIds

\* MarketState::try_register_unresolved, and the slot told for it.
TellUnresolved(s) ==
    /\ s = NextSlot /\ s # NoSlot
    /\ TakeSlot(s)
    /\ con' = [con EXCEPT ![s] = Unresolved]
    /\ slotsTold' = Append(slotsTold, <<NoContract, s>>)
    /\ UNCHANGED conMap

\* The MarketDataSlot arm for a conId: the slot of the contract's running
\* top of book, else the slot of its conId (MarketState::try_register).
TellSlot(c, s) ==
    LET found  == conMap[c]
        joined == IF found # NoSlot /\ JoinsTop(found) THEN NoSlot
                  ELSE RunningTopSlot(c, found)
    IN  /\ s # NoSlot
        /\ slotsTold' = Append(slotsTold, <<c, s>>)
        /\ \/ joined # NoSlot /\ s = joined /\ UNCHANGED table
           \/ joined = NoSlot /\ found # NoSlot /\ s = found /\ UNCHANGED table
           \/ /\ joined = NoSlot /\ found = NoSlot /\ s = NextSlot
              /\ TakeSlot(s)
              /\ con' = [con EXCEPT ![s] = c]
              /\ conMap' = [conMap EXCEPT ![c] = s]

\* MarketState::unregister
Unregister(s) ==
    /\ con' = [con EXCEPT ![s] = FREE_SLOT]
    /\ conMap' = [c \in Contracts |-> IF con[s] = c /\ conMap[c] = s THEN NoSlot ELSE conMap[c]]
    /\ freeIds' = Append(freeIds, s)
    /\ UNCHANGED active

-----------------------------------------------------------------------------
(***************************************************************************)
(* The client's calls.                                                     *)
(***************************************************************************)
\* The next request id is used.
Unused(r) == phase[r] = "none" /\ \A q \in 1 .. r - 1 : phase[q] # "none"

\* attach_md_request
Attach(r, c, s) ==
    /\ phase' = [phase EXCEPT ![r] = "open"]
    /\ of' = [of EXCEPT ![r] = c]
    /\ at' = [at EXCEPT ![r] = s]

\* The call fails when the table is full; the request is over.
TableFull(r, c) ==
    /\ NextSlot = NoSlot
    /\ phase' = [phase EXCEPT ![r] = "ended"]
    /\ of' = [of EXCEPT ![r] = c]
    /\ UNCHANGED <<at, conSlot, table, slotsTold, turn>>

\* History: a merge of slot `s' on its way, when the slot is told anew, is not
\* about the request it is told to.
ToldAnew(s) ==
    merges' = [i \in DOMAIN merges |-> [merges[i] EXCEPT !.stale = @ \/ merges[i].from = s]]

\* req_mkt_data with a conId: it joins a contract this client streams, else
\* its slot is told, after the commands sent before that are not paced, and
\* its command takes its turn.
ReqMktData(r, c) ==
    /\ pc = "idle" /\ Unused(r)
    /\ LET s == conSlot[c]
           streams == s # NoSlot /\ Requests(s) # {}
       IN
       \/ streams /\ Attach(r, c, s) /\ UNCHANGED <<conSlot, table, slotsTold, turn, merges>>
       \/ /\ ~streams /\ direct = <<>>
          /\ \E t \in Slots :
               /\ TellSlot(c, t)
               /\ Attach(r, c, t)
               /\ conSlot' = [conSlot EXCEPT ![c] = t]
               /\ turn' = Append(turn, Subscribe(c))
               /\ ToldAnew(t)
       \/ /\ ~streams /\ direct = <<>>
          /\ conMap[c] = NoSlot /\ RunningTopSlot(c, NoSlot) = NoSlot
          /\ TableFull(r, c)
          /\ UNCHANGED merges
    /\ UNCHANGED <<pass, direct, rejects, lookups, lookupCancelled, parked, lotLookups, defined, farm,
                   history>>

\* req_mkt_data by symbol: a slot of its own, and the contract is looked up.
ReqMktDataBySymbol(r, c) ==
    /\ pc = "idle" /\ Unused(r) /\ direct = <<>>
    /\ \/ \E s \in Slots :
            /\ TellUnresolved(s)
            /\ Attach(r, c, s)
            /\ turn' = Append(turn, SubscribeBySymbol(c))
            /\ UNCHANGED conSlot
       \/ TableFull(r, c)
    /\ UNCHANGED <<pass, direct, notes, lookups, lookupCancelled, parked, lotLookups, defined, farm,
                   history>>

\* forget_instrument
Forget(ss) == conSlot' = [c \in Contracts |-> IF conSlot[c] \in ss THEN NoSlot ELSE conSlot[c]]

\* History: the notes on their way when the slots `ss' are let go or refused.
Stale(ss, ms, js) ==
    /\ merges' = [i \in DOMAIN ms |-> [ms[i] EXCEPT !.stale = @ \/ {ms[i].from, ms[i].into} \cap ss # {}]]
    /\ rejects' = [i \in DOMAIN js |-> [js[i] EXCEPT !.stale = @ \/ js[i].slot \in ss]]

\* cancel_mkt_data: the subscription ends with the slot's last request.
CancelMktData(r) ==
    LET s == at[r] IN
    /\ pc = "idle" /\ s # NoSlot
    /\ phase' = [phase EXCEPT ![r] = "ended"]
    /\ at' = [at EXCEPT ![r] = NoSlot]
    /\ IF Requests(s) = {r}
       THEN Forget({s}) /\ turn' = Append(turn, Unsubscribe(s)) /\ Stale({s}, merges, rejects)
       ELSE UNCHANGED <<conSlot, turn, notes>>
    /\ UNCHANGED <<of, pass, direct, table, waits, farm, history>>

-----------------------------------------------------------------------------
(***************************************************************************)
(* The engine: commands, lookups and definitions.                          *)
(***************************************************************************)
\* route_md_subscribe: the subscription goes out, to be answered; where the
\* table of routes has no row for it (md_route), nothing is kept or told.
Route(ss) ==
    \E missed \in SUBSET ss :
       /\ running' = running \cup (ss \ missed)
       /\ unrouted' = (unrouted \ ss) \cup missed
       /\ UNCHANGED <<confirmed, losses>>

\* take_told_slot: the oldest slot told for a contract.
ToldAt(c) == CHOOSE i \in DOMAIN slotsTold :
    slotsTold[i][1] = c /\ \A j \in 1 .. i - 1 : slotsTold[j][1] # c

\* park_for_round_lot asks for the definition first; it does not when the
\* definition is known, or cannot be asked.
HandleSubscribe ==
    /\ turn # <<>> /\ Head(turn).kind = "subscribe"
    /\ turn' = Tail(turn)
    /\ LET c == Head(turn).con
           i == ToldAt(c)
           s == slotsTold[i][2]
       IN  /\ slotsTold' = RemoveAt(slotsTold, i)
           /\ \/ JoinsTop(s) /\ UNCHANGED <<parked, lotLookups, farm>>
              \/ /\ ~JoinsTop(s) /\ c \notin defined
                 /\ parked' = parked \cup {s}
                 /\ lotLookups' = lotLookups \cup {c}
                 /\ UNCHANGED farm
              \/ /\ ~JoinsTop(s) /\ (c \in defined \/ c \notin lotLookups)
                 /\ Route({s})
                 /\ UNCHANGED <<parked, lotLookups>>
    /\ UNCHANGED <<client, pass, direct, notes, table, lookups, lookupCancelled, defined, history>>

\* The SubscribeBySymbol arm: lookup_md_contract.
HandleBySymbol ==
    /\ turn # <<>> /\ Head(turn).kind = "bySymbol"
    /\ turn' = Tail(turn)
    /\ LET i == ToldAt(NoContract) IN
       /\ slotsTold' = RemoveAt(slotsTold, i)
       /\ lookups' = lookups \cup {[slot |-> slotsTold[i][2], con |-> Head(turn).con]}
    /\ UNCHANGED <<client, pass, direct, notes, table, lookupCancelled, parked, lotLookups, defined,
                   farm, history>>

\* Mutant: a slot told to a request that waits for its turn is reclaimed.
TryReclaimTold(s) == IF con[s] # FREE_SLOT THEN Unregister(s) ELSE UNCHANGED table

\* try_reclaim_instrument: not a slot told to a request that waits.
TryReclaim(s) ==
    IF con[s] # FREE_SLOT /\ ~Told(s) THEN Unregister(s) ELSE UNCHANGED table

\* The Unsubscribe arm: a lookup on its way ends the request when it
\* answers; else what waits or runs on the slot ends.
HandleUnsubscribe(s) ==
    \/ /\ InLookup(s)
       /\ lookupCancelled' = lookupCancelled \cup {s}
       /\ UNCHANGED <<table, parked, running, unrouted, confirmed>>
    \/ /\ ~InLookup(s)
       /\ parked' = parked \ {s}
       /\ running' = running \ {s} /\ confirmed' = confirmed \ {s}
       /\ unrouted' = unrouted \ {s}
       /\ TryReclaim(s)
       /\ UNCHANGED lookupCancelled

UnsubscribeInTurn ==
    /\ turn # <<>> /\ Head(turn).kind = "unsubscribe"
    /\ turn' = Tail(turn)
    /\ HandleUnsubscribe(Head(turn).slot)
    /\ UNCHANGED <<client, pass, direct, notes, slotsTold, lookups, lotLookups, defined, losses,
                   history>>

UnsubscribeDirect ==
    /\ direct # <<>>
    /\ direct' = Tail(direct)
    /\ HandleUnsubscribe(Head(direct))
    /\ UNCHANGED <<client, pass, turn, notes, slotsTold, lookups, lotLookups, defined, losses,
                   history>>

\* History: a note about slot `s' is stale when its cancel is on its way.
CancelOnItsWay(s) == s \in ToSet(direct) \/ Unsubscribe(s) \in ToSet(turn)

\* push_md_reject
PushReject(s, c) ==
    rejects' = Append(rejects, [slot |-> s, cancelled |-> c, stale |-> CancelOnItsWay(s)])

\* md_contract_reply, then send_md_resolved of the same poll: one contract
\* found, it joins a top of book that runs on another slot or is sent.
LookupFound(l) ==
    LET s == l.slot
        c == l.con
        into == RunningTopSlot(c, s)
    IN  /\ s \notin lookupCancelled
        /\ lookups' = lookups \ {l}
        /\ defined' = defined \cup {c}
        /\ con' = [con EXCEPT ![s] = c]
        /\ conMap' = IF conMap[c] = NoSlot THEN [conMap EXCEPT ![c] = s] ELSE conMap
        /\ IF into # NoSlot
           THEN /\ merges' = Append(merges, [from |-> s, into |-> into,
                                             stale |-> CancelOnItsWay(s) \/ CancelOnItsWay(into)])
                /\ UNCHANGED farm
           ELSE Route({s}) /\ UNCHANGED merges
        /\ UNCHANGED <<client, pass, queues, rejects, freeIds, active, slotsTold, lookupCancelled,
                       parked, lotLookups, history>>

\* Mutant: the reply after a cancel is told as any refusal.
LookupRefusedPlain(l) ==
    /\ lookups' = lookups \ {l}
    /\ lookupCancelled' = lookupCancelled \ {l.slot}
    /\ PushReject(l.slot, FALSE)
    /\ UNCHANGED <<client, pass, queues, merges, table, slotsTold, parked, lotLookups, defined, farm,
                   history>>

\* md_contract_reply with no single contract, or after a cancel.
LookupRefused(l) ==
    /\ lookups' = lookups \ {l}
    /\ lookupCancelled' = lookupCancelled \ {l.slot}
    /\ PushReject(l.slot, l.slot \in lookupCancelled)
    /\ UNCHANGED <<client, pass, queues, merges, table, slotsTold, parked, lotLookups, defined, farm,
                   history>>

\* sweep_md_lookups: no reply in time.
LookupTimesOut(l) ==
    /\ lookups' = lookups \ {l}
    /\ lookupCancelled' = lookupCancelled \ {l.slot}
    /\ PushReject(l.slot, FALSE)
    /\ leaked' = IF l.slot \in lookupCancelled THEN leaked \cup {l.slot} ELSE leaked
    /\ UNCHANGED <<client, pass, queues, merges, table, slotsTold, parked, lotLookups, defined, farm,
                   misread>>

\* Mutant: a reply drops what waits for other definitions.
DefinitionEndsAll(c, answered) ==
    /\ lotLookups' = lotLookups \ {c}
    /\ defined' = IF answered THEN defined \cup {c} ELSE defined
    /\ parked' = {}
    /\ Route({s \in parked : con[s] = c})
    /\ UNCHANGED <<client, pass, queues, notes, table, slotsTold, lookups, lookupCancelled, history>>

\* Mutant: a definition that times out releases nothing.
DefinitionEndsAnswered(c, answered) ==
    LET ready == {s \in parked : answered /\ con[s] = c} IN
    /\ lotLookups' = lotLookups \ {c}
    /\ defined' = IF answered THEN defined \cup {c} ELSE defined
    /\ parked' = parked \ ready
    /\ Route(ready)
    /\ UNCHANGED <<client, pass, queues, notes, table, slotsTold, lookups, lookupCancelled, history>>

\* round_lot_reply, or sweep_round_lot_lookups, then send_lot_ready: what
\* waited for the definition is sent.
DefinitionEnds(c, answered) ==
    LET ready == {s \in parked : con[s] = c} IN
    /\ lotLookups' = lotLookups \ {c}
    /\ defined' = IF answered THEN defined \cup {c} ELSE defined
    /\ parked' = parked \ ready
    /\ Route(ready)
    /\ UNCHANGED <<client, pass, queues, notes, table, slotsTold, lookups, lookupCancelled, history>>

-----------------------------------------------------------------------------
(***************************************************************************)
(* External: the farm's answers, and the loss of its link, after which     *)
(* every subscription is sent again (resend_unsent_subscriptions) that has *)
(* a route in the table of routes then.                                    *)
(***************************************************************************)
FarmConfirms(s) ==
    /\ s \in running \ (confirmed \cup unrouted)
    /\ confirmed' = confirmed \cup {s}
    /\ UNCHANGED <<client, pass, queues, notes, table, waits, running, unrouted, losses, history>>

\* handle_md_reject: the subscription stops; its slot is let go by its
\* requests.
FarmRefuses(s) ==
    /\ s \in running \ (confirmed \cup unrouted)
    /\ running' = running \ {s}
    /\ PushReject(s, FALSE)
    /\ UNCHANGED <<client, pass, queues, merges, table, waits, unrouted, confirmed, losses, history>>

FarmLost ==
    /\ losses < MaxLosses
    /\ losses' = losses + 1
    /\ confirmed' = {}
    /\ \E missed \in SUBSET running : unrouted' = (unrouted \ running) \cup missed
    /\ UNCHANGED <<client, pass, queues, notes, table, waits, running, history>>

-----------------------------------------------------------------------------
(***************************************************************************)
(* take_md_rejects: what the client reads of the engine, one queue at a    *)
(* time, and the commands that follow.                                     *)
(***************************************************************************)
\* The requests of a slot join the subscription the engine found for them;
\* their own slot is let go.
TakeMerges ==
    LET Moved(r) == {i \in DOMAIN merges : at[r] = merges[i].from}
        moving   == {r \in Reqs : Moved(r) # {}}
        Merge(r) == merges[CHOOSE i \in Moved(r) : \A j \in Moved(r) : i <= j]
    IN  /\ pc = "idle" /\ (merges # <<>> \/ rejects # <<>>)
        /\ pc' = "rejects"
        /\ merges' = <<>>
        /\ at' = [r \in Reqs |-> IF r \in moving THEN Merge(r).into ELSE at[r]]
        /\ follow' = {at[r] : r \in moving}
        /\ misread' = (misread \/ \E r \in moving : Merge(r).stale)
        /\ UNCHANGED <<phase, of, conSlot, queues, rejects, table, waits, farm, leaked>>

\* The requests of a refused slot end with it; the slot of a lookup
\* cancelled on its way is let go.  The commands of a pass are each of a slot
\* of its own: their order is of no matter, and they go out by slot.
TakeRejects ==
    LET Of(c)    == {rejects[i].slot : i \in {j \in DOMAIN rejects : rejects[j].cancelled = c}}
        ending   == {r \in Reqs : at[r] \in Of(FALSE)}
        emptied  == {at[r] : r \in ending}
        release  == emptied \cup Of(TRUE)
    IN  /\ pc = "rejects"
        /\ pc' = "idle"
        /\ follow' = {}
        /\ phase' = [r \in Reqs |-> IF r \in ending THEN "ended" ELSE phase[r]]
        /\ at' = [r \in Reqs |-> IF r \in ending THEN NoSlot ELSE at[r]]
        /\ Forget(emptied)
        /\ direct' = direct \o Ascending(follow) \o Ascending(release)
        /\ Stale(Of(FALSE), merges, <<>>)
        /\ misread' = (misread \/ \E i \in DOMAIN rejects :
                          ~rejects[i].cancelled /\ rejects[i].stale /\ rejects[i].slot \in emptied)
        /\ leaked' = leaked \cup {s \in release : Told(s)}
        /\ UNCHANGED <<of, turn, table, waits, farm>>

-----------------------------------------------------------------------------
Client ==
    \/ \E r \in Reqs, c \in Contracts : ReqMktData(r, c) \/ ReqMktDataBySymbol(r, c)
    \/ \E r \in Reqs : CancelMktData(r)

Dispatch == TakeMerges \/ TakeRejects

InTurn == HandleSubscribe \/ HandleBySymbol \/ UnsubscribeInTurn

Lookups ==
    \/ \E l \in lookups : LookupFound(l) \/ LookupRefused(l) \/ LookupTimesOut(l)
    \/ \E c \in lotLookups, answered \in BOOLEAN : DefinitionEnds(c, answered)

Answers == \E s \in Slots : FarmConfirms(s) \/ FarmRefuses(s)

Next == Client \/ Dispatch \/ InTurn \/ UnsubscribeDirect \/ Lookups \/ Answers \/ FarmLost

\* The client dispatches and the loop reads its commands; a lookup or a
\* definition is answered or times out, and the farm answers.
Fairness ==
    /\ WF_vars(Dispatch) /\ WF_vars(InTurn) /\ WF_vars(UnsubscribeDirect)
    /\ WF_vars(Lookups) /\ WF_vars(Answers)

Spec == Init /\ [][Next]_vars /\ Fairness

-----------------------------------------------------------------------------
(***************************************************************************)
(* Properties.                                                             *)
(***************************************************************************)
\* What the engine has for a slot runs, waits, or has an answer on its way,
\* or it had no route.
Waits(s) ==
    \/ JoinsTop(s) \/ Told(s) \/ s \in unrouted
    \/ \E i \in DOMAIN rejects : rejects[i].slot = s
    \/ \E i \in DOMAIN merges : merges[i].from = s

\* No request is forgotten (the Subscribe and Unsubscribe arms,
\* send_md_resolved, release_lot_parked): its slot runs, waits, or an answer
\* is on its way.  Left out: once a note was applied to other requests than
\* those it was about (misread), and a subscription the table of routes has no
\* row for (unrouted), of which nothing is kept: the code allows both.
NoRequestForgotten ==
    ~misread => \A r \in Reqs : at[r] # NoSlot => Waits(at[r])

\* The slot a request reads is of the contract it asks for, or not resolved
\* yet (try_reclaim_instrument: "A reused id would repoint those references
\* at the wrong contract"), but for a misread note.
ReadsItsContract ==
    ~misread => \A r \in Reqs : at[r] # NoSlot => con[at[r]] \in {Unresolved, of[r]}

Quiet ==
    /\ pc = "idle" /\ turn = <<>> /\ direct = <<>>
    /\ merges = <<>> /\ rejects = <<>> /\ lookups = {} /\ lotLookups = {}

\* A slot is given back when its last request ended (try_reclaim_instrument):
\* the table does not fill with slots nobody uses, but those of lookups
\* cancelled and then out of time (sweep_md_lookups), and those told to a
\* request whose command still waits for its turn when a refusal ends it.
SlotsGivenBack ==
    Quiet /\ ~misread =>
      \A s \in Slots : con[s] # FREE_SLOT => Requests(s) # {} \/ s \in leaked

\* In the end every request has its data or its end (poll_auth,
\* sweep_md_lookups, take_md_rejects), after a loss of the farm too, but for
\* a misread note and a subscription without a route.
Settled(r) == phase[r] # "open" \/ misread \/ at[r] \in confirmed \cup unrouted

EveryRequestSettles == <>[](\A r \in Reqs : Settled(r))
=============================================================================
