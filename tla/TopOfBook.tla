----------------------------- MODULE TopOfBook -----------------------------
(***************************************************************************)
(* The top-of-book subscriptions of the engine on the market data farm:    *)
(* their entries and ids (hot_loop/farm.rs), the server tags that bring    *)
(* the data to a slot (market_state.rs), and the passes in which requests  *)
(* and cancels leave (md_pass.rs), over a link that is lost and made       *)
(* again.                                                                  *)
(*                                                                         *)
(* Which slot is subscribed or let go is MarketSlots' matter: here it is   *)
(* any.  The entries of a subscription are one entry, and a price is the   *)
(* contract it belongs to.  The farm is external: it numbers the contracts *)
(* it serves by tags of its session.                                       *)
(***************************************************************************)
EXTENDS Naturals, Sequences, FiniteSets, SequencesExt, Picks

CONSTANTS
    Contracts,      \* the conIds
    MAX_INSTRUMENTS,
    MaxEntries,     \* bound: entries made
    MaxLosses,      \* bound: how often the link is lost
    NoContract

ASSUME TopOfBookAssumption ==
    /\ MAX_INSTRUMENTS \in Nat \ {0} /\ MaxEntries \in Nat /\ MaxLosses \in Nat
    /\ NoContract \notin Contracts

VARIABLES
    con,            \* instrument_to_con_id: NoContract for a free slot
    entries,        \* md_entries, instrument_md_reqs; `waiting': in md_req_to_instrument
    resub,          \* md_resub_info
    nextId,         \* next_md_req_id
    held,           \* MdPass.held
    tags,           \* server_tags: the slot of each tag
    ended,          \* ended_tags: the contract each tag was of, and its session
    kept,           \* the kept quote of each contract
    quote,          \* Context's quote of each slot
    shown,          \* the quote of each slot the clients read
    refused,        \* the slots whose refusal was told
    link,           \* the farm link, as the farm and the engine see it
    served,         \* external: the entries the farm serves, and their contracts
    tagOf,          \* external: the farm's tag of each contract, 0 for none
    wire,           \* external: the farm's messages on their way
    losses,
    mixed,          \* history: data of another session's tag was kept
    stray           \* history: entries served after their cancel left

subs    == <<entries, resub, nextId>>
prices  == <<tags, ended, kept, quote, shown>>
farm    == <<served, tagOf, wire>>
history == <<mixed, stray>>
vars    == <<con, subs, held, prices, refused, link, farm, losses, history>>

Slots  == 1 .. MAX_INSTRUMENTS
NoSlot == 0
Ids    == 1 .. MaxEntries
Tags   == 1 .. Cardinality(Contracts)
NoTag  == [con |-> NoContract, session |-> 0]

SubMsg(i, c)    == [kind |-> "sub", id |-> i, con |-> c]
CancelMsg(i, c) == [kind |-> "cancel", id |-> i, con |-> c]
AckMsg(i, t)    == [kind |-> "ack", id |-> i, tag |-> t]
RejectMsg(i)    == [kind |-> "reject", id |-> i]
TickMsg(t, c)   == [kind |-> "tick", tag |-> t, con |-> c]

\* The engine's messages, and the farm's.
Orders   == [kind : {"sub", "cancel"}, id : Ids, con : Contracts]
Messages ==      [kind : {"ack"}, id : Ids, tag : Tags] \cup [kind : {"reject"}, id : Ids]
            \cup [kind : {"tick"}, tag : Tags, con : Contracts]

\* The messages of one kind, in their order.
OfKind(msgs, kind) == Kept(msgs, {m \in ToSet(msgs) : m.kind = kind})

TypeOK ==
    /\ con \in [Slots -> Contracts \cup {NoContract}]
    /\ DOMAIN entries \subseteq Ids
    /\ \A i \in DOMAIN entries :
         entries[i] \in [slot : Slots, con : Contracts, waiting : BOOLEAN]
    /\ resub \in Seq(Slots) /\ nextId \in 1 .. MaxEntries + 1
    /\ held \in Seq(Orders)
    /\ tags \in [Tags -> Slots \cup {NoSlot}]
    /\ ended \in [Tags -> [con : Contracts \cup {NoContract}, session : 0 .. MaxLosses]]
    /\ kept \in [Contracts -> Contracts \cup {NoContract}]
    /\ quote \in [Slots -> Contracts \cup {NoContract}]
    /\ shown \in [Slots -> Contracts \cup {NoContract}]
    /\ refused \subseteq Slots
    /\ link \in {"up", "lost", "down"}
    /\ served \subseteq Ids \X Contracts /\ tagOf \in [Contracts -> Tags \cup {0}]
    /\ wire \in Seq(Messages)
    /\ losses \in 0 .. MaxLosses
    /\ mixed \in BOOLEAN /\ stray \subseteq Ids

Init ==
    /\ con = [s \in Slots |-> NoContract]
    /\ entries = <<>> /\ resub = <<>> /\ nextId = 1 /\ held = <<>>
    /\ tags = [t \in Tags |-> NoSlot] /\ ended = [t \in Tags |-> NoTag]
    /\ kept = [c \in Contracts |-> NoContract]
    /\ quote = [s \in Slots |-> NoContract] /\ shown = [s \in Slots |-> NoContract]
    /\ refused = {}
    /\ link = "up" /\ served = {} /\ tagOf = [c \in Contracts |-> 0] /\ wire = <<>>
    /\ losses = 0 /\ mixed = FALSE /\ stray = {}

-----------------------------------------------------------------------------
EntriesOf(s) == {i \in DOMAIN entries : entries[i].slot = s}

\* History: the farm session the tags are of.
Session == IF link = "up" THEN losses ELSE losses - 1

\* The id waits for its answer (md_req_to_instrument).
Awaited(i) == i \in DOMAIN entries /\ entries[i].waiting

\* subscribe_top for the slots `ss' in order, after the entries `have': an
\* entry each, the subscription kept for the next reconnect.
SubscribeTop(ss, have) ==
    /\ nextId + Len(ss) <= MaxEntries + 1
    /\ nextId' = nextId + Len(ss)
    /\ entries' = [i \in DOMAIN have \cup nextId .. nextId' - 1 |->
                     IF i < nextId THEN have[i]
                     ELSE [slot |-> ss[i - nextId + 1], con |-> con'[ss[i - nextId + 1]],
                           waiting |-> TRUE]]
    /\ resub' = resub \o Kept(ss, Slots \ ToSet(resub))

\* The messages of those entries.
SubMsgs(ss) == [k \in DOMAIN ss |-> SubMsg(nextId + k - 1, con'[ss[k]])]

\* Mutant: the cancels of a subscription are not sent.
NoCancelMsgs(ss) == <<>>

\* cancel_top_entries: the entries of the slots are forgotten, newest first.
CancelMsgs(ss) ==
    LET ids == Descending({i \in DOMAIN entries : entries[i].slot \in ss})
    IN  [k \in DOMAIN ids |-> CancelMsg(ids[k], entries[ids[k]].con)]

Without(ss) == [i \in {j \in DOMAIN entries : entries[j].slot \notin ss} |-> entries[i]]

-----------------------------------------------------------------------------
(***************************************************************************)
(* External: what the farm does with the messages that reach it.           *)
(***************************************************************************)
Serve(msgs, no) ==
    LET Ended(i, k) == \E j \in k + 1 .. Len(msgs) : msgs[j].kind = "cancel" /\ msgs[j].id = i
        asked == {k \in DOMAIN msgs : msgs[k].kind = "sub" /\ msgs[k].id \notin no}
    IN  {e \in served : ~Ended(e[1], 0)}
          \cup {<<msgs[k].id, msgs[k].con>> : k \in {j \in asked : ~Ended(msgs[j].id, j)}}

\* The messages leave: they are lost on a lost or absent link; else the farm
\* serves each subscription, under a tag of its contract, or refuses it; its
\* answers follow what it sent `before'.
Send(msgs, before) ==
    LET asked == OfKind(msgs, "sub") IN
    \/ link # "up" /\ wire' = before /\ UNCHANGED <<served, tagOf, stray>>
    \/ /\ link = "up"
       /\ \E no \in SUBSET {asked[k].id : k \in DOMAIN asked}, t \in [Contracts -> Tags \cup {0}] :
            LET new == {asked[k].con : k \in {j \in DOMAIN asked : asked[j].id \notin no}} IN
            /\ \A c \in Contracts : IF tagOf[c] = 0 /\ c \in new THEN t[c] # 0 ELSE t[c] = tagOf[c]
            /\ \A c, d \in Contracts : c # d /\ t[c] # 0 => t[c] # t[d]
            /\ tagOf' = t
            /\ served' = Serve(msgs, no)
            /\ wire' = before \o [k \in DOMAIN asked |->
                         IF asked[k].id \in no THEN RejectMsg(asked[k].id)
                         ELSE AckMsg(asked[k].id, t[asked[k].con])]
            /\ stray' = stray \cup
                 {e[1] : e \in {f \in served' \ served : f[1] \notin DOMAIN entries'}}

\* Data of a contract the farm serves.
FarmTick(c) ==
    /\ link = "up" /\ \E e \in served : e[2] = c
    /\ TickMsg(tagOf[c], c) \notin ToSet(wire)
    /\ wire' = Append(wire, TickMsg(tagOf[c], c))
    /\ UNCHANGED <<con, subs, held, prices, refused, link, served, tagOf, losses, history>>

-----------------------------------------------------------------------------
(***************************************************************************)
(* The engine.                                                             *)
(***************************************************************************)
\* route_md_subscribe of a slot just registered for the contract, or kept
\* for it: the message waits for the next pass.  A contract has one slot.
Subscribe(s, c) ==
    /\ \A t \in Slots \ {s} : con[t] # c
    /\ con[s] \in {c, NoContract} /\ s \notin ToSet(resub)
    /\ con' = [con EXCEPT ![s] = c]
    /\ SubscribeTop(<<s>>, entries)
    /\ held' = held \o SubMsgs(<<s>>)
    /\ refused' = refused \ {s}
    /\ UNCHANGED <<prices, link, farm, losses, history>>

\* Mutant: every tag goes with a freed slot.
UnregisterTags(s) ==
    LET c == con[s] IN
    /\ con' = [con EXCEPT ![s] = NoContract]
    /\ ended' = [t \in Tags |-> IF tags[t] = s THEN [con |-> c, session |-> Session] ELSE ended[t]]
    /\ tags' = [t \in Tags |-> NoSlot]
    /\ kept' = IF quote[s] # NoContract THEN [kept EXCEPT ![c] = quote[s]] ELSE kept
    /\ quote' = [quote EXCEPT ![s] = NoContract]
    /\ shown' = [shown EXCEPT ![s] = NoContract]

\* MarketState::unregister, and the shared quote: the slot is free, its
\* quote is kept, and so are its tags for the data that still comes.
Unregister(s) ==
    LET c == con[s] IN
    /\ con' = [con EXCEPT ![s] = NoContract]
    /\ ended' = [t \in Tags |-> IF tags[t] = s THEN [con |-> c, session |-> Session] ELSE ended[t]]
    /\ tags' = [t \in Tags |-> IF tags[t] = s THEN NoSlot ELSE tags[t]]
    /\ kept' = IF quote[s] # NoContract THEN [kept EXCEPT ![c] = quote[s]] ELSE kept
    /\ quote' = [quote EXCEPT ![s] = NoContract]
    /\ shown' = [shown EXCEPT ![s] = NoContract]

\* route_md_cancel: the subscription and its entries go; then the slot is
\* reclaimed, unless the next request of its contract was told it.
Unsubscribe(s, reclaimed) ==
    /\ con[s] # NoContract
    /\ resub' = Kept(resub, Slots \ {s})
    /\ entries' = Without({s})
    /\ held' = held \o CancelMsgs({s})
    /\ IF reclaimed THEN Unregister(s) ELSE UNCHANGED <<con, prices>>
    /\ UNCHANGED <<nextId, refused, link, farm, losses, history>>

\* md_pass.rs group: the messages of one action become one, at the place of
\* the first of them.
Group(msgs) ==
    LET first == Head(msgs).kind
    IN  OfKind(msgs, first) \o OfKind(msgs, IF first = "sub" THEN "cancel" ELSE "sub")

\* send_due_md_pass
SendPass ==
    /\ held # <<>>
    /\ held' = <<>>
    /\ UNCHANGED <<con, subs, prices, refused, link, losses, mixed>>
    /\ Send(Group(held), wire)

\* resubscribe_market_data, after a change of the data permissions: the
\* entries are cancelled at once, the subscriptions wait for the next pass.
PermissionChange ==
    /\ resub # <<>>
    /\ UNCHANGED <<con, prices, refused, link, losses, mixed>>
    /\ SubscribeTop(resub, Without(ToSet(resub)))
    /\ held' = held \o SubMsgs(resub)
    /\ Send(CancelMsgs(ToSet(resub)), wire)

\* give_kept_quote: the kept quote of the contract, when no data came yet.
GiveKept(s) ==
    LET k == kept[con[s]] IN
    /\ kept' = [kept EXCEPT ![con[s]] = NoContract]
    /\ IF quote[s] = NoContract /\ k # NoContract
       THEN quote' = [quote EXCEPT ![s] = k] /\ shown' = [shown EXCEPT ![s] = k]
       ELSE UNCHANGED <<quote, shown>>

\* handle_subscription_ack: the tag leads to the slot.  An id not waited for
\* is dropped.
ReadAck(i, t) ==
    /\ IF Awaited(i)
       THEN /\ entries' = [entries EXCEPT ![i].waiting = FALSE]
            /\ tags' = [tags EXCEPT ![t] = entries[i].slot]
            /\ ended' = [ended EXCEPT ![t] = NoTag]
            /\ GiveKept(entries[i].slot)
       ELSE UNCHANGED <<entries, prices>>
    /\ wire' = Tail(wire)
    /\ UNCHANGED <<con, resub, nextId, refused, served, tagOf, history>>

\* handle_md_reject: asked again at once with delayed data, its ids kept; or
\* the subscription stops, and its entries stay until its requests end.
ReadReject(i) ==
    LET s == entries[i].slot IN
    /\ UNCHANGED <<con, prices, mixed>>
    /\ \/ ~Awaited(i) /\ wire' = Tail(wire) /\ UNCHANGED <<subs, refused, served, tagOf, stray>>
       \/ /\ Awaited(i)
          /\ resub' = Kept(resub, Slots \ {s})
          /\ refused' = refused \cup {s}
          /\ wire' = Tail(wire)
          /\ UNCHANGED <<entries, nextId, served, tagOf, stray>>
       \/ /\ Awaited(i) /\ s \in ToSet(resub)
          /\ SubscribeTop(<<s>>, entries)
          /\ Send(SubMsgs(<<s>>), Tail(wire))
          /\ UNCHANGED refused

\* handle_tick_data: to the slot of the tag, else (apply_ended_tick) to the
\* kept quote of the contract whose freed slot had the tag.
ReadTick(t, d) ==
    LET c == ended[t].con IN
    /\ IF tags[t] # NoSlot
       THEN /\ quote' = [quote EXCEPT ![tags[t]] = d]
            /\ shown' = [shown EXCEPT ![tags[t]] = d]
            /\ UNCHANGED <<kept, mixed>>
       ELSE /\ IF c # NoContract /\ kept[c] # NoContract
               THEN /\ kept' = [kept EXCEPT ![c] = d]
                    /\ mixed' = (mixed \/ ended[t].session # Session)
               ELSE UNCHANGED <<kept, mixed>>
            /\ UNCHANGED <<quote, shown>>
    /\ wire' = Tail(wire)
    /\ UNCHANGED <<con, tags, ended, subs, refused, served, tagOf, stray>>

ReadFarm ==
    /\ wire # <<>>
    /\ LET m == Head(wire) IN
       \/ m.kind = "ack" /\ ReadAck(m.id, m.tag)
       \/ m.kind = "reject" /\ ReadReject(m.id)
       \/ m.kind = "tick" /\ ReadTick(m.tag, m.con)
    /\ UNCHANGED <<held, link, losses>>

\* External: the link is lost, and the farm's session with it.
LinkLost ==
    /\ link = "up" /\ losses < MaxLosses
    /\ link' = "lost" /\ losses' = losses + 1
    /\ served' = {} /\ tagOf' = [c \in Contracts |-> 0]
    /\ UNCHANGED <<con, subs, held, prices, refused, wire, history>>

\* Mutant: the tags of the lost session stay.
FarmLostTagsStay ==
    /\ quote' = [s \in Slots |-> IF EntriesOf(s) # {} THEN NoContract ELSE quote[s]]
    /\ UNCHANGED <<tags, ended, kept, shown>>

\* farm_lost: tags are gone and quotes zeroed.
FarmLost ==
    /\ quote' = [s \in Slots |-> IF EntriesOf(s) # {} THEN NoContract ELSE quote[s]]
    /\ tags' = [t \in Tags |-> NoSlot]
    /\ UNCHANGED <<ended, kept, shown>>

\* handle_disconnect: the entries are gone, the subscriptions stay.
NoticeLoss ==
    /\ link = "lost"
    /\ link' = "down" /\ wire' = <<>>
    /\ entries' = <<>>
    /\ FarmLost
    /\ UNCHANGED <<con, resub, nextId, held, refused, served, tagOf, losses, history>>

\* Mutant: the entries made while the link was down are taken for sent.
ReconnectKeeps ==
    LET unsent == Kept(resub, {s \in Slots : EntriesOf(s) = {}}) IN
    /\ link = "down"
    /\ link' = "up"
    /\ UNCHANGED con
    /\ FarmLost
    /\ SubscribeTop(unsent, entries)
    /\ held' = held \o SubMsgs(unsent)
    /\ UNCHANGED <<refused, farm, losses, history>>

\* reconnect_farm: entries made while the link was down never reached the
\* farm; every subscription is sent again.
Reconnect ==
    /\ link = "down"
    /\ link' = "up"
    /\ UNCHANGED con
    /\ FarmLost
    /\ SubscribeTop(resub, <<>>)
    /\ held' = held \o SubMsgs(resub)
    /\ UNCHANGED <<refused, farm, losses, history>>

-----------------------------------------------------------------------------
Next ==
    \/ \E s \in Slots, c \in Contracts : Subscribe(s, c)
    \/ \E s \in Slots, reclaimed \in BOOLEAN : Unsubscribe(s, reclaimed)
    \/ SendPass \/ PermissionChange \/ ReadFarm
    \/ \E c \in Contracts : FarmTick(c)
    \/ LinkLost \/ NoticeLoss \/ Reconnect

Spec == Init /\ [][Next]_vars

-----------------------------------------------------------------------------
(***************************************************************************)
(* Properties.                                                             *)
(***************************************************************************)
\* The price a slot shows is of the contract registered there: no late
\* acknowledgement (cancel_top_entries), no tag of an earlier session
\* (clear_farm_tags) and no earlier use of the slot (unregister) brings the
\* price of another.  Data that came under an ended tag of an earlier
\* session is left out: ended_tags is not cleared with the link.
PriceOfItsContract ==
    ~mixed => \A s \in Slots : shown[s] \in {NoContract, con[s]}

\* Once the messages left and the link is up, the farm serves every
\* subscription or its refusal is on its way (farm_lost, reconnect_farm,
\* resubscribe_market_data): none is lost with a link or a permission change.
AskedWhenUp ==
    link = "up" /\ held = <<>> =>
      \A s \in ToSet(resub) : \E i \in EntriesOf(s) :
        <<i, con[s]>> \in served \/ RejectMsg(i) \in ToSet(wire)

\* The farm serves nothing the engine let go (cancel_top_entries), but the
\* entries whose cancel left before their request: in one pass (group), at a
\* permission change, or held over a reconnect.
NothingLeftServed ==
    held = <<>> => \A e \in served : e[1] \in DOMAIN entries \cup stray

\* The data of a contract a subscription was acknowledged for reaches a slot
\* of the contract (register_farm_tag_sized, drop of tags in unregister).
DataHasASlot ==
    link = "up" =>
      \A i \in DOMAIN entries : ~entries[i].waiting =>
        \E t \in Tags : tags[t] # NoSlot /\ con[tags[t]] = entries[i].con
=============================================================================
