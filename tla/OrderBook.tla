----------------------------- MODULE OrderBook -----------------------------
(***************************************************************************)
(* The orders of the engine against the server: the requests that go out   *)
(* (order_builder.rs), the reports that come back (ccp.rs) and the order   *)
(* table between them (context.rs), over a link that is lost and made      *)
(* again.                                                                  *)
(*                                                                         *)
(* A request reaches the server in the step that sends it: what the engine *)
(* knows of it is as late as the reports in `wire'.  A request written on  *)
(* a lost link the engine has not noticed yet is lost, or its write fails. *)
(* The server is external: it is modelled from what the handlers and their *)
(* comments expect of it.  Every order buys `Qty' shares of one contract,  *)
(* one share an execution, and is held under its server id.                *)
(***************************************************************************)
EXTENDS Integers, Sequences, FiniteSets, SequencesExt

CONSTANTS
    Orders,         \* the order ids
    Qty,            \* the executions that fill an order
    Window,         \* EXEC_ID_WINDOW
    MaxExecs,       \* bound: executions
    MaxLosses,      \* bound: how often the link is lost
    MaxRequests     \* bound: requests of the client

ASSUME OrderBookAssumption ==
    /\ IsFiniteSet(Orders)
    /\ Qty \in Nat \ {0} /\ Window \in Nat \ {0}
    /\ MaxExecs \in Nat /\ MaxLosses \in Nat /\ MaxRequests \in Nat

VARIABLES
    srv,            \* external: the state of each order on the server
    srvVer,         \* external: the version of its ClOrdID on the server's record
    execs,          \* external: the order of each execution, oldest first
    link,           \* the auth link, as the engine and the server see it
    wire,           \* the reports on their way to the engine
    pend,           \* Context.pending_orders, at most one
    walk,           \* the orders a global cancel has still to go through
    held,           \* Context.open_orders: the status of each order held
    version,        \* Context.modify_versions, 0 for none
    lastClord,      \* Context.last_clord: its version, or NoClord
    cancelClord,    \* Context.cancel_clord: its version, or NoClord
    queries,        \* Context.status_queries
    finished,       \* Context.finished_orders
    seen,           \* CcpState.exec_id_order, and seen_exec_ids
    lastExec,       \* CcpState.last_exec, 0 for none
    fillUp,         \* CcpState.fill_up_pending
    replay,         \* CcpState.awaiting_status_replay
    position,       \* Context.positions of the contract
    told,           \* the last status of each order given to the client
    completed,      \* the completed records of each order
    counted,        \* history: the executions booked
    evicted,        \* history: those of them the window of ids has let go
    recounted,      \* history: how many of these were booked once more
    dropped,        \* history: the orders dropped as not sent
    early, hole,    \* history: a live fill was read during a fill-up; a loss cut it
    losses, requests

server == <<srv, srvVer, execs>>
table  == <<held, version, lastClord, cancelClord, queries, finished>>
books  == <<seen, lastExec, position, counted, evicted, recounted>>
client == <<told, completed, dropped>>
asked  == <<fillUp, replay, early, hole>>
bounds == <<losses, requests>>
vars   == <<server, link, wire, pend, walk, table, books, client, asked, bounds>>

None    == "none"
NoClord == -1

Status   == {"PendingSubmit", "PreSubmitted", "Submitted", "PendingCancel",
             "PartiallyFilled", "Filled", "Cancelled", "Rejected"}
Terminal == {"Filled", "Cancelled", "Rejected"}        \* OrderStatus::is_terminal

\* OrderStatus::rank
Rank == [s \in Status |->
    CASE s = "PendingSubmit" -> 1
      [] s = "PreSubmitted"  -> 2
      [] s = "Submitted"     -> 3
      [] s \in {"PendingCancel", "PartiallyFilled"} -> 4
      [] OTHER -> 5]

Request ==
    [kind : {"new", "cancel", "modify"}, o : Orders] \cup [kind : {"global"}]

(***************************************************************************)
(* The reports: an execution, a report of an order's status (an answer to  *)
(* a status request when `query'), a refused cancel or modify, and the end *)
(* marks of the trades reply and of the status replay.                     *)
(***************************************************************************)
Fill(n, v, live)      == [kind |-> "fill", n |-> n, ver |-> v, live |-> live]
Report(o, v, st, q)   == [kind |-> "order", o |-> o, ver |-> v, st |-> st, query |-> q]
CancelReject(o, v)    == [kind |-> "reject", o |-> o, ver |-> v]
EndTrades             == [kind |-> "endTrades"]
EndReplay             == [kind |-> "endReplay"]

TypeOK ==
    /\ srv \in [Orders -> {None, "working", "filled", "cancelled", "rejected"}]
    /\ srvVer \in [Orders -> Nat]
    /\ execs \in Seq(Orders) /\ Len(execs) <= MaxExecs
    /\ link \in {"up", "down", "noticed", "relogin"}
    /\ pend \in Seq(Request) /\ Len(pend) <= 1
    /\ walk \subseteq Orders /\ queries \subseteq Orders /\ dropped \subseteq Orders
    /\ held \in [Orders -> (Status \ Terminal) \cup {None}]
    /\ version \in [Orders -> Nat]
    /\ lastClord \in [Orders -> Nat \cup {NoClord}]
    /\ cancelClord \in [Orders -> Nat \cup {NoClord}]
    /\ finished \in [Orders -> Terminal \cup {None}]
    /\ seen \in Seq(1 .. MaxExecs) /\ Len(seen) <= Window
    /\ lastExec \in 0 .. MaxExecs /\ position \in Nat /\ counted \subseteq 1 .. MaxExecs
    /\ evicted \subseteq 1 .. MaxExecs /\ recounted \in Nat
    /\ fillUp \in BOOLEAN /\ replay \in BOOLEAN /\ early \in BOOLEAN /\ hole \in BOOLEAN
    /\ told \in [Orders -> Status \cup {None, "forgotten"}]
    /\ completed \in [Orders -> Nat]
    /\ losses \in 0 .. MaxLosses /\ requests \in 0 .. MaxRequests

Init ==
    /\ srv = [o \in Orders |-> None] /\ srvVer = [o \in Orders |-> 0] /\ execs = <<>>
    /\ link = "up" /\ wire = <<>>
    /\ pend = <<>> /\ walk = {}
    /\ held = [o \in Orders |-> None] /\ version = [o \in Orders |-> 0]
    /\ lastClord = [o \in Orders |-> NoClord] /\ cancelClord = [o \in Orders |-> NoClord]
    /\ queries = {} /\ finished = [o \in Orders |-> None]
    /\ seen = <<>> /\ lastExec = 0 /\ position = 0 /\ counted = {}
    /\ evicted = {} /\ recounted = 0
    /\ fillUp = FALSE /\ replay = FALSE /\ early = FALSE /\ hole = FALSE
    /\ told = [o \in Orders |-> None] /\ completed = [o \in Orders |-> 0] /\ dropped = {}
    /\ losses = 0 /\ requests = 0

-----------------------------------------------------------------------------
(***************************************************************************)
(* External: the server.                                                   *)
(***************************************************************************)
\* The executions of an order up to the n-th of the day.
FillsUpTo(o, n) == Cardinality({i \in 1 .. n : execs[i] = o})

\* The report of execution n ends its order (151 = 0, 39 = 2).
Ends(n) == FillsUpTo(execs[n], n) = Qty

\* The answer to a status request: the order as it works, or rejected when
\* the server has it no longer.
StatusAnswer(o) ==
    CASE srv[o] # "working"            -> Report(o, srvVer[o], "8", TRUE)
      [] FillsUpTo(o, Len(execs)) > 0  -> Report(o, srvVer[o], "1", TRUE)
      [] OTHER                         -> Report(o, srvVer[o], "0", TRUE)

\* A report the server sends by itself reaches a session that is logged on.
Emit(reports) ==
    wire' = IF link \in {"up", "relogin"} THEN wire \o reports ELSE wire

\* An order works until its quantity is done.
ServerFills(o) ==
    /\ srv[o] = "working"
    /\ Len(execs) < MaxExecs
    /\ execs' = Append(execs, o)
    /\ srv' = [srv EXCEPT ![o] =
                 IF FillsUpTo(o, Len(execs)) + 1 = Qty THEN "filled" ELSE @]
    /\ Emit(<<Fill(Len(execs) + 1, srvVer[o], TRUE)>>)
    /\ UNCHANGED <<srvVer, link, pend, walk, table, books, client, asked, bounds>>

\* An order the server ends by itself (its time in force is over).
ServerCancels(o) ==
    /\ srv[o] = "working"
    /\ srv' = [srv EXCEPT ![o] = "cancelled"]
    /\ Emit(<<Report(o, srvVer[o], "4", FALSE)>>)
    /\ UNCHANGED <<srvVer, execs, link, pend, walk, table, books, client, asked, bounds>>

TakesNew(o) ==
    /\ srv[o] = None
    /\ \/ /\ srv' = [srv EXCEPT ![o] = "working"]
          /\ wire' = Append(wire, Report(o, 0, "0", FALSE))
       \/ /\ srv' = [srv EXCEPT ![o] = "rejected"]
          /\ wire' = Append(wire, Report(o, 0, "8", FALSE))
    /\ UNCHANGED <<srvVer, execs>>

Refuses(o, v) == wire' = Append(wire, CancelReject(o, v)) /\ UNCHANGED server

\* A cancel or a modify names the ClOrdID on the server's record; the server
\* may refuse it all the same.
TakesCancel(o, v, orig) ==
    \/ /\ srv[o] = "working" /\ orig = srvVer[o]
       /\ srv' = [srv EXCEPT ![o] = "cancelled"]
       /\ wire' = Append(wire, Report(o, v, "4", FALSE))
       /\ UNCHANGED <<srvVer, execs>>
    \/ Refuses(o, v)

TakesModify(o, v, orig) ==
    \/ /\ srv[o] = "working" /\ orig = srvVer[o]
       /\ srvVer' = [srvVer EXCEPT ![o] = v]
       /\ wire' = wire \o <<Report(o, v, "6", FALSE), Report(o, v, "5", FALSE)>>
       /\ UNCHANGED <<srv, execs>>
    \/ Refuses(o, v)

-----------------------------------------------------------------------------
(***************************************************************************)
(* The requests of the client, and the pass that sends them.               *)
(***************************************************************************)
Disconnected == link \in {"noticed", "relogin"}

\* ControlCommand::Order: the request joins the pending ones.  A client
\* places an id once.
Command(r) ==
    /\ pend = <<>>
    /\ requests < MaxRequests
    /\ r.kind = "new" => srv[r.o] = None /\ held[r.o] = None /\ told[r.o] = None
    /\ pend' = <<r>>
    /\ requests' = requests + 1
    /\ UNCHANGED <<server, link, wire, walk, table, books, client, asked, losses>>

\* drain_and_send_orders: nothing goes out while disconnected.
Drain(kind) == ~Disconnected /\ walk = {} /\ pend # <<>> /\ Head(pend).kind = kind /\ pend' = <<>>

\* Context::drop_unsent_order, and the Rejected status (ibx#116).
DropUnsent(o) ==
    /\ held' = [held EXCEPT ![o] = None]
    /\ version' = [version EXCEPT ![o] = 0]
    /\ lastClord' = [lastClord EXCEPT ![o] = NoClord]
    /\ cancelClord' = [cancelClord EXCEPT ![o] = NoClord]
    /\ queries' = queries \ {o}
    /\ told' = [told EXCEPT ![o] = "Rejected"]
    /\ dropped' = dropped \cup {o}
    /\ UNCHANGED <<finished, completed>>

\* The write of a request is lost with a link that is down.
WriteLost  == link = "down" /\ UNCHANGED <<server, wire>>
WriteFails == link = "down" /\ UNCHANGED <<server, wire>>

\* A new order is in the table before it is written.
SendNew ==
    /\ Drain("new")
    /\ LET o == Head(pend).o IN
        \/ /\ (link = "up" /\ TakesNew(o)) \/ WriteLost
           /\ held' = [held EXCEPT ![o] = "PendingSubmit"]
           /\ UNCHANGED <<version, lastClord, cancelClord, queries, finished, client>>
        \/ WriteFails /\ DropUnsent(o)
    /\ UNCHANGED <<link, walk, books, asked, bounds>>

\* cancel_fields: the next version, under the ClOrdID last reported.
Orig(o) == IF lastClord[o] # NoClord THEN lastClord[o] ELSE version[o]

CancelFields(o) ==
    /\ version' = [version EXCEPT ![o] = @ + 1]
    /\ cancelClord' = [cancelClord EXCEPT ![o] = version[o] + 1]
    /\ UNCHANGED <<lastClord, queries, finished>>

\* synthesize_pending_cancel
PendingCancel(o) == held' = [held EXCEPT ![o] = "PendingCancel"]

CancelWritten(o) ==
    /\ (link = "up" /\ TakesCancel(o, version[o] + 1, Orig(o))) \/ WriteLost
    /\ CancelFields(o)
    /\ PendingCancel(o)
    /\ UNCHANGED client

\* cancel_refusal: the order is not there, or its cancel is pending.
Cancellable(o) == held[o] \notin {None, "PendingCancel"}

SendCancel ==
    /\ Drain("cancel")
    /\ LET o == Head(pend).o IN
        \/ Cancellable(o) /\ CancelWritten(o)
        \/ Cancellable(o) /\ WriteFails /\ DropUnsent(o)
        \/ ~Cancellable(o) /\ UNCHANGED <<server, wire, table, client>>
    /\ UNCHANGED <<link, walk, books, asked, bounds>>

\* The Modify arm: the ClOrdID on record is the one about to be sent.
SendModify ==
    /\ Drain("modify")
    /\ LET o == Head(pend).o IN
        \/ /\ Cancellable(o)
           /\ (link = "up" /\ TakesModify(o, version[o] + 1, Orig(o))) \/ WriteLost
           /\ version' = [version EXCEPT ![o] = @ + 1]
           /\ lastClord' = [lastClord EXCEPT ![o] = version[o] + 1]
           /\ UNCHANGED <<held, cancelClord, queries, finished, client>>
        \/ Cancellable(o) /\ WriteFails /\ DropUnsent(o)
        \/ ~Cancellable(o) /\ UNCHANGED <<server, wire, table, client>>
    /\ UNCHANGED <<link, walk, books, asked, bounds>>

\* global_cancel goes through the book; the order of the book is left out.
StartGlobalCancel ==
    /\ Drain("global")
    /\ walk' = {o \in Orders : Cancellable(o)}
    /\ UNCHANGED <<server, link, wire, table, books, client, asked, bounds>>

\* The cancel of one order of the walk; a failed write is only logged.
WalkCancel(o) ==
    /\ o \in walk
    /\ walk' = walk \ {o}
    /\ \/ CancelWritten(o)
       \/ WriteFails /\ CancelFields(o) /\ UNCHANGED <<held, client>>
    /\ UNCHANGED <<link, pend, books, asked, bounds>>

-----------------------------------------------------------------------------
(***************************************************************************)
(* The reports.                                                            *)
(***************************************************************************)
Reading == ~Disconnected /\ walk = {} /\ wire # <<>>

\* The status an order not held is put in the book with, by the report's.
RecoveredStatus(st) ==
    CASE st \in {"0", "5"} -> "Submitted"
      [] st = "1"          -> "PartiallyFilled"
      [] st = "6"          -> "PendingCancel"
      [] OTHER             -> None

\* The status of the order as a report finds it: an order that is not held
\* and did not end here, reported working, is put in the book.
Found(o, st) ==
    IF held[o] = None /\ finished[o] = None THEN RecoveredStatus(st) ELSE held[o]

\* Its version is then the server's.
NoteVersion(o, st, v) ==
    version' = [version EXCEPT ![o] = IF held[o] = None /\ Found(o, st) # None THEN v ELSE @]

\* The report's ClOrdID is kept, but for a cancel's own.
NoteClord(o, v) ==
    lastClord' = [lastClord EXCEPT ![o] = IF v = cancelClord[o] THEN @ ELSE v]

\* The match on the report's order status; `prev' is the status of the order.
StatusOf(f, prev) ==
    CASE f.st \in {"0", "5"} -> "Submitted"
      [] f.st = "6" /\ f.ver = cancelClord[f.o] -> "PendingCancel"
      [] f.st = "6"          -> IF prev \in {"Submitted", "PreSubmitted", "PendingSubmit"}
                                  THEN "PreSubmitted" ELSE prev
      [] f.st = "1"          -> "PartiallyFilled"
      [] f.st = "2"          -> "Filled"
      [] f.st = "8" /\ ~f.query -> "Rejected"
      [] OTHER               -> "Cancelled"

\* Context::apply_order_status, of an order that is held.
Guarded(prev, status) == IF Rank[status] < Rank[prev] THEN prev ELSE status

\* forget_order: an order leaves the table with what is kept for it.
Leave(o) ==
    /\ held' = [held EXCEPT ![o] = None]
    /\ cancelClord' = [cancelClord EXCEPT ![o] = NoClord]
    /\ queries' = queries \ {o}

\* Mutant of Finish: the completed record is written once the order has left.
FinishUnrecorded(o, status) ==
    /\ Leave(o)
    /\ finished' = [finished EXCEPT ![o] = status]
    /\ UNCHANGED completed

\* push_completed_order, finish_order
Finish(o, status) ==
    /\ Leave(o)
    /\ finished' = [finished EXCEPT ![o] = status]
    /\ completed' = [completed EXCEPT ![o] = @ + 1]

\* The order of a report that finds it `prev' and gives it `status': the
\* status is applied, past the guard when `forced', and the client is told
\* unless the report is stale; a cancel pending is told again.  `given' is
\* the client told of a fill.
ApplyStatus(o, prev, status, forced, given) ==
    LET new == IF forced THEN status ELSE Guarded(prev, status) IN
    /\ told' = [told EXCEPT ![o] =
                  IF given \/ new = status \/ prev = "PendingCancel" THEN new ELSE @]
    /\ IF status \in Terminal
         THEN Finish(o, status)
         ELSE /\ held' = [held EXCEPT ![o] = new]
              /\ UNCHANGED <<cancelClord, finished, completed>>

\* Mutant of Remember: the ids are all dropped when there is no room.
RememberCleared(n) ==
    IF Len(seen) < Window
      THEN seen' = Append(seen, n) /\ evicted' = evicted \ {n}
      ELSE seen' = <<n>> /\ evicted' = (evicted \ {n}) \cup {Head(seen)}

\* record_exec_id: the oldest id leaves when there is no room for the new one.
Remember(n) ==
    IF Len(seen) < Window
      THEN seen' = Append(seen, n) /\ evicted' = evicted \ {n}
      ELSE seen' = Append(Tail(seen), n) /\ evicted' = (evicted \ {n}) \cup {Head(seen)}

\* update_position_fixed, last_exec
Book(n) ==
    /\ Remember(n)
    /\ lastExec' = n
    /\ position' = position + 1
    /\ counted' = counted \cup {n}
    /\ recounted' = IF n \in evicted THEN recounted + 1 ELSE recounted

\* Mutant of Seen: the last execution stands for the ones before it.
SeenUpTo(n) == n <= lastExec

\* seen_exec_ids
Seen(n) == \E i \in DOMAIN seen : seen[i] = n

BookOnce(n) == IF Seen(n) THEN UNCHANGED books ELSE Book(n)

\* Mutant of Forced: the answers of the status replay go through the guard.
ForcedNotByReplay(f, status) ==
    \/ f.query /\ f.o \in queries
    \/ f.st = "6" /\ status = "PreSubmitted"

\* A report sets the status past the guard: the answer to a status request
\* (ibx#252), of the replay (ibx#251), and the pending report of a replace.
Forced(f, status) ==
    \/ f.query /\ (replay \/ f.o \in queries)
    \/ f.st = "6" /\ status = "PreSubmitted"

\* A report of an order's status.
ReadOrder ==
    LET f == Head(wire)
        o == f.o
        prev == Found(o, f.st)
        status == StatusOf(f, prev)
    IN
    /\ Reading /\ f.kind = "order"
    /\ wire' = Tail(wire)
    /\ NoteVersion(o, f.st, f.ver)
    /\ NoteClord(o, f.ver)
    /\ IF prev = None
         THEN UNCHANGED <<held, cancelClord, queries, finished, told, completed>>
         ELSE /\ ApplyStatus(o, prev, status, Forced(f, status), FALSE)
              /\ status \notin Terminal =>
                    queries' = IF f.query /\ ~replay THEN queries \ {o} ELSE queries
    /\ UNCHANGED <<server, link, pend, walk, books, dropped, asked, bounds>>

\* handle_outage_fill: a fill of a held order in the trades reply after a
\* reconnect is booked and not told; an order it ends is forgotten.
ReadOutageFill ==
    LET f == Head(wire)
        o == execs[f.n]
        prev == Found(o, IF Ends(f.n) THEN "2" ELSE "1")
    IN
    /\ Reading /\ f.kind = "fill" /\ fillUp /\ prev # None
    /\ wire' = Tail(wire)
    /\ NoteVersion(o, IF Ends(f.n) THEN "2" ELSE "1", f.ver)
    /\ NoteClord(o, f.ver)
    /\ BookOnce(f.n)
    /\ IF Ends(f.n)
         THEN Leave(o) /\ told' = [told EXCEPT ![o] = "forgotten"]
         ELSE held' = [held EXCEPT ![o] = prev] /\ UNCHANGED <<cancelClord, queries, told>>
    /\ early' = (early \/ f.live)
    /\ UNCHANGED <<server, link, pend, walk, finished, completed, dropped, fillUp, replay, hole, bounds>>

\* A fill of an order of the table, or of one that is not (book_untracked_fill).
ReadFill ==
    LET f == Head(wire)
        o == execs[f.n]
        st == IF Ends(f.n) THEN "2" ELSE "1"
        prev == Found(o, st)
    IN
    /\ Reading /\ f.kind = "fill" /\ ~(fillUp /\ prev # None)
    /\ wire' = Tail(wire)
    /\ NoteVersion(o, st, f.ver)
    /\ NoteClord(o, f.ver)
    /\ BookOnce(f.n)
    /\ IF prev = None
         THEN UNCHANGED <<held, cancelClord, queries, finished, told, completed>>
         ELSE /\ ApplyStatus(o, prev, IF Ends(f.n) THEN "Filled" ELSE "PartiallyFilled",
                             FALSE, ~Seen(f.n))
              /\ ~Ends(f.n) => UNCHANGED queries
    /\ early' = (early \/ (fillUp /\ f.live))
    /\ UNCHANGED <<server, link, pend, walk, dropped, fillUp, replay, hole, bounds>>

\* handle_cancel_reject: only the reject of the current version counts; the
\* version goes back and the server is asked for the order's status.
ReadCancelReject ==
    LET f == Head(wire)
        o == f.o
    IN
    /\ Reading /\ f.kind = "reject"
    /\ IF version[o] # f.ver
         THEN wire' = Tail(wire) /\ UNCHANGED table
         ELSE /\ version' = [version EXCEPT ![o] = @ - 1]
              /\ lastClord' = [lastClord EXCEPT ![o] = IF @ = f.ver THEN f.ver - 1 ELSE @]
              /\ cancelClord' = [cancelClord EXCEPT ![o] = IF @ = f.ver THEN NoClord ELSE @]
              /\ queries' = IF held[o] # None THEN queries \cup {o} ELSE queries
              /\ wire' = IF link = "up" THEN Append(Tail(wire), StatusAnswer(o)) ELSE Tail(wire)
              /\ UNCHANGED <<held, finished>>
    /\ UNCHANGED <<server, link, pend, walk, books, client, asked, bounds>>

\* The end marks (ibx#399).
ReadEndTrades ==
    /\ Reading /\ Head(wire).kind = "endTrades"
    /\ wire' = Tail(wire)
    /\ fillUp' = FALSE /\ early' = FALSE
    /\ UNCHANGED <<server, link, pend, walk, table, books, client, replay, hole, bounds>>

ReadEndReplay ==
    /\ Reading /\ Head(wire).kind = "endReplay"
    /\ wire' = Tail(wire)
    /\ replay' = FALSE
    /\ UNCHANGED <<server, link, pend, walk, table, books, client, fillUp, early, hole, bounds>>

-----------------------------------------------------------------------------
(***************************************************************************)
(* The link.                                                               *)
(***************************************************************************)
\* External: the link is cut; what had not come in is lost.
Cut ==
    /\ link = "up" /\ losses < MaxLosses
    /\ link' = "down"
    /\ losses' = losses + 1
    /\ \E n \in 0 .. Len(wire) : wire' = SubSeq(wire, 1, n)
    /\ UNCHANGED <<server, pend, walk, table, books, client, asked, requests>>

\* CcpState::handle_disconnect, once nothing is left to read: the orders keep
\* their status.
HandleDisconnect ==
    /\ link = "down" /\ wire = <<>> /\ walk = {}
    /\ link' = "noticed"
    /\ fillUp' = FALSE /\ replay' = FALSE
    /\ early' = FALSE /\ hole' = (hole \/ early)
    /\ UNCHANGED <<server, wire, pend, walk, table, books, client, bounds>>

\* External: the new logon, made by a thread of its own.
Relogin ==
    /\ link = "noticed"
    /\ link' = "relogin"
    /\ UNCHANGED <<server, wire, pend, walk, table, books, client, asked, bounds>>

\* CcpState::reconnect: the fills since the last execution are asked for,
\* then the status of the working orders.
Reconnect ==
    /\ link = "relogin"
    /\ link' = "up"
    /\ fillUp' = TRUE /\ replay' = TRUE
    /\ \E order \in SetToSeqs({o \in Orders : srv[o] = "working"}) :
        LET first == IF lastExec = 0 THEN 1 ELSE lastExec
            trades == [i \in 1 .. Len(execs) + 1 - first |->
                         Fill(first + i - 1, srvVer[execs[first + i - 1]], FALSE)]
            replayed == [i \in DOMAIN order |-> StatusAnswer(order[i])]
        IN wire' = wire \o trades \o <<EndTrades>> \o replayed \o <<EndReplay>>
    /\ UNCHANGED <<server, pend, walk, table, books, client, early, hole, bounds>>

-----------------------------------------------------------------------------
Next ==
    \/ \E r \in Request : Command(r)
    \/ SendNew \/ SendCancel \/ SendModify
    \/ StartGlobalCancel \/ \E o \in Orders : WalkCancel(o)
    \/ ReadOrder \/ ReadOutageFill \/ ReadFill \/ ReadCancelReject
    \/ ReadEndTrades \/ ReadEndReplay
    \/ \E o \in Orders : ServerFills(o) \/ ServerCancels(o)
    \/ Cut \/ HandleDisconnect \/ Relogin \/ Reconnect

Spec == Init /\ [][Next]_vars

-----------------------------------------------------------------------------
(***************************************************************************)
(* Properties.                                                             *)
(***************************************************************************)
\* Everything sent has been answered and read, on a link that is up.
Quiet == link = "up" /\ wire = <<>> /\ walk = {}

\* Every execution is in the position once the reports are read: those made
\* while the link was lost come with the trades reply of reconnect(), which
\* starts at the last execution booked (fill_up_request).  A live fill read
\* ahead of that reply moves the start: a second loss before the reply has
\* ended then leaves a hole no later request asks for.
FillsComplete == Quiet /\ ~hole => counted = DOMAIN execs

\* The engine holds every order that works on the server as working, with the
\* ClOrdID the server has on record, once the reports are read: whatever
\* cancels and modifies were refused or lost, the status answers and the
\* replay put the status and the ClOrdID back (ibx#251, ibx#252).  An order
\* dropped as not sent lost its version and its ClOrdIDs: brought back by a
\* report on its way, it counts again from that report's, and its next cancel
\* may take the ClOrdID of a modify the server has accepted for its own.
WorkingOrdersAgree ==
    Quiet => \A o \in Orders : srv[o] = "working" =>
        /\ held[o] \in {"PreSubmitted", "Submitted", "PartiallyFilled"}
        /\ o \notin dropped => lastClord[o] = srvVer[o]

\* An order that ended was given its final status, that one and no other after
\* it, and one completed record; an order forgotten in the trades reply has
\* neither (push_completed_order, finish_order).
FinalGiven ==
    \A o \in Orders \ dropped :
        /\ finished[o] # None => told[o] = finished[o]
        /\ completed[o] = IF told[o] \in Terminal THEN 1 ELSE 0

Ledger == INSTANCE OrderLedger WITH
    Fills    <- 1 .. MaxExecs,
    live     <- {o \in Orders : held[o] # None},
    over     <- {o \in Orders : finished[o] # None},
    counted  <- counted,
    position <- position - recounted

\* The order table is a ledger (OrderLedger): no report, duplicate or replay
\* brings an ended order back, and none counts an execution twice while its id
\* is among the last `Window' booked (EXEC_ID_WINDOW).  One that comes again
\* after the window has let its id go is counted again: `recounted' has these,
\* and the position is off by them and by no more.
LedgerSpec == Ledger!Spec
=============================================================================
