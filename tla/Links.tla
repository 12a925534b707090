------------------------------- MODULE Links --------------------------------
(***************************************************************************)
(* The three server links of the engine (src/engine/hot_loop/mod.rs): how  *)
(* a lost link is dialled again, what the clients are told of the links    *)
(* (report_link_changes, maybe_report_restored), and how the open-order    *)
(* requests wait for the order replay of the new logon (ccp.rs).           *)
(*                                                                         *)
(* A pass of the loop goes through the places of `pc': the links are read, *)
(* the reconnect attempts looked at, the clients told.  An attempt runs on *)
(* a thread of its own.  The session has a host to dial.                   *)
(***************************************************************************)
EXTENDS Integers

CONSTANTS
    MaxAttempts,    \* HMDS_MAX_RECONNECT_ATTEMPTS
    MaxLosses       \* bound: how often links are lost

ASSUME LinksAssumption == MaxAttempts \in Nat \ {0} /\ MaxLosses \in Nat

Links == {"ccp", "farm", "hmds"}

VARIABLES
    up,             \* the link is up
    dial,           \* where the reconnect of a link is
    attempts,       \* hmds_reconnect_attempt
    links,          \* HotLoop.links: the links at the last report
    told,           \* HotLoop.told: the data connections told OK
    replay,         \* the replay awaited: of the logon, of a reconnect, none
    replayEnd,      \* status_replay_end_at: none, within RESTORE_FARM_WAIT, over
    held,           \* orders.open_orders_held
    running,        \* HotLoop.running
    pc,             \* the engine's place in its pass
    view,           \* what the notices tell a client of the connections
    losses          \* the links lost so far

linksVars == <<up, dial, attempts, links, told, replay, replayEnd, held, running, pc, view, losses>>

Told == {"farm", "hmds", "secdef"}

LinksTypeOK ==
    /\ up \in [Links -> BOOLEAN] /\ links \in [Links -> BOOLEAN]
    /\ dial \in [Links -> {"none", "scheduled", "due", "flying", "ok", "failed", "refused", "dropped"}]
    /\ \A l \in Links : up[l] => dial[l] = "none"
    /\ attempts \in 0 .. MaxAttempts
    /\ told \in [Told -> BOOLEAN]
    /\ replay \in {"none", "login", "status"} /\ (replay # "none" => up["ccp"])
    /\ replayEnd \in {"none", "wait", "over"} /\ (replayEnd # "none" => up["ccp"])
    /\ held \in BOOLEAN /\ running \in BOOLEAN
    /\ pc \in {"read", "dial", "report", "restored", "ended"}
    /\ view \in [Told \cup {"ccp"} -> BOOLEAN]
    /\ losses \in 0 .. MaxLosses

\* run(): the links are known from the start; await_login_replay.
LinksInit ==
    /\ up = [l \in Links |-> TRUE]
    /\ dial = [l \in Links |-> "none"]
    /\ attempts = 0
    /\ links = up
    /\ told = [d \in Told |-> TRUE]
    /\ replay = "login" /\ replayEnd = "none" /\ held = TRUE
    /\ running = TRUE
    /\ pc = "read"
    /\ view = [d \in Told \cup {"ccp"} |-> TRUE]
    /\ losses = 0

-----------------------------------------------------------------------------
(***************************************************************************)
(* The links are read.                                                     *)
(***************************************************************************)
\* A link is lost: a read or write error, the monitor's verdict, a bad
\* signature.  CcpState::handle_disconnect lets go of the replay.
Lose(l) ==
    /\ pc = "read"
    /\ up[l]
    /\ losses < MaxLosses
    /\ up' = [up EXCEPT ![l] = FALSE]
    /\ losses' = losses + 1
    /\ IF l = "ccp" THEN replay' = "none" /\ replayEnd' = "none"
       ELSE UNCHANGED <<replay, replayEnd>>
    /\ UNCHANGED <<dial, attempts, links, told, held, running, pc, view>>

\* The end marker of the order replay is read.
ReplayEnds ==
    /\ pc = "read"
    /\ replay # "none"
    /\ replayEnd' = IF replay = "status" THEN "wait" ELSE replayEnd
    /\ replay' = "none"
    /\ held' = FALSE
    /\ UNCHANGED <<up, dial, attempts, links, told, running, pc, view, losses>>

ReadDone ==
    /\ pc = "read"
    /\ pc' = "dial"
    /\ UNCHANGED <<up, dial, attempts, links, told, replay, replayEnd, held, running, view, losses>>

-----------------------------------------------------------------------------
(***************************************************************************)
(* The reconnect attempts.                                                 *)
(***************************************************************************)
\* Mutant of Polled: a thread that gave no result leaves its attempt due.
PolledDropDue(l) ==
    IF dial[l] = "ok" THEN "none"
    ELSE IF dial[l] = "dropped" THEN "due"
    ELSE IF dial[l] \notin {"failed", "refused"} THEN dial[l]
    ELSE IF l = "hmds" /\ attempts < MaxAttempts THEN "scheduled"
    ELSE "none"

\* Mutant of Polled: a farm thread that gave no result is waited for.
PolledDropWaits(l) ==
    IF dial[l] = "ok" THEN "none"
    ELSE IF dial[l] = "dropped" THEN (IF l = "hmds" THEN "due" ELSE IF l = "farm" THEN "dropped" ELSE "none")
    ELSE IF dial[l] \notin {"failed", "refused"} THEN dial[l]
    ELSE IF l = "hmds" /\ attempts < MaxAttempts THEN "scheduled"
    ELSE "none"

\* poll_farm_reconnect, poll_ccp_reconnect, poll_hmds_reconnect: where the
\* reconnect is once the result of its thread is looked at.  The time of the
\* last attempt is not cleared for the historical farm.
Polled(l) ==
    IF dial[l] = "ok" THEN "none"
    ELSE IF dial[l] = "dropped" THEN (IF l = "hmds" THEN "due" ELSE "none")
    ELSE IF dial[l] \notin {"failed", "refused"} THEN dial[l]
    ELSE IF l = "hmds" /\ attempts < MaxAttempts THEN "scheduled"
    ELSE "none"

\* A login the server itself refuses ends the session.
Refused == dial["ccp"] = "refused"

\* The historical farm has no attempt left.
Exhausted == attempts = MaxAttempts

\* maybe_spawn_*: an attempt is scheduled, or the one that is due is made.
Spawned(l, polled) ==
    IF up'[l] \/ (l = "ccp" /\ Refused) \/ (l = "hmds" /\ Exhausted) THEN polled
    ELSE IF polled = "none" THEN "scheduled"
    ELSE IF polled = "due" THEN "flying"
    ELSE polled

\* Mutant of Replayed: no order replay is asked for.
ReplayedNot == UNCHANGED <<replay, replayEnd>>

\* CcpState::reconnect asks for the status of the working orders.
Replayed == replay' = "status" /\ replayEnd' = "none"

\* Steps 5b of the loop, link by link: a link that is back is taken, then the
\* next attempts are scheduled or started.
Dial ==
    /\ pc = "dial"
    /\ up' = [l \in Links |-> up[l] \/ dial[l] = "ok"]
    /\ dial' = [l \in Links |-> Spawned(l, Polled(l))]
    /\ attempts' = IF dial["hmds"] = "ok" THEN 0
                   ELSE IF dial["hmds"] # "flying" /\ dial'["hmds"] = "flying" THEN attempts + 1
                   ELSE attempts
    /\ IF dial["ccp"] = "ok" THEN Replayed ELSE UNCHANGED <<replay, replayEnd>>
    /\ running' = (running /\ ~Refused)
    /\ pc' = "report"
    /\ UNCHANGED <<links, told, held, view, losses>>

\* The time of an attempt comes (reconnect_backoff, hmds_reconnect_backoff).
Elapse(l) ==
    /\ dial[l] = "scheduled"
    /\ dial' = [dial EXCEPT ![l] = "due"]
    /\ UNCHANGED <<up, attempts, links, told, replay, replayEnd, held, running, pc, view, losses>>

\* The thread of an attempt gives its result, or ends without one.
Result(l, r) ==
    /\ dial[l] = "flying"
    /\ r = "refused" => l = "ccp"
    /\ dial' = [dial EXCEPT ![l] = r]
    /\ UNCHANGED <<up, attempts, links, told, replay, replayEnd, held, running, pc, view, losses>>

-----------------------------------------------------------------------------
(***************************************************************************)
(* The clients are told.                                                   *)
(***************************************************************************)
\* Mutant of OkNow: the data connections are told of by themselves.
OkNowAlone == [d \in Told |-> IF d = "secdef" THEN up["ccp"] ELSE up[d]]

\* DataLinks::of: a data connection is OK while it and the auth link are up.
OkNow == [d \in Told |-> up["ccp"] /\ (d = "secdef" \/ up[d])]

\* push_connection_notice, and what a client makes of the notices: 1100, 2103,
\* 2105, 2157 tell that a connection is lost, 1102, 2104, 2106, 2158 that it is
\* back.  A report has one notice of a connection at most.
Push(lost, back) ==
    view' = [c \in Told \cup {"ccp"} |-> c \notin lost /\ (c \in back \/ view[c])]

\* The connections a report tells lost: the auth link, then the data connections.
LostNow(ok) ==
    {c \in Told \cup {"ccp"} : IF c = "ccp" THEN links["ccp"] /\ ~up["ccp"] ELSE told[c] /\ ~ok[c]}

\* The data connections a report tells OK.
BackNow(ok) == {d \in Told : ~told[d] /\ ok[d]}

\* Mutant of Report: the loss of the auth link does not hold the requests.
ReportNotHeld ==
    /\ pc = "report"
    /\ links' = up
    /\ told' = OkNow
    /\ IF links = up THEN UNCHANGED view ELSE Push(LostNow(OkNow), BackNow(OkNow))
    /\ pc' = "restored"
    /\ UNCHANGED <<up, dial, attempts, replay, replayEnd, held, running, losses>>

\* report_link_changes.
Report ==
    /\ pc = "report"
    /\ links' = up
    /\ told' = OkNow
    /\ IF links = up THEN UNCHANGED view ELSE Push(LostNow(OkNow), BackNow(OkNow))
    /\ held' = (held \/ (links["ccp"] /\ ~up["ccp"]))
    /\ pc' = "restored"
    /\ UNCHANGED <<up, dial, attempts, replay, replayEnd, running, losses>>

\* maybe_report_restored: 1102 once the replay has ended, when the farms are up
\* or RESTORE_FARM_WAIT is over.  The loop ends here if it was told to.
Restored ==
    LET due == replayEnd # "none" /\ ((up["farm"] /\ up["hmds"]) \/ replayEnd = "over")
    IN
    /\ pc = "restored"
    /\ replayEnd' = IF due THEN "none" ELSE replayEnd
    /\ Push({}, IF due THEN {"ccp"} ELSE {})
    /\ pc' = IF running THEN "read" ELSE "ended"
    /\ UNCHANGED <<up, dial, attempts, links, told, replay, held, running, losses>>

\* RESTORE_FARM_WAIT has passed.
WaitOver ==
    /\ replayEnd = "wait"
    /\ replayEnd' = "over"
    /\ UNCHANGED <<up, dial, attempts, links, told, replay, held, running, pc, view, losses>>

Engine == ReadDone \/ Dial \/ Report \/ Restored

LinksNext ==
    \/ \E l \in Links : Lose(l) \/ Elapse(l)
    \/ \E l \in Links, r \in {"ok", "failed", "refused", "dropped"} : Result(l, r)
    \/ ReplayEnds \/ WaitOver \/ Engine

LinksSpec == LinksInit /\ [][LinksNext]_linksVars

\* The loop goes round, time passes, an attempt ends, and when attempts are
\* made again and again one of them succeeds.  The server ends its replay.
Fairness ==
    /\ WF_linksVars(Engine) /\ WF_linksVars(WaitOver) /\ SF_linksVars(ReplayEnds)
    /\ \A l \in Links :
        /\ WF_linksVars(Elapse(l))
        /\ WF_linksVars(\E r \in {"ok", "failed", "dropped"} : Result(l, r))
        /\ SF_linksVars(Result(l, "ok"))

LinksFairSpec == LinksSpec /\ Fairness

-----------------------------------------------------------------------------
(***************************************************************************)
(* Properties.                                                             *)
(***************************************************************************)
\* After every report the notices given so far tell the data connections as
\* they are: OK when the connection and the auth link are up (ibx#520).
ViewTrue ==
    pc \in {"restored", "ended"} => \A d \in Told : view[d] = (up["ccp"] /\ (d = "secdef" \/ up[d]))

\* Once the loss of the auth link is reported the open-order requests wait
\* until the replay of a new logon has corrected the orders, whatever is lost
\* in between (ibx#251).
HeldUntilCorrected == pc = "restored" /\ (~up["ccp"] \/ replay # "none") => held

\* The held open-order requests are answered, and the clients told that the
\* auth link is restored, unless the server refused the login.
RestoredInTheEnd == <>[](pc = "ended" \/ (~held /\ view["ccp"]))

\* A lost link is dialled until it is back; the historical farm is given up
\* only with its attempts spent.
LinksComeBack ==
    <>[](pc = "ended" \/ \A l \in Links : up[l] \/ (l = "hmds" /\ Exhausted))

\* Each attempt on the auth link and the market data farm is made when its time
\* has come, never at once behind another (reconnect_backoff: "Immediate
\* rapid-fire re-dials risk server-side rate limiting").  The historical farm's
\* are not: one whose thread ends without a result leaves its time past.
AttemptsWait ==
    [][\A l \in {"ccp", "farm"} :
          dial'[l] = "flying" /\ dial[l] # "flying" => dial[l] = "due"]_linksVars
=============================================================================
