------------------------------ MODULE FarmPing ------------------------------
(***************************************************************************)
(* The liveness of a farm link, market data or historical (farm_check of   *)
(* src/engine/hot_loop/liveness.rs and what check_heartbeats_at does on    *)
(* its word): a test request every Interval from the logon, and the link   *)
(* is dead when nothing arrives within Answer of it.                       *)
(*                                                                         *)
(* The unit of time is a pass of the engine that finds the clock changed;  *)
(* instants are kept relative to now.  A pass reads the link, then checks. *)
(***************************************************************************)
EXTENDS Integers

CONSTANTS
    PingInterval,   \* FARM_PING_INTERVAL
    PingAnswer      \* FARM_PING_ANSWER

ASSUME FarmPingAssumption ==
    /\ PingInterval \in Nat \ {0} /\ PingAnswer \in Nat \ {0}
    /\ PingAnswer < PingInterval

\* No test request waits for an answer.
None == -1

\* FARM_DEAD_LIMIT.
FarmDeadLimit == PingInterval + PingAnswer

VARIABLES
    farmUp,         \* the link is not dropped
    nextPing,       \* the time to farm_next_ping, negative when it is past
    farmPending,    \* the age of the test request that waits, or None
    at,             \* what the engine does next in its pass
    passed,         \* a pass was made since time last went on
    farmUnread,     \* the link has data the engine has not read
    farmTalks,      \* the farm is alive
    farmQuiet,      \* the age of the last data the farm sent
    answered,       \* it sent some within PingAnswer of the last test request
    farmSlept,      \* time went on without a pass since the connection
    suspended       \* time went on between the read and the check of this pass

farmVars == <<farmUp, nextPing, farmPending, at, passed, farmUnread, farmTalks, farmQuiet,
              answered, farmSlept, suspended>>

FarmFlags == {farmUp, passed, farmUnread, farmTalks, answered, farmSlept,
              suspended} \subseteq BOOLEAN

Numbers ==
    /\ nextPing \in -PingInterval .. PingInterval
    /\ farmPending \in None .. PingAnswer
    /\ at \in {"read", "check"}
    /\ farmQuiet \in 0 .. FarmDeadLimit

FarmTypeOK == FarmFlags /\ Numbers

FarmInit ==
    /\ farmUp = TRUE
    /\ nextPing = PingInterval
    /\ farmPending = None
    /\ at = "read" /\ passed = TRUE
    /\ farmUnread = FALSE /\ farmTalks = TRUE /\ farmQuiet = 0 /\ answered = FALSE
    /\ farmSlept = FALSE /\ suspended = FALSE

-----------------------------------------------------------------------------
\* Time goes on, also while the process is asleep or suspended and makes no
\* pass.  What lies beyond the bounds is not told apart.
FarmTick ==
    /\ farmUp
    /\ nextPing' = IF nextPing > -PingInterval THEN nextPing - 1 ELSE nextPing
    /\ farmPending' = IF farmPending # None /\ farmPending < PingAnswer
                         THEN farmPending + 1 ELSE farmPending
    /\ farmQuiet' = IF farmQuiet < FarmDeadLimit THEN farmQuiet + 1 ELSE farmQuiet
    /\ passed' = FALSE
    /\ farmSlept' = IF passed /\ at = "read" THEN farmSlept ELSE TRUE
    /\ suspended' = IF at = "check" THEN TRUE ELSE suspended
    /\ UNCHANGED <<farmUp, at, farmUnread, farmTalks, answered>>

\* The farm sends something.
FarmSends ==
    /\ farmUp /\ farmTalks
    /\ farmUnread' = TRUE
    /\ farmQuiet' = 0
    /\ answered' = (answered \/ farmPending \in 0 .. PingAnswer - 1)
    /\ UNCHANGED <<farmUp, nextPing, farmPending, at, passed, farmTalks, farmSlept, suspended>>

\* The farm has gone silent.
FarmGoSilent ==
    /\ farmUp /\ farmTalks
    /\ farmTalks' = FALSE
    /\ UNCHANGED <<farmUp, nextPing, farmPending, at, passed, farmUnread, farmQuiet, answered,
                   farmSlept, suspended>>

\* Mutant of Read: a test request is kept when data comes.
ReadKeeps ==
    /\ farmUp /\ at = "read"
    /\ farmUnread' = FALSE
    /\ at' = "check" /\ suspended' = FALSE
    /\ UNCHANGED <<farmUp, nextPing, farmPending, passed, farmTalks, farmQuiet, answered,
                   farmSlept>>

\* poll_market_data, HmdsState::poll: any data clears the test request.
Read ==
    /\ farmUp /\ at = "read"
    /\ farmPending' = IF farmUnread THEN None ELSE farmPending
    /\ farmUnread' = FALSE
    /\ at' = "check" /\ suspended' = FALSE
    /\ UNCHANGED <<farmUp, nextPing, passed, farmTalks, farmQuiet, answered, farmSlept>>

\* The test request after the one that is due: PingInterval after it, or from
\* now when that is past too.
Following == IF nextPing + PingInterval <= 0 THEN PingInterval ELSE nextPing + PingInterval

\* Mutant of Unanswered: past the answer time, not at it.
UnansweredPast == farmPending > PingAnswer

\* The test request has waited for the whole answer time.
Unanswered == farmPending >= PingAnswer

\* farm_check: Dead, and the link is closed; Ping, and the test request is
\* sent; or Nothing.
CheckDead ==
    /\ Unanswered
    /\ farmUp' = FALSE
    /\ UNCHANGED <<nextPing, farmPending, answered>>

CheckPing ==
    /\ ~Unanswered
    /\ nextPing <= 0
    /\ nextPing' = Following
    /\ farmPending' = 0
    /\ answered' = FALSE
    /\ UNCHANGED farmUp

CheckNothing ==
    /\ ~Unanswered
    /\ nextPing > 0
    /\ UNCHANGED <<farmUp, nextPing, farmPending, answered>>

Check ==
    /\ farmUp /\ at = "check"
    /\ CheckDead \/ CheckPing \/ CheckNothing
    /\ at' = "read"
    /\ passed' = TRUE
    /\ UNCHANGED <<farmUnread, farmTalks, farmQuiet, farmSlept, suspended>>

\* HeartbeatState::farm_connected: a new connection.
FarmReconnect ==
    /\ ~farmUp
    /\ farmUp' = TRUE
    /\ nextPing' = PingInterval
    /\ farmPending' = None
    /\ at' = "read" /\ passed' = TRUE
    /\ farmUnread' = FALSE /\ farmTalks' = TRUE /\ farmQuiet' = 0 /\ answered' = FALSE
    /\ farmSlept' = FALSE /\ suspended' = FALSE

FarmNext == FarmTick \/ FarmSends \/ FarmGoSilent \/ Read \/ Check \/ FarmReconnect

FarmSpec == FarmInit /\ [][FarmNext]_farmVars

-----------------------------------------------------------------------------
(***************************************************************************)
(* Properties.                                                             *)
(***************************************************************************)
\* FARM_DEAD_LIMIT: a farm that has sent nothing for that long is dropped by
\* the pass at that time, unless the process was asleep.
FarmFoundInTime == farmUp /\ passed /\ ~farmSlept => farmQuiet < FarmDeadLimit

\* liveness.rs:20-21, "dead when nothing at all arrives within 10 s": a link is
\* dropped only then, also by a process that slept between two passes.  (One
\* suspended between the read and the check of the pass has not read what
\* arrived, and takes the time after it.)
DropJustified == ~farmUp => ~answered \/ suspended
=============================================================================
