----------------------------- MODULE CcpMonitor -----------------------------
(***************************************************************************)
(* The monitor of the auth link (HeartbeatState::poll_ccp of               *)
(* src/engine/hot_loop/liveness.rs, and the sends check_heartbeats_at      *)
(* makes on its word), with a server that talks or has gone silent.        *)
(*                                                                         *)
(* The unit of time is the poll, one second.  Instants are kept as ages.   *)
(* A pass of the engine reads the link, handles commands and writes, then  *)
(* polls the monitor.                                                      *)
(***************************************************************************)
EXTENDS Integers

CONSTANTS
    Pause,          \* CCP_SEND_PAUSE
    HeartbeatAfter, \* CCP_HEARTBEAT_AFTER
    TestAfter,      \* CCP_TEST_AFTER
    DeadAfter,      \* CCP_DEAD_AFTER
    SleepJump,      \* CCP_SLEEP_JUMP
    ServerTalks,    \* the longest silence of a server that is alive
    MaxAge          \* bound: the longest silence

ASSUME CcpMonitorAssumption ==
    /\ {Pause, HeartbeatAfter, TestAfter, DeadAfter, SleepJump, ServerTalks, MaxAge} \subseteq Nat
    /\ ServerTalks < DeadAfter

VARIABLES
    ccpUp,          \* the link is not dropped
    sent,           \* the age of last_ccp_sent
    recv,           \* the age of last_ccp_recv
    ended,          \* ccp_pause_ended_for is the last send
    lastSilence,    \* ccp_last_silence
    ccpPending,     \* pending_ccp_test is Some
    ccpAt,          \* the pass has the link to read, or the monitor to poll
    polled,         \* the poll of this second is done
    ccpUnread,      \* the link has data the engine has not read
    ccpTalks,       \* the server is alive
    ccpQuiet,       \* the age of the last data the server sent
    \* For the properties only:
    foundAlive,     \* a check of this connection found the link alive
    ccpSlept,       \* a second of this connection passed without its poll
    ccpSuspended    \* time went on in this pass between the read and the poll

ccpVars == <<ccpUp, sent, recv, ended, lastSilence, ccpPending, ccpAt, polled, ccpUnread,
             ccpTalks, ccpQuiet, foundAlive, ccpSlept, ccpSuspended>>

CcpFlags ==
    /\ {ccpUp, ended, ccpPending, polled, ccpUnread, ccpTalks, foundAlive, ccpSlept,
         ccpSuspended} \subseteq BOOLEAN
    /\ ccpAt \in {"read", "check"}

Ages ==
    /\ sent \in 0 .. MaxAge /\ recv \in 0 .. MaxAge /\ ccpQuiet \in 0 .. MaxAge
    /\ lastSilence \in 0 .. MaxAge
    /\ ended => sent > Pause

CcpTypeOK == CcpFlags /\ Ages

\* HeartbeatState::new_at and ccp_connected: the logon was the last send and
\* the last receive, the monitor starts again.
Connected ==
    /\ ccpUp' = TRUE
    /\ sent' = 0 /\ recv' = 0 /\ ccpQuiet' = 0 /\ lastSilence' = 0
    /\ ended' = FALSE /\ ccpPending' = FALSE /\ ccpUnread' = FALSE /\ foundAlive' = FALSE
    /\ polled' = TRUE /\ ccpSlept' = FALSE
    /\ ccpAt' = "read" /\ ccpSuspended' = FALSE
    /\ ccpTalks' = TRUE

CcpInit ==
    /\ ccpUp = TRUE
    /\ sent = 0 /\ recv = 0 /\ ccpQuiet = 0 /\ lastSilence = 0
    /\ ended = FALSE /\ ccpPending = FALSE /\ ccpUnread = FALSE /\ foundAlive = FALSE
    /\ polled = TRUE /\ ccpSlept = FALSE
    /\ ccpAt = "read" /\ ccpSuspended = FALSE
    /\ ccpTalks = TRUE

-----------------------------------------------------------------------------
\* A second passes, without the poll of the last one when the process was
\* asleep, or within a pass when it was suspended there.  A server that is alive is not silent for longer than ServerTalks.
CcpTick ==
    /\ ccpUp
    /\ recv < MaxAge /\ sent < MaxAge
    /\ ccpTalks => ccpQuiet < ServerTalks
    /\ sent' = sent + 1 /\ recv' = recv + 1
    /\ ccpQuiet' = IF ccpQuiet < MaxAge THEN ccpQuiet + 1 ELSE ccpQuiet
    /\ polled' = FALSE
    /\ ccpSlept' = IF polled THEN ccpSlept ELSE TRUE
    /\ ccpSuspended' = IF ccpAt = "check" THEN TRUE ELSE ccpSuspended
    /\ UNCHANGED <<ccpUp, ended, lastSilence, ccpPending, ccpAt, ccpUnread, ccpTalks, foundAlive>>

\* The server sends something.
ServerSends ==
    /\ ccpUp /\ ccpTalks
    /\ ccpUnread' = TRUE
    /\ ccpQuiet' = 0
    /\ UNCHANGED <<ccpUp, sent, recv, ended, lastSilence, ccpPending, ccpAt, polled, ccpTalks,
                   foundAlive, ccpSlept, ccpSuspended>>

\* The server, or the way to it, has gone, and no socket error tells.
CcpGoSilent ==
    /\ ccpUp /\ ccpTalks
    /\ ccpTalks' = FALSE
    /\ UNCHANGED <<ccpUp, sent, recv, ended, lastSilence, ccpPending, ccpAt, polled, ccpUnread,
                   ccpQuiet, foundAlive, ccpSlept, ccpSuspended>>

\* The engine sends something of its own (a request, an order, an answer to
\* the server's test request).
ClientSend ==
    /\ ccpUp
    /\ sent' = 0
    /\ ended' = FALSE
    /\ UNCHANGED <<ccpUp, recv, lastSilence, ccpPending, ccpAt, polled, ccpUnread, ccpTalks, ccpQuiet,
                   foundAlive, ccpSlept, ccpSuspended>>

\* ControlCommand::Ping: a test request on demand, unless one is pending.
Ping ==
    /\ ccpUp /\ ccpAt = "check"
    /\ ~ccpPending
    /\ ccpPending' = TRUE
    /\ sent' = 0
    /\ ended' = FALSE
    /\ UNCHANGED <<ccpUp, recv, lastSilence, ccpAt, polled, ccpUnread, ccpTalks, ccpQuiet,
                   foundAlive, ccpSlept, ccpSuspended>>

-----------------------------------------------------------------------------
\* Mutant of CcpRead: what comes answers the test request, and is not noted.
CcpReadUnnoted ==
    /\ ccpUp /\ ccpAt = "read"
    /\ ccpPending' = (ccpPending /\ ~ccpUnread)
    /\ ccpUnread' = FALSE
    /\ ccpAt' = "check" /\ ccpSuspended' = FALSE
    /\ UNCHANGED <<ccpUp, sent, recv, ended, lastSilence, polled, ccpTalks, ccpQuiet, foundAlive,
                   ccpSlept>>

\* poll_auth, in every pass: data on the link is received now, and answers the
\* pending test request whatever it is.
CcpRead ==
    /\ ccpUp /\ ccpAt = "read"
    /\ recv' = IF ccpUnread THEN 0 ELSE recv
    /\ ccpPending' = (ccpPending /\ ~ccpUnread)
    /\ ccpUnread' = FALSE
    /\ ccpAt' = "check" /\ ccpSuspended' = FALSE
    /\ UNCHANGED <<ccpUp, sent, ended, lastSilence, polled, ccpTalks, ccpQuiet, foundAlive, ccpSlept>>

\* The pause of the last send is over, and a poll ended it.
PauseOver == ended

\* Mutant of Jumped: the first check has no silence to compare with.
JumpedAtFirst(silence) == silence > lastSilence + SleepJump

\* The silence grew by more than ten polls since the last check.
Jumped(silence) == lastSilence # 0 /\ silence > lastSilence + SleepJump

\* poll_ccp in the pause of the last send: nothing is checked, up to and with
\* the first poll more than the pause after the send.
PollPaused ==
    /\ ~PauseOver
    /\ ended' = (sent > Pause)
    /\ UNCHANGED <<ccpUp, sent, recv, lastSilence, ccpPending, foundAlive>>

\* The silence jumped, the process was asleep: the counters are reset.
PollJumped ==
    /\ PauseOver
    /\ Jumped(recv)
    /\ lastSilence' = recv
    /\ recv' = 0
    /\ ccpPending' = FALSE
    /\ UNCHANGED <<ccpUp, sent, ended, foundAlive>>

\* The link is dead: drop_ccp_link.
PollDead ==
    /\ PauseOver
    /\ ~Jumped(recv)
    /\ recv > DeadAfter
    /\ ccpUp' = FALSE
    /\ lastSilence' = recv
    /\ UNCHANGED <<sent, recv, ended, ccpPending, foundAlive>>

\* The link is alive; a heartbeat or a test request is sent when due, and
\* starts a new pause.
PollAlive ==
    LET heartbeat == sent >= HeartbeatAfter
        test == recv >= TestAfter /\ ~ccpPending
    IN
    /\ PauseOver
    /\ ~Jumped(recv)
    /\ recv <= DeadAfter
    /\ lastSilence' = recv
    /\ ccpPending' = (ccpPending \/ test)
    /\ sent' = IF heartbeat \/ test THEN 0 ELSE sent
    /\ ended' = ~(heartbeat \/ test)
    /\ foundAlive' = TRUE
    /\ UNCHANGED <<ccpUp, recv>>

\* check_heartbeats, in every pass: it polls the monitor, once a second.
CcpCheck ==
    /\ ccpUp /\ ccpAt = "check"
    /\ \/ /\ polled
          /\ UNCHANGED <<ccpUp, sent, recv, ended, lastSilence, ccpPending, foundAlive>>
       \/ /\ ~polled
          /\ PollPaused \/ PollJumped \/ PollDead \/ PollAlive
    /\ polled' = TRUE
    /\ ccpAt' = "read"
    /\ UNCHANGED <<ccpUnread, ccpTalks, ccpQuiet, ccpSlept, ccpSuspended>>

\* The link is up again.
CcpReconnect == ~ccpUp /\ Connected

CcpNext ==
    \/ CcpTick \/ ServerSends \/ CcpGoSilent \/ ClientSend \/ Ping
    \/ CcpRead \/ CcpCheck \/ CcpReconnect

CcpSpec == CcpInit /\ [][CcpNext]_ccpVars

-----------------------------------------------------------------------------
(***************************************************************************)
(* Properties.                                                             *)
(***************************************************************************)
\* CCP_DEAD_LIMIT: the pause, the poll that ends it and the poll that checks.
CcpDeadLimit == Pause + 2

\* A link on which nothing was sent nor received for DeadLimit is dropped by
\* then, if no earlier check of the connection had found it alive and the
\* process did not sleep.
CcpFoundInTime ==
    polled /\ ccpUp /\ sent >= CcpDeadLimit /\ ccpQuiet >= CcpDeadLimit => foundAlive \/ ccpSlept

\* A server that is alive never has its link dropped, also when the process
\* was asleep and finds a long silence on its clock: unless it was suspended
\* between the read of the link and the poll of one pass, which then counts the
\* time against a server whose data is on the link.
LiveServerKept == ccpTalks => ccpUp \/ ccpSuspended
=============================================================================
