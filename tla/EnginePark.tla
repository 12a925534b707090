----------------------------- MODULE EnginePark -----------------------------
(***************************************************************************)
(* The engine thread at rest (src/engine/park.rs) and the senders that end *)
(* its wait.  After some passes that found nothing to do the engine parks: *)
(* it raises `parked', looks once more at the command channel and polls    *)
(* its sockets and the waker's own datagram socket.  A sender puts its     *)
(* command in the channel (ControlSender::send) or in the list of deferred *)
(* commands (CommandClock::defer) and then wakes the engine: the first     *)
(* that finds `parked' up takes it down and posts a datagram.              *)
(*                                                                         *)
(* Every atomic access is a step of its own.  The timeout of the poll is a *)
(* step the engine may take but that no property relies on: what is shown  *)
(* holds for the wake alone.                                               *)
(***************************************************************************)
EXTENDS Integers

CONSTANTS
    Senders,        \* the threads that send commands
    IdlePasses,     \* IDLE_PASSES_BEFORE_WAIT: idle passes before the engine parks
    MaxSends        \* bound: commands sent in a behaviour

ASSUME EngineParkAssumption == IdlePasses \in Nat \ {0} /\ MaxSends \in Nat

VARIABLES
    chan,           \* commands in the channel
    deferred,       \* commands in CommandClock.deferred
    sends,          \* commands sent so far (for the bound)
    parked,         \* Waker.parked
    bytes,          \* datagrams in the waker's socket
    data,           \* a connection has data to read
    eng,            \* where the engine is
    idle,           \* HotLoop.idle_passes
    active,         \* HotLoop.pass_active, or bytes were read in this pass
    readable,       \* the poll reported the waker's socket readable
    senderAt        \* where a sender is: about to do this

engineVars == <<eng, idle, active, readable>>
parkVars == <<chan, deferred, sends, parked, bytes, data, engineVars, senderAt>>

ParkTypeOK ==
    /\ chan \in Nat
    /\ deferred \in Nat
    /\ sends \in 0 .. MaxSends
    /\ parked \in BOOLEAN
    /\ bytes \in Nat
    /\ data \in BOOLEAN
    /\ eng \in {"poll", "take", "end", "pending", "wait", "clear", "drain"}
    /\ idle \in 0 .. IdlePasses
    /\ active \in BOOLEAN
    /\ readable \in BOOLEAN
    /\ senderAt \in [Senders -> {"idle", "load", "swap", "post"}]

ParkInit ==
    /\ chan = 0
    /\ deferred = 0
    /\ sends = 0
    /\ parked = FALSE
    /\ bytes = 0
    /\ data = FALSE
    /\ eng = "poll"
    /\ idle = 0
    /\ active = FALSE
    /\ readable = FALSE
    /\ senderAt = [s \in Senders |-> "idle"]

-----------------------------------------------------------------------------
\* Mutant of Send: the engine is not woken.
SendNoWake(s) ==
    /\ senderAt[s] = "idle"
    /\ sends < MaxSends
    /\ chan' = chan + 1
    /\ sends' = sends + 1
    /\ UNCHANGED <<deferred, parked, bytes, data, engineVars, senderAt>>

\* ControlSender::send: the command goes in the channel, then the wake.
Send(s) ==
    /\ senderAt[s] = "idle"
    /\ sends < MaxSends
    /\ chan' = chan + 1
    /\ sends' = sends + 1
    /\ senderAt' = [senderAt EXCEPT ![s] = "load"]
    /\ UNCHANGED <<deferred, parked, bytes, data, engineVars>>

\* CommandClock::defer: the command goes in the list, then the wake.
Defer(s) ==
    /\ senderAt[s] = "idle"
    /\ sends < MaxSends
    /\ deferred' = deferred + 1
    /\ sends' = sends + 1
    /\ senderAt' = [senderAt EXCEPT ![s] = "load"]
    /\ UNCHANGED <<chan, parked, bytes, data, engineVars>>

\* Waker::wake: parked.load, and nothing more when the engine is not waiting.
WakeLoad(s) ==
    /\ senderAt[s] = "load"
    /\ senderAt' = [senderAt EXCEPT ![s] = IF parked THEN "swap" ELSE "idle"]
    /\ UNCHANGED <<chan, deferred, sends, parked, bytes, data, engineVars>>

\* Waker::wake: parked.swap(false), won by one sender.
WakeSwap(s) ==
    /\ senderAt[s] = "swap"
    /\ parked' = FALSE
    /\ senderAt' = [senderAt EXCEPT ![s] = IF parked THEN "post" ELSE "idle"]
    /\ UNCHANGED <<chan, deferred, sends, bytes, data, engineVars>>

\* Waker::wake: socket.send.
WakePost(s) ==
    /\ senderAt[s] = "post"
    /\ bytes' = bytes + 1
    /\ senderAt' = [senderAt EXCEPT ![s] = "idle"]
    /\ UNCHANGED <<chan, deferred, sends, parked, data, engineVars>>

\* A peer sends: a connection becomes readable.
DataArrives ==
    /\ ~data
    /\ data' = TRUE
    /\ UNCHANGED <<chan, deferred, sends, parked, bytes, engineVars, senderAt>>

-----------------------------------------------------------------------------
\* A pass of HotLoop::run reads the connections and drains the channel (the
\* first part of poll_control_commands).
PollChannel ==
    /\ eng = "poll"
    /\ active' = (data \/ chan > 0)
    /\ data' = FALSE
    /\ chan' = 0
    /\ eng' = "take"
    /\ UNCHANGED <<deferred, sends, parked, bytes, idle, readable, senderAt>>

\* The second part: CommandClock::take_deferred, and the commands are handled.
TakeDeferred ==
    /\ eng = "take"
    /\ active' = (active \/ deferred > 0)
    /\ deferred' = 0
    /\ eng' = "end"
    /\ UNCHANGED <<chan, sends, parked, bytes, data, idle, readable, senderAt>>

\* The end of a pass: idle passes are counted.  The engine goes on at once
\* when there was something to do, and also (wait_for_work returns early)
\* while a market data pass is due or output waits for a slow peer.
KeepPolling ==
    /\ eng = "end"
    /\ idle' = IF active THEN 0 ELSE IF idle < IdlePasses THEN idle + 1 ELSE idle
    /\ eng' = "poll"
    /\ UNCHANGED <<chan, deferred, sends, parked, bytes, data, active, readable, senderAt>>

\* The end of a pass that makes the engine park: Parker::park raises parked.
Park ==
    /\ eng = "end"
    /\ ~active
    /\ idle + 1 >= IdlePasses
    /\ idle' = IdlePasses
    /\ parked' = TRUE
    /\ readable' = FALSE
    /\ eng' = "pending"
    /\ UNCHANGED <<chan, deferred, sends, bytes, data, active, senderAt>>

\* Mutant of CheckPending: the channel is not looked at again.
CheckPendingLeftOut ==
    /\ eng = "pending"
    /\ eng' = "wait"
    /\ UNCHANGED <<chan, deferred, sends, parked, bytes, data, idle, active, readable, senderAt>>

\* Parker::park asks `pending' (the channel is not empty): no wait then.
CheckPending ==
    /\ eng = "pending"
    /\ eng' = IF chan > 0 THEN "clear" ELSE "wait"
    /\ UNCHANGED <<chan, deferred, sends, parked, bytes, data, idle, active, readable, senderAt>>

\* sys::wait returns: a connection or the waker's socket is readable.
Wake ==
    /\ eng = "wait"
    /\ data \/ bytes > 0
    /\ readable' = (bytes > 0)
    /\ eng' = "clear"
    /\ UNCHANGED <<chan, deferred, sends, parked, bytes, data, idle, active, senderAt>>

\* sys::wait returns: WAIT_TIMEOUT_MS passed.
Timeout ==
    /\ eng = "wait"
    /\ ~data /\ bytes = 0
    /\ eng' = "clear"
    /\ UNCHANGED <<chan, deferred, sends, parked, bytes, data, idle, active, readable, senderAt>>

\* Parker::park takes parked down.
ClearParked ==
    /\ eng = "clear"
    /\ parked' = FALSE
    /\ eng' = "drain"
    /\ UNCHANGED <<chan, deferred, sends, bytes, data, idle, active, readable, senderAt>>

\* Waker::drain, when the poll reported the socket readable.
Drain ==
    /\ eng = "drain"
    /\ bytes' = IF readable THEN 0 ELSE bytes
    /\ eng' = "poll"
    /\ UNCHANGED <<chan, deferred, sends, parked, data, idle, active, readable, senderAt>>

SenderStep(s) == WakeLoad(s) \/ WakeSwap(s) \/ WakePost(s)

EngineStep ==
    \/ PollChannel \/ TakeDeferred \/ KeepPolling \/ Park
    \/ CheckPending \/ Wake \/ ClearParked \/ Drain

ParkNext ==
    \/ \E s \in Senders : Send(s) \/ Defer(s) \/ SenderStep(s)
    \/ DataArrives
    \/ EngineStep
    \/ Timeout

ParkSpec == ParkInit /\ [][ParkNext]_parkVars

\* The threads are scheduled: a sender that has sent its command finishes the
\* wake, the engine goes on when it can.  Nothing is assumed of the timeout
\* nor of the peers.
ParkFairSpec == ParkSpec /\ WF_parkVars(EngineStep) /\ \A s \in Senders : WF_parkVars(SenderStep(s))

-----------------------------------------------------------------------------
\* A sender is in its wake, or has posted the datagram that ends the wait.
WakeUnderWay == bytes > 0 \/ \E s \in Senders : senderAt[s] # "idle"

\* `none is slept on' (Parker::park): while the engine waits with a command
\* in the channel, something is under way that ends the wait.  (It does not
\* hold of CommandClock.deferred, which `pending' does not look at: a command
\* deferred after TakeDeferred and before `parked' is set waits for Timeout.)
NoCommandSleptOn == eng = "wait" /\ chan > 0 => WakeUnderWay

\* A command in the channel is taken, with no help of the poll's timeout.
CommandsTaken == chan > 0 ~> chan = 0
=============================================================================
