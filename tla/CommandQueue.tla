---------------------------- MODULE CommandQueue ----------------------------
(***************************************************************************)
(* The commands of the callers on their way to the engine: the channel and *)
(* its ordinals (ControlSender in src/engine/park.rs), the counts and the  *)
(* deferred list of CommandClock (src/bridge.rs), and the engine's queue   *)
(* as HotLoop::poll_control_commands takes it: deferred answers put behind *)
(* the commands sent before them, requests paced and held while a contract *)
(* lookup is on its way, commands aside taken past them.                   *)
(*                                                                         *)
(* A command is [by, n, kind]: its caller, the caller's count of calls and *)
(* its kind.  How many requests the pacer lets through in a pass is any    *)
(* number here; module Pacer is about that number.                         *)
(***************************************************************************)
EXTENDS Integers, Sequences, FiniteSets, FiniteSetsExt, SequencesExt, Picks

CONSTANTS
    Callers,        \* the threads that make requests
    KindsOf,        \* the kinds of calls each of them makes
    CallsOf,        \* bound: the calls of each caller
    MaxCalls        \* bound: the calls of all callers together

\* What is sent by the channel, and what the caller answers itself.
SendKinds == {"request", "lookup", "order", "unpaced", "aside", "shutdown"}
LocalKinds == {"error", "turn"}

ASSUME CommandQueueAssumption ==
    /\ KindsOf \in [Callers -> SUBSET (SendKinds \cup LocalKinds)]
    /\ CallsOf \in [Callers -> Nat] /\ MaxCalls \in Nat

VARIABLES
    chan,           \* the command channel
    sent,           \* CommandClock.sent
    handled,        \* CommandClock.handled
    deferred,       \* CommandClock.deferred: the command and what it follows
    running,        \* CommandClock.running
    paced,          \* CommandClock.paced, HotLoop.pacer is Some: for the whole session
    queue,          \* HotLoop.cmd_queue
    received,       \* HotLoop.cmd_received
    taking,         \* what take_deferred gave, not yet put in the queue
    eng,            \* where the engine is in its pass
    lookups,        \* the requests whose contract lookup has not answered
    holdOver,       \* it is older than LOOKUP_HOLD_LIMIT
    resolved,       \* the requests whose lookup answered, taken first
    parked,         \* those that wait for their contract's definition
    ready,          \* those whose definition came, taken behind `resolved'
    pc,             \* where a caller is in its call
    arg,            \* the command of the call
    mark,           \* the count a call read of `sent'
    calls,          \* the calls of each caller so far
    answers,        \* the commands in the order they were answered
    late            \* history: those answered out of order, for a wait that ran
                    \* out or a definition they waited for

clockVars == <<sent, handled, deferred, running, paced>>
engineVars == <<queue, received, taking, eng, lookups, holdOver, resolved, parked, ready>>
callVars == <<pc, arg, mark, calls>>
vars == <<chan, clockVars, engineVars, callVars, answers, late>>

Commands == [by : Callers, n : Nat, kind : SendKinds \cup LocalKinds]

\* A command of the list and the count of those it follows, and one of the queue.
Deferrals == [after : Nat, cmd : Commands]
Queued == [ordinal : Nat, channel : BOOLEAN, cmd : Commands]

TypeOK ==
    /\ chan \in Seq(Commands)
    /\ sent \in Nat /\ handled \in Nat /\ received \in Nat
    /\ deferred \in Seq(Deferrals) /\ taking \in Seq(Deferrals)
    /\ running \in BOOLEAN /\ paced \in BOOLEAN
    /\ queue \in Seq(Queued)
    /\ eng \in {"drain", "deferred", "handle", "stop", "clear", "ended"}
    /\ lookups \subseteq Commands /\ holdOver \in BOOLEAN
    /\ resolved \in Seq(Commands)
    /\ parked \subseteq Commands /\ ready \in Seq(Commands)
    /\ pc \in [Callers -> {"free", "count", "after", "push", "turn", "target", "wait"}]
    /\ arg \in [Callers -> Commands]
    /\ mark \in [Callers -> Nat]
    /\ calls \in [Callers -> Nat]
    /\ answers \in Seq(Commands)
    /\ late \subseteq Commands

\* The argument of a caller that has made no call.
NoCall(c) == [by |-> c, n |-> 0, kind |-> "turn"]

Init ==
    /\ chan = <<>>
    /\ sent = 0 /\ handled = 0 /\ received = 0
    /\ deferred = <<>> /\ taking = <<>>
    /\ running = TRUE /\ paced \in BOOLEAN
    /\ queue = <<>>
    /\ eng = "drain"
    /\ lookups = {} /\ holdOver = FALSE /\ resolved = <<>>
    /\ parked = {} /\ ready = <<>>
    /\ pc = [c \in Callers |-> "free"]
    /\ arg = [c \in Callers |-> NoCall(c)]
    /\ mark = [c \in Callers |-> 0]
    /\ calls = [c \in Callers |-> 0]
    /\ answers = <<>>
    /\ late = {}

-----------------------------------------------------------------------------
(***************************************************************************)
(* The callers.                                                            *)
(***************************************************************************)
Call(c, kind) ==
    /\ pc[c] = "free"
    /\ calls[c] < CallsOf[c] /\ MapThenSumSet(LAMBDA d : calls[d], Callers) < MaxCalls
    /\ calls' = [calls EXCEPT ![c] = @ + 1]
    /\ arg' = [arg EXCEPT ![c] = [by |-> c, n |-> calls[c] + 1, kind |-> kind]]

\* ControlSender::send: the command goes in the channel (an error once the
\* engine has gone, and nothing is counted).
Send(c) ==
    /\ \E kind \in KindsOf[c] \cap SendKinds : Call(c, kind)
    /\ IF eng = "ended"
       THEN UNCHANGED <<chan, pc>>
       ELSE /\ chan' = Append(chan, arg'[c])
            /\ pc' = [pc EXCEPT ![c] = "count"]
    /\ UNCHANGED <<clockVars, engineVars, mark, answers, late>>

\* CommandClock::note_sent.
NoteSent(c) ==
    /\ pc[c] = "count"
    /\ sent' = sent + 1
    /\ pc' = [pc EXCEPT ![c] = "free"]
    /\ UNCHANGED <<chan, handled, deferred, running, paced, engineVars, arg, mark, calls, answers, late>>

\* A request the caller answers itself.  CommandClock::takes_turns: through the
\* engine while it paces and runs; otherwise an error is written by the caller
\* once the commands before it are handled, and a turn has come at once.
Local(c) ==
    \E kind \in KindsOf[c] \cap LocalKinds :
        /\ Call(c, kind)
        /\ pc' = [pc EXCEPT ![c] = IF paced /\ running THEN "after"
                                   ELSE IF kind = "error" THEN "target" ELSE "free"]
        /\ UNCHANGED <<chan, clockVars, engineVars, mark, answers, late>>

\* CommandClock::defer: `sent' is read, then the command is put in the list.
DeferAfter(c) ==
    /\ pc[c] = "after"
    /\ mark' = [mark EXCEPT ![c] = sent]
    /\ pc' = [pc EXCEPT ![c] = "push"]
    /\ UNCHANGED <<chan, clockVars, engineVars, arg, calls, answers, late>>

\* take_turn then waits for the reply; an error is the engine's from here.
DeferPush(c) ==
    /\ pc[c] = "push"
    /\ deferred' = Append(deferred, [after |-> mark[c], cmd |-> arg[c]])
    /\ pc' = [pc EXCEPT ![c] = IF arg[c].kind = "turn" THEN "turn" ELSE "free"]
    /\ UNCHANGED <<chan, sent, handled, running, paced, engineVars, arg, mark, calls, answers, late>>

\* CommandClock::wait_for_earlier_commands reads `sent'...
WaitTarget(c) ==
    /\ pc[c] = "target"
    /\ mark' = [mark EXCEPT ![c] = sent]
    /\ pc' = [pc EXCEPT ![c] = "wait"]
    /\ UNCHANGED <<chan, clockVars, engineVars, arg, calls, answers, late>>

\* Mutant of WaitDone: one command short.
WaitDoneShort(c) ==
    /\ pc[c] = "wait"
    /\ handled + 1 >= mark[c] \/ ~running
    /\ answers' = Append(answers, arg[c])
    /\ pc' = [pc EXCEPT ![c] = "free"]
    /\ UNCHANGED <<chan, clockVars, engineVars, arg, mark, calls, late>>

\* ... and waits until as many are handled, or the engine no longer runs; then
\* the error is written.
WaitDone(c) ==
    /\ pc[c] = "wait"
    /\ handled >= mark[c] \/ ~running
    /\ answers' = Append(answers, arg[c])
    /\ pc' = [pc EXCEPT ![c] = "free"]
    /\ UNCHANGED <<chan, clockVars, engineVars, arg, mark, calls, late>>

\* LIMIT has passed: the error is written anyway.
WaitExpires(c) ==
    /\ pc[c] = "wait"
    /\ handled < mark[c] /\ running
    /\ answers' = Append(answers, arg[c])
    /\ late' = late \cup {arg[c]}
    /\ pc' = [pc EXCEPT ![c] = "free"]
    /\ UNCHANGED <<chan, clockVars, engineVars, arg, mark, calls>>

\* TURN_LIMIT has passed: the call goes on without its turn.
TurnExpires(c) ==
    /\ pc[c] = "turn"
    /\ late' = late \cup {arg[c]}
    /\ pc' = [pc EXCEPT ![c] = "free"]
    /\ UNCHANGED <<chan, clockVars, engineVars, arg, mark, calls, answers>>

-----------------------------------------------------------------------------
(***************************************************************************)
(* The engine.                                                             *)
(***************************************************************************)
\* Mutant of IsAside: a further command of a request is housekeeping too.
IsAsideWide(cmd) == cmd.kind \in {"aside", "shutdown", "unpaced"}

\* pacer.rs, by the kind of the command.
IsAside(cmd) == cmd.kind \in {"aside", "shutdown"}
IsRequest(cmd) == cmd.kind # "unpaced" /\ ~IsAside(cmd)
MayLookUp(cmd) == cmd.kind = "lookup"
PassesLookupHold(cmd) == cmd.kind = "order"

\* poll_control_commands: the channel is drained, each command with its ordinal.
DrainChannel ==
    /\ eng = "drain"
    /\ queue' = queue \o [i \in 1 .. Len(chan) |->
                            [ordinal |-> received + i, channel |-> TRUE, cmd |-> chan[i]]]
    /\ received' = received + Len(chan)
    /\ chan' = <<>>
    /\ eng' = "deferred"
    /\ UNCHANGED <<clockVars, taking, lookups, holdOver, resolved, parked, ready, callVars, answers, late>>

\* Mutant of Places: ahead of the command it follows.
PlacesBefore(q, after) == {Cardinality({i \in DOMAIN q : q[i].ordinal < after})}

\* partition_point: where the binary search for `after' may end.  One place in
\* a queue in the order of its ordinals; the queue is not always (a deferred
\* command may come before the commands it follows).
Places(q, after) ==
    {at \in 0 .. Len(q) : /\ at > 0 => q[at].ordinal <= after
                          /\ at < Len(q) => q[at + 1].ordinal > after}

\* The queues that may result when a deferred command is put in.
Inserted(q, d) ==
    {InsertAt(q, at + 1, [ordinal |-> d.after, channel |-> FALSE, cmd |-> d.cmd]) :
        at \in Places(q, d.after)}

\* CommandClock::take_deferred, when the engine paces: the list is taken...
TakeDeferred ==
    /\ eng = "deferred"
    /\ IF paced
       THEN taking' = deferred /\ deferred' = <<>>
       ELSE UNCHANGED <<taking, deferred>>
    /\ eng' = "handle"
    /\ UNCHANGED <<chan, sent, handled, running, paced, queue, received, lookups, holdOver, resolved,
                   parked, ready, callVars, answers, late>>

\* ... and its commands are put in the queue, one after the other.
InsertDeferred ==
    /\ eng = "handle"
    /\ taking # <<>>
    /\ queue' \in Inserted(queue, Head(taking))
    /\ taking' = Tail(taking)
    /\ UNCHANGED <<chan, clockVars, received, eng, lookups, holdOver, resolved, parked, ready, callVars, answers, late>>

\* The requests among the first i commands of the queue.
Requests(i) == Cardinality({j \in 1 .. i : IsRequest(queue[j].cmd)})

\* Mutant of Held: only an answer that is still due holds the requests.
HeldByPending(i) == lookups # {} /\ ~holdOver


\* The requests wait for a lookup: one on its way (lookup_holds), or one that
\* a request taken in this pass may start.
Held(i) ==
    \/ lookups # {} /\ ~holdOver
    \/ \E j \in 1 .. i - 1 : MayLookUp(queue[j].cmd)

\* The command at place i is taken, if those before it are.
Admitted(i, budget) ==
    IsRequest(queue[i].cmd) =>
        /\ Held(i) => PassesLookupHold(queue[i].cmd)
        /\ Requests(i) <= budget

\* The pass takes the first m commands of the queue, given how many requests
\* the pacer lets through: all of them without a pacer or at a shutdown.
TakesFirst(m, budget) ==
    IF ~paced \/ \E i \in DOMAIN queue : queue[i].cmd.kind = "shutdown"
    THEN m = Len(queue)
    ELSE /\ \A i \in 1 .. m : Admitted(i, budget)
         /\ m < Len(queue) => ~Admitted(m + 1, budget)

\* The commands note_handled is told of: those of the channel.
Counted(taken) == Cardinality({i \in DOMAIN taken : taken[i].channel})

Commanded(q) == [i \in DOMAIN q |-> q[i].cmd]

\* A request given by its conId may wait for the contract's definition, or for
\* its option's company, which is one wait here (def_parked, company_parked).
MayPark(cmd) == cmd.kind = "request"

\* The front of the queue is taken, then what is aside of the requests that
\* wait.  The requests whose lookup answered go first, then those whose
\* definition came; the commands taken are answered in their order, but for
\* those that go to a lookup, and counted (note_handled).  One that waits for a
\* definition, taken now or looked up before, holds no other request.  A turn
\* that comes frees its caller.
Handle(budget) ==
    \E m \in 0 .. Len(queue) :
        LET rest == SubSeq(queue, m + 1, Len(queue))
            aside == {e \in ToSet(rest) : IsAside(e.cmd)}
            taken == SubSeq(queue, 1, m) \o Kept(rest, aside)
            cmds == Commanded(taken)
            turns == {c \in Callers : pc[c] = "turn" /\ arg[c] \in ToSet(cmds)}
            mayLookUp == {cmd \in ToSet(cmds) : MayLookUp(cmd)}
            mayPark == {cmd \in ToSet(cmds) : MayPark(cmd)}
            stops == \E cmd \in ToSet(cmds) : cmd.kind = "shutdown"
        IN
        /\ eng = "handle" /\ taking = <<>>
        /\ TakesFirst(m, budget)
        /\ queue' = Kept(rest, ToSet(rest) \ aside)
        /\ \E started \in SUBSET mayLookUp, parks \in SUBSET (mayPark \cup ToSet(resolved)) :
            /\ lookups' = lookups \cup started
            /\ parked' = parked \cup parks
            /\ late' = late \cup parks
            /\ answers' = answers \o (Kept(resolved, ToSet(resolved) \ parks) \o ready)
                                 \o Kept(cmds, ToSet(cmds) \ (started \cup parks))
        /\ holdOver' = (holdOver /\ mayLookUp = {} /\ lookups # {})
        /\ resolved' = <<>> /\ ready' = <<>>
        /\ handled' = handled + Counted(taken)
        /\ pc' = [c \in Callers |-> IF c \in turns THEN "free" ELSE pc[c]]
        /\ eng' = IF stops THEN "stop" ELSE "drain"
        /\ UNCHANGED <<chan, sent, deferred, running, paced, received, taking, arg, mark, calls>>

\* A lookup's answer comes (in poll_auth, ahead of the commands of the pass).
LookupAnswered ==
    /\ eng = "drain"
    /\ \E cmd \in lookups :
        /\ lookups' = lookups \ {cmd}
        /\ resolved' = Append(resolved, cmd)
    /\ UNCHANGED <<chan, clockVars, queue, received, taking, eng, holdOver, parked, ready, callVars, answers, late>>

\* A definition comes, or its time ran out (release_lot_parked,
\* send_lot_ready): the request goes back to the commands.
DefinitionCame ==
    /\ eng = "drain"
    /\ \E cmd \in parked :
        /\ parked' = parked \ {cmd}
        /\ ready' = Append(ready, cmd)
    /\ UNCHANGED <<chan, clockVars, queue, received, taking, eng, lookups, holdOver, resolved, callVars,
                   answers, late>>

\* LOOKUP_HOLD_LIMIT has passed: the requests no longer wait for the lookups.
HoldLimit ==
    /\ lookups # {} /\ ~holdOver
    /\ holdOver' = TRUE
    /\ late' = late \cup lookups
    /\ UNCHANGED <<chan, clockVars, queue, received, taking, eng, lookups, resolved, parked, ready,
                   callVars, answers>>

\* The loop has ended: CommandClock::set_running(false)...
StopRunning ==
    /\ eng = "stop"
    /\ running' = FALSE
    /\ eng' = "clear"
    /\ UNCHANGED <<chan, sent, handled, deferred, paced, queue, received, taking, lookups, holdOver, resolved,
                   parked, ready, callVars, answers, late>>

\* ... clears the list, so that the reply channels of the turns in it close and
\* their callers go on; then the channel goes with the engine.
EndRun ==
    /\ eng = "clear"
    /\ LET dropped == {deferred[i].cmd : i \in DOMAIN deferred}
       IN  pc' = [c \in Callers |-> IF pc[c] = "turn" /\ arg[c] \in dropped THEN "free" ELSE pc[c]]
    /\ deferred' = <<>>
    /\ chan' = <<>>
    /\ eng' = "ended"
    /\ UNCHANGED <<sent, handled, running, paced, queue, received, taking, lookups, holdOver, resolved,
                   parked, ready, arg, mark, calls, answers, late>>

CallerStep(c) ==
    \/ NoteSent(c) \/ DeferAfter(c) \/ DeferPush(c)
    \/ WaitTarget(c) \/ WaitDone(c) \/ WaitExpires(c) \/ TurnExpires(c)

EngineStep ==
    \/ DrainChannel \/ TakeDeferred \/ InsertDeferred \/ StopRunning \/ EndRun
    \/ \E budget \in 0 .. Len(queue) : Handle(budget)

Next ==
    \/ \E c \in Callers : Send(c) \/ Local(c) \/ CallerStep(c)
    \/ EngineStep
    \/ LookupAnswered \/ DefinitionCame \/ HoldLimit

Spec == Init /\ [][Next]_vars

\* The engine's loop and the callers go on.  A request that waits at the front
\* is let through in the end (the pacer allows one in each of its steps), and
\* a lookup or a definition is answered, or swept when it has no answer.  That a
\* wait of a caller runs out is never counted on.
Fairness ==
    /\ WF_vars(\E c \in Callers :
                  NoteSent(c) \/ DeferAfter(c) \/ DeferPush(c) \/ WaitTarget(c) \/ WaitDone(c))
    /\ WF_vars(DrainChannel \/ TakeDeferred \/ InsertDeferred \/ StopRunning \/ EndRun)
    /\ SF_vars(Handle(1))
    /\ SF_vars(LookupAnswered) /\ SF_vars(DefinitionCame)

FairSpec == Spec /\ Fairness

-----------------------------------------------------------------------------
(***************************************************************************)
(* Properties.                                                             *)
(***************************************************************************)
\* The answers of one caller's calls that satisfy P come in the order of the
\* calls, but for those a wait that ran out let go, and those that waited for
\* the definition of their contract.
InOrder(P(_)) ==
    \A i, j \in DOMAIN answers :
        LET x == answers[i]
            y == answers[j]
        IN  (i < j /\ x.by = y.by /\ P(x) /\ P(y) /\ {x, y} \cap late = {}) => x.n < y.n

\* All calls are of one caller.  With more, a command is in the channel before
\* it is counted, and the count another caller reads can leave out a command of
\* its own in favour of that one.
OneCaller == \A c, d \in Callers : calls[c] > 0 /\ calls[d] > 0 => c = d

\* With the requests paced, those a caller sends are answered in the order it
\* sent them, also when one waits for a contract lookup and the others are held
\* behind it (poll_control_commands, "One request at a time").  Orders pass a
\* lookup; without a pacer nothing is held; and a request that waits for the
\* definition of its contract does not hold those behind it (lookup_holds).
RequestsInOrder ==
    paced => InOrder(LAMBDA cmd : cmd.kind \in {"request", "lookup"})

\* A further command of a request is never taken before the request, whatever
\* the pacer holds back (poll_control_commands, "passes in its turn").
FurtherInTurn == InOrder(LAMBDA cmd : cmd.kind \in {"request", "unpaced", "order"})

\* CommandClock: with the requests not paced, an error the client writes itself
\* comes behind the answers of the commands its thread sent before, those of a
\* lookup or a definition and those aside of the requests excepted (with one
\* caller).
AnswersInOrder ==
    ~paced /\ OneCaller => InOrder(LAMBDA cmd : cmd.kind \in {"request", "unpaced", "error"})

\* With the requests paced and one caller, an answer of the client itself is put
\* behind every command made before it that the engine has received (one sent
\* since the channel was drained comes behind it, in the next pass).
LocalBehindReceived ==
    [][OneCaller => \A j \in DOMAIN queue' :
        LET local == queue'[j].cmd
        IN  ~queue'[j].channel /\ (\A i \in DOMAIN queue : queue[i].cmd # local) =>
                \A i \in DOMAIN queue' :
                    queue'[i].cmd.by = local.by /\ queue'[i].cmd.n < local.n => i < j]_vars

=============================================================================
