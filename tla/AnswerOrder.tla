---------------------------- MODULE AnswerOrder -----------------------------
(***************************************************************************)
(* The answers of a session on their way to the client's wrapper: the      *)
(* answer clock and the queue of each kind (SeqQueue, StateMark in         *)
(* src/bridge.rs), the client's own answers (EClient::later), the inbox of *)
(* a client (src/client_core/inbox.rs) and the pass that gives them        *)
(* (process_msgs in src/api/client/dispatch.rs), with the end of the       *)
(* session.                                                                *)
(*                                                                         *)
(* An answer is the count it took of the answer clock.  The engine writes  *)
(* answers and changes the session's state; other threads of the caller    *)
(* write errors into the queues; a passer is a thread in process_msgs.     *)
(* The market data steps, which have marks of their own (md_events), are   *)
(* not in this module: the state mark is the other state's.                *)
(***************************************************************************)
EXTENDS Integers, Sequences, FiniteSets, FiniteSetsExt, SequencesExt

CONSTANTS
    Kinds,          \* the kinds of answers, one queue each
    Engine,         \* the engine thread
    Callers,        \* threads of the caller that write errors into the queues
    Laters,         \* threads of the caller that answer themselves, beside a passer
    Passers,        \* threads that call process_msgs
    MaxCount,       \* bound: the answer clock stops here
    MaxChanges,     \* bound: changes of the session's state
    Programs        \* the programs considered: the threads each has, and its bounds

ASSUME AnswerOrderAssumption ==
    /\ Engine \notin Callers \cup Laters \cup Passers
    /\ IsFiniteSet(Passers)
    /\ MaxCount \in Nat \ {0} /\ MaxChanges \in 0 .. MaxCount
    /\ Programs \subseteq [callers : SUBSET Callers, laters : SUBSET Laters,
                          passers : SUBSET Passers, counts : 0 .. MaxCount,
                          changes : 0 .. MaxChanges]

Writers == {Engine} \cup Callers

\* No count: nothing held, no answer of a kind waits (u64::MAX).
None == MaxCount + 1

VARIABLES
    program,        \* the program that runs
    clock,          \* the answer clock: the next count
    queue,          \* SeqQueue.items of each kind
    hold,           \* the push a writer is in: its kind and count, under the lock
    local,          \* EClient.local: the client's own answers
    stamp,          \* the count a thread took in `later' and has not pushed yet
    inbox,          \* ClientCore.inbox: answers taken and not given yet
    takenAt,        \* its taken_at
    mark,           \* StateMark.at: the count plus one, 0 for no change
    noting,         \* where the engine is in StateMark::note
    noteAt,         \* the count it took there
    state,          \* the changes of the session's state so far
    ppc,            \* where a passer is in process_msgs
    mine,           \* the inbox a passer has in hand
    mineAt,         \* its taken_at
    mineLocal,      \* the own answers a passer has in hand
    written,        \* the clock as a passer read it
    todo,           \* the kinds a passer has not taken yet
    shown,          \* the last change of the state the client was given
    given,          \* what the wrapper was given: answer, and `shown' then
    need,           \* the state an answer of the engine was written after (-2: of
                    \* another thread; -1: the count of a change of the state)
    lost,           \* SharedState.connection_lost
    connected,      \* EClient.connected
    closed          \* the connection_closed callbacks so far

writeVars == <<clock, queue, hold, local, stamp, mark, noting, noteAt, state, need>>
passVars == <<inbox, takenAt, ppc, mine, mineAt, mineLocal, written, todo, shown, given>>
endVars == <<lost, connected, closed>>
vars == <<program, writeVars, passVars, endVars>>

NoAnswers == [k \in Kinds |-> <<>>]

TypeOK ==
    /\ program \in Programs
    /\ clock \in 1 .. MaxCount
    /\ queue \in [Kinds -> Seq(1 .. MaxCount)]
    /\ hold \in [Writers -> {<<>>} \cup (Kinds \X (1 .. MaxCount))]
    /\ local \in Seq(1 .. MaxCount)
    /\ stamp \in [Laters -> 0 .. MaxCount]
    /\ inbox \in [Kinds -> Seq(1 .. MaxCount)]
    /\ takenAt \in 0 .. MaxCount
    /\ mark \in 0 .. MaxCount + 1
    /\ noting \in {"no", "load", "count", "mark"}
    /\ noteAt \in 0 .. MaxCount
    /\ state \in 0 .. MaxChanges
    /\ ppc \in [Passers -> {"idle", "inbox", "clock", "take", "give", "read", "merge",
                            "last", "lastRead", "end", "close"}]
    /\ mine \in [Passers -> [Kinds -> Seq(1 .. MaxCount)]]
    /\ mineAt \in [Passers -> 0 .. MaxCount]
    /\ mineLocal \in [Passers -> Seq(1 .. MaxCount)]
    /\ written \in [Passers -> 0 .. MaxCount]
    /\ todo \in [Passers -> SUBSET Kinds]
    /\ shown \in 0 .. MaxCount
    /\ given \in Seq([at : 1 .. MaxCount, shown : 0 .. MaxCount])
    /\ need \in [1 .. MaxCount -> -2 .. MaxCount]
    /\ lost \in BOOLEAN
    /\ connected \in BOOLEAN
    /\ closed \in 0 .. 1

Init ==
    /\ program \in Programs
    /\ clock = 1
    /\ queue = NoAnswers
    /\ hold = [w \in Writers |-> <<>>]
    /\ local = <<>>
    /\ stamp = [c \in Laters |-> 0]
    /\ inbox = NoAnswers
    /\ takenAt = 0
    /\ mark = 0
    /\ noting = "no"
    /\ noteAt = 0
    /\ state = 0
    /\ ppc = [p \in Passers |-> "idle"]
    /\ mine = [p \in Passers |-> NoAnswers]
    /\ mineAt = [p \in Passers |-> 0]
    /\ mineLocal = [p \in Passers |-> <<>>]
    /\ written = [p \in Passers |-> 0]
    /\ todo = [p \in Passers |-> {}]
    /\ shown = 0
    /\ given = <<>>
    /\ need = [c \in 1 .. MaxCount |-> -2]
    /\ lost = FALSE
    /\ connected = TRUE
    /\ closed = 0

-----------------------------------------------------------------------------
(***************************************************************************)
(* Writing: the engine and the threads of the caller.                      *)
(***************************************************************************)
Locked(k) == \E w \in Writers : hold[w] # <<>> /\ hold[w][1] = k

\* The engine's thread runs one call at a time.
EngineFree == hold[Engine] = <<>> /\ noting = "no"

\* SeqQueue::push takes the lock of its queue, then the next count.
Count(w, k) ==
    /\ hold[w] = <<>>
    /\ ~Locked(k)
    /\ clock < program.counts
    /\ w = Engine => EngineFree
    /\ hold' = [hold EXCEPT ![w] = <<k, clock>>]
    /\ clock' = clock + 1
    /\ need' = [need EXCEPT ![clock] = IF w = Engine THEN state ELSE -2]
    /\ UNCHANGED <<queue, local, stamp, mark, noting, noteAt, state, passVars, endVars>>

\* SeqQueue::push stores the answer and lets the lock go.
Push(w) ==
    /\ hold[w] # <<>>
    /\ queue' = [queue EXCEPT ![hold[w][1]] = Append(@, hold[w][2])]
    /\ hold' = [hold EXCEPT ![w] = <<>>]
    /\ UNCHANGED <<clock, local, stamp, mark, noting, noteAt, state, need, passVars, endVars>>

\* EClient::later on a thread beside the passer: the count, then the push.
LaterStamp(c) ==
    /\ stamp[c] = 0
    /\ clock < program.counts
    /\ stamp' = [stamp EXCEPT ![c] = clock]
    /\ clock' = clock + 1
    /\ UNCHANGED <<queue, hold, local, mark, noting, noteAt, state, need, passVars, endVars>>

LaterPush(c) ==
    /\ stamp[c] # 0
    /\ local' = Append(local, stamp[c])
    /\ stamp' = [stamp EXCEPT ![c] = 0]
    /\ UNCHANGED <<clock, queue, hold, mark, noting, noteAt, state, need, passVars, endVars>>

\* EClient::later on the thread of the passer: in a callback, or between two
\* passes.
LaterHere(p) ==
    /\ ppc[p] \in {"idle", "give"}
    /\ clock < program.counts
    /\ local' = Append(local, clock)
    /\ clock' = clock + 1
    /\ UNCHANGED <<queue, hold, stamp, mark, noting, noteAt, state, need, passVars, endVars>>

\* The engine changes the session's state, then calls StateMark::note.
ChangeState ==
    /\ EngineFree
    /\ state < program.changes
    /\ clock < program.counts
    /\ state' = state + 1
    /\ noting' = "load"
    /\ UNCHANGED <<clock, queue, hold, local, stamp, mark, noteAt, need, passVars, endVars>>

\* Mutant of NoteLoad: a change is never marked.
NoteLeftOut ==
    /\ noting = "load"
    /\ noting' = "no"
    /\ UNCHANGED <<clock, queue, hold, local, stamp, mark, noteAt, state, need, passVars, endVars>>

\* StateMark::note: one load when a change is already marked.
NoteLoad ==
    /\ noting = "load"
    /\ noting' = IF mark = 0 THEN "count" ELSE "no"
    /\ UNCHANGED <<clock, queue, hold, local, stamp, mark, noteAt, state, need, passVars, endVars>>

\* StateMark::note: the count, then the compare_exchange that marks it.
NoteCount ==
    /\ noting = "count"
    /\ clock < program.counts
    /\ noting' = "mark"
    /\ noteAt' = clock
    /\ clock' = clock + 1
    /\ need' = [need EXCEPT ![clock] = -1]
    /\ UNCHANGED <<queue, hold, local, stamp, mark, state, passVars, endVars>>

NoteMark ==
    /\ noting = "mark"
    /\ mark' = IF mark = 0 THEN noteAt + 1 ELSE mark
    /\ noting' = "no"
    /\ UNCHANGED <<clock, queue, hold, local, stamp, noteAt, state, need, passVars, endVars>>

\* SharedState::set_connection_lost: at the end of the engine's loop, or with
\* more to write after it, in a batch of commands (Shutdown) and at a logon
\* that shuts the API out (deny_api).
SetConnectionLost ==
    /\ EngineFree
    /\ lost' = TRUE
    /\ UNCHANGED <<writeVars, passVars, connected, closed>>

-----------------------------------------------------------------------------
(***************************************************************************)
(* A pass of process_msgs.                                                 *)
(***************************************************************************)
\* dispatch_answers takes the own answers out of their lock.
TakeLocal(p) ==
    /\ ppc[p] = "idle"
    /\ mineLocal' = [mineLocal EXCEPT ![p] = local]
    /\ local' = <<>>
    /\ ppc' = [ppc EXCEPT ![p] = "inbox"]
    /\ UNCHANGED <<clock, queue, hold, stamp, mark, noting, noteAt, state, need, inbox, takenAt, mine,
                   mineAt, written, todo, shown, given, endVars>>

\* dispatch_answers takes the inbox: a default one, taken_at 0, is left.
TakeInbox(p) ==
    /\ ppc[p] = "inbox"
    /\ mine' = [mine EXCEPT ![p] = inbox]
    /\ mineAt' = [mineAt EXCEPT ![p] = takenAt]
    /\ inbox' = NoAnswers
    /\ takenAt' = 0
    /\ ppc' = [ppc EXCEPT ![p] = "clock"]
    /\ UNCHANGED <<writeVars, mineLocal, written, todo, shown, given, endVars>>

\* Inbox::take reads the clock first; the queues are taken when it moved.
ReadClock(p) ==
    /\ ppc[p] = "clock"
    /\ written' = [written EXCEPT ![p] = clock]
    /\ todo' = [todo EXCEPT ![p] = IF clock # mineAt[p] THEN Kinds ELSE {}]
    /\ mineAt' = [mineAt EXCEPT ![p] = clock]
    /\ ppc' = [ppc EXCEPT ![p] = "take"]
    /\ UNCHANGED <<writeVars, inbox, takenAt, mine, mineLocal, shown, given, endVars>>

\* Mutant of TakeQueue: the lock of the queue is not taken.
TakeQueueUnlocked(p, k) ==
    /\ ppc[p] = "take"
    /\ k \in todo[p]
    /\ mine' = [mine EXCEPT ![p][k] = @ \o queue[k]]
    /\ queue' = [queue EXCEPT ![k] = <<>>]
    /\ todo' = [todo EXCEPT ![p] = @ \ {k}]
    /\ UNCHANGED <<clock, hold, local, stamp, mark, noting, noteAt, state, need, inbox, takenAt, ppc,
                   mineAt, mineLocal, written, shown, given, endVars>>

\* SeqQueue::drain_into, under the queue's lock.
TakeQueue(p, k) ==
    /\ ppc[p] = "take"
    /\ k \in todo[p]
    /\ ~Locked(k)
    /\ mine' = [mine EXCEPT ![p][k] = @ \o queue[k]]
    /\ queue' = [queue EXCEPT ![k] = <<>>]
    /\ todo' = [todo EXCEPT ![p] = @ \ {k}]
    /\ UNCHANGED <<clock, hold, local, stamp, mark, noting, noteAt, state, need, inbox, takenAt, ppc,
                   mineAt, mineLocal, written, shown, given, endVars>>

TakeDone(p) ==
    /\ ppc[p] = "take"
    /\ todo[p] = {}
    /\ ppc' = [ppc EXCEPT ![p] = "give"]
    /\ UNCHANGED <<writeVars, inbox, takenAt, mine, mineAt, mineLocal, written, todo,
                   shown, given, endVars>>

First(s) == IF s = <<>> THEN None ELSE Head(s)

\* The first count a passer holds of the kinds in K, and of its own answers.
FirstOf(p, K) == Min({None} \cup {First(mine[p][k]) : k \in K})

\* StateMark::first: the first change not read yet.
StateFirst == IF mark = 0 THEN None ELSE mark - 1

\* Inbox::next_with_state: the first count that waits, and whether one does.
NextCount(p) == Min({FirstOf(p, Kinds), First(mineLocal[p])})

\* Mutant of Waits: the last answer written is left, too.
WaitsButLast(p) == NextCount(p) + 1 < written[p]

Waits(p) == NextCount(p) < written[p]

\* inbox::run: the answers at the front with counts before `until'.
RunOf(s, until) == SelectInSeq(s, LAMBDA c : c >= until)
RunLength(s, until) == IF RunOf(s, until) = 0 THEN Len(s) ELSE RunOf(s, until) - 1

Gives(s) == given \o [i \in 1 .. Len(s) |-> [at |-> s[i], shown |-> shown]]

\* Run::State: the state comes first; read_below clears the mark, then the
\* state is read.
GiveState(p) ==
    /\ ppc[p] = "give"
    /\ Waits(p)
    /\ StateFirst < NextCount(p)
    /\ mark' = 0
    /\ ppc' = [ppc EXCEPT ![p] = "read"]
    /\ UNCHANGED <<clock, queue, hold, local, stamp, noting, noteAt, state, need, inbox, takenAt, mine,
                   mineAt, mineLocal, written, todo, shown, given, endVars>>

ReadState(p) ==
    /\ ppc[p] = "read"
    /\ shown' = state
    /\ ppc' = [ppc EXCEPT ![p] = "give"]
    /\ UNCHANGED <<writeVars, inbox, takenAt, mine, mineAt, mineLocal, written, todo,
                   given, endVars>>

\* Run::Queue: a run of one kind, up to the first answer of another kind, of
\* the client's own, of the state, or not yet complete.
GiveQueue(p, k) ==
    /\ ppc[p] = "give"
    /\ Waits(p)
    /\ First(mine[p][k]) = NextCount(p)
    /\ StateFirst >= NextCount(p)
    /\ LET until == Min({FirstOf(p, Kinds \ {k}), First(mineLocal[p]), StateFirst, written[p]})
           n == RunLength(mine[p][k], until)
       IN  /\ given' = Gives(SubSeq(mine[p][k], 1, n))
           /\ mine' = [mine EXCEPT ![p][k] = SubSeq(@, n + 1, Len(@))]
    /\ UNCHANGED <<writeVars, inbox, takenAt, ppc, mineAt, mineLocal, written, todo, shown,
                   endVars>>

\* Run::Client: a run of the client's own answers.
GiveLocal(p) ==
    /\ ppc[p] = "give"
    /\ Waits(p)
    /\ First(mineLocal[p]) = NextCount(p)
    /\ StateFirst >= NextCount(p)
    /\ LET until == Min({FirstOf(p, Kinds), StateFirst, written[p]})
           n == RunLength(mineLocal[p], until)
       IN  /\ given' = Gives(SubSeq(mineLocal[p], 1, n))
           /\ mineLocal' = [mineLocal EXCEPT ![p] = SubSeq(@, n + 1, Len(@))]
    /\ UNCHANGED <<writeVars, inbox, takenAt, ppc, mine, mineAt, written, todo, shown,
                   endVars>>

\* merge_queue: the answers of both, sorted by their counts.
Merged(s, t) ==
    LET st == s \o t
    IN  {u \in {[i \in DOMAIN st |-> st[f[i]]] : f \in Bijection(DOMAIN st, DOMAIN st)} :
            \A i, j \in DOMAIN u : i < j => u[i] <= u[j]}

\* Mutant of MergeInbox: the answers that wait take the place of those a pass
\* put back meanwhile.
MergeInboxOver(p) ==
    /\ ppc[p] = "give"
    /\ ~Waits(p)
    /\ inbox' = mine[p]
    /\ takenAt' = Min({takenAt, mineAt[p]})
    /\ mine' = [mine EXCEPT ![p] = NoAnswers]
    /\ ppc' = [ppc EXCEPT ![p] = "merge"]
    /\ UNCHANGED <<writeVars, mineAt, mineLocal, written, todo, shown, given, endVars>>

\* Inbox::merge: what waits goes back, as it is when no pass put anything back
\* meanwhile, else each kind in the order of its counts; taken_at is the smaller
\* of the two.
MergeInbox(p) ==
    /\ ppc[p] = "give"
    /\ ~Waits(p)
    /\ IF inbox = NoAnswers THEN inbox' = mine[p]
       ELSE /\ inbox' \in [Kinds -> UNION {Merged(inbox[k], mine[p][k]) : k \in Kinds}]
            /\ \A k \in Kinds : inbox'[k] \in Merged(inbox[k], mine[p][k])
    /\ takenAt' = Min({takenAt, mineAt[p]})
    /\ mine' = [mine EXCEPT ![p] = NoAnswers]
    /\ ppc' = [ppc EXCEPT ![p] = "merge"]
    /\ UNCHANGED <<writeVars, mineAt, mineLocal, written, todo, shown, given, endVars>>

\* The own answers that wait go before what was made meanwhile.
PutBackLocal(p) ==
    /\ ppc[p] = "merge"
    /\ local' = mineLocal[p] \o local
    /\ mineLocal' = [mineLocal EXCEPT ![p] = <<>>]
    /\ ppc' = [ppc EXCEPT ![p] = "last"]
    /\ UNCHANGED <<clock, queue, hold, stamp, mark, noting, noteAt, state, need, inbox, takenAt, mine,
                   mineAt, written, todo, shown, given, endVars>>

\* dispatch_state at the end of the pass: the changes counted before the
\* clock's reading are read; a later one stays marked.
LastState(p) ==
    /\ ppc[p] = "last"
    /\ mark' = IF mark # 0 /\ mark - 1 < written[p] THEN 0 ELSE mark
    /\ ppc' = [ppc EXCEPT ![p] = "lastRead"]
    /\ UNCHANGED <<clock, queue, hold, local, stamp, noting, noteAt, state, need, inbox, takenAt, mine,
                   mineAt, mineLocal, written, todo, shown, given, endVars>>

LastRead(p) ==
    /\ ppc[p] = "lastRead"
    /\ shown' = state
    /\ ppc' = [ppc EXCEPT ![p] = "end"]
    /\ UNCHANGED <<writeVars, inbox, takenAt, mine, mineAt, mineLocal, written, todo,
                   given, endVars>>

\* Mutant of TakeLost: the flag is cleared and the client stays connected.
TakeLostUnseen(p) ==
    /\ ppc[p] = "end"
    /\ lost' = FALSE
    /\ ppc' = [ppc EXCEPT ![p] = "close"]
    /\ UNCHANGED <<writeVars, inbox, takenAt, mine, mineAt, mineLocal, written, todo,
                   shown, given, connected, closed>>

\* dispatch_connection: take_connection_lost.
TakeLost(p) ==
    /\ ppc[p] = "end"
    /\ connected' = (connected /\ ~lost)
    /\ lost' = FALSE
    /\ ppc' = [ppc EXCEPT ![p] = "close"]
    /\ UNCHANGED <<writeVars, inbox, takenAt, mine, mineAt, mineLocal, written, todo,
                   shown, given, closed>>

\* dispatch_connection: connection_closed, once (close_notified.swap).
Close(p) ==
    /\ ppc[p] = "close"
    /\ closed' = IF ~connected /\ closed = 0 THEN 1 ELSE closed
    /\ ppc' = [ppc EXCEPT ![p] = "idle"]
    /\ UNCHANGED <<writeVars, inbox, takenAt, mine, mineAt, mineLocal, written, todo,
                   shown, given, lost, connected>>

PassStep(p) ==
    /\ p \in program.passers
    /\ UNCHANGED program
    /\ \/ TakeLocal(p) \/ TakeInbox(p) \/ ReadClock(p) \/ TakeDone(p)
       \/ \E k \in Kinds : TakeQueue(p, k) \/ GiveQueue(p, k)
       \/ GiveState(p) \/ ReadState(p) \/ GiveLocal(p)
       \/ MergeInbox(p) \/ PutBackLocal(p) \/ LastState(p) \/ LastRead(p)
       \/ TakeLost(p) \/ Close(p)

NoteStep == (NoteLoad \/ NoteCount \/ NoteMark) /\ UNCHANGED program

WriteStep ==
    /\ \/ \E w \in {Engine} \cup program.callers : \E k \in Kinds : Count(w, k)
       \/ \E c \in program.laters : LaterStamp(c)
       \/ \E p \in program.passers : LaterHere(p)
       \/ ChangeState \/ SetConnectionLost
    /\ UNCHANGED program

\* The second half of a push, and of `later'.
PushStep(w) == Push(w) /\ UNCHANGED program

LaterStep(c) == LaterPush(c) /\ UNCHANGED program

Next ==
    \/ WriteStep \/ NoteStep
    \/ \E w \in Writers : PushStep(w)
    \/ \E c \in Laters : LaterStep(c)
    \/ \E p \in Passers : PassStep(p)

Spec == Init /\ [][Next]_vars

\* A client calls process_msgs in a loop, and a writer that holds a queue's
\* lock lets it go.
FairSpec ==
    /\ Spec
    /\ \A p \in Passers : WF_vars(PassStep(p))
    /\ \A w \in Writers : WF_vars(PushStep(w))
    /\ WF_vars(NoteStep)
    /\ \A c \in Laters : WF_vars(LaterStep(c))

-----------------------------------------------------------------------------
(***************************************************************************)
(* Properties.                                                             *)
(***************************************************************************)
GivenCounts == {given[i].at : i \in DOMAIN given}

\* The counts that are answers, not changes of the state.
Answers == {c \in 1 .. clock - 1 : need[c] # -1}

\* The answers are given in the order they were written, over all the queues
\* and the client's own (the header of inbox.rs), whatever the engine and the
\* callers write while a pass runs; one thread dispatches, and makes the own
\* answers.
GivenInOrder ==
    Cardinality(program.passers) = 1 /\ program.laters = {} =>
    \A i, j \in DOMAIN given : i < j => given[i].at < given[j].at

\* An answer is given only once the changes of the state the engine made
\* before it are given (StateMark: `a client reads the state at that count'),
\* while one thread dispatches: a second one gives its answers between the
\* first one's read_below and its reading of the state.
NoStaleState ==
    Cardinality(program.passers) = 1 =>
    \A i \in DOMAIN given : given[i].shown >= need[given[i].at]

\* The places where count c is found: in the hands of a thread that writes, in
\* the queues, the inbox, the own answers and the hands of a pass, or given.
Entries(box, s, c) == {<<box, i>> : i \in {j \in DOMAIN s : s[j] = c}}
Places(c) ==
    {<<<<"writer", w>>, 1>> : w \in {v \in Writers : hold[v] # <<>> /\ hold[v][2] = c}}
        \cup {<<<<"caller", t>>, 1>> : t \in {u \in Laters : stamp[u] = c}}
        \cup (UNION {Entries(<<"queue", k>>, queue[k], c) : k \in Kinds})
        \cup (UNION {Entries(<<"inbox", k>>, inbox[k], c) : k \in Kinds})
        \cup Entries(<<"own">>, local, c)
        \cup (UNION {UNION {Entries(<<"mine", p, k>>, mine[p][k], c) : k \in Kinds} : p \in Passers})
        \cup (UNION {Entries(<<"mineLocal", p>>, mineLocal[p], c) : p \in Passers})
        \cup {<<<<"given">>, i>> : i \in {j \in DOMAIN given : given[j].at = c}}

\* Every answer is in exactly one place, also with two passes at a time: none
\* is dropped, and none is given twice.
NothingLost == \A c \in Answers : Cardinality(Places(c)) = 1

\* Once the writing stops every answer is given in the end, while the client
\* goes on with its passes.
AnswersGiven == <>[](Answers \subseteq GivenCounts)

\* The end of the session is told in the end.
SessionEnds == lost ~> closed = 1
=============================================================================
