------------------------------- MODULE Pacer --------------------------------
(***************************************************************************)
(* The pacing of the API requests the engine takes (src/engine/pacer.rs):  *)
(* an interval of Steps steps, each with a share of the requests that      *)
(* waited at its start, and a rest when none waits.                        *)
(*                                                                         *)
(* Times are kept relative to now: the age of the interval and the time    *)
(* the engine is still busy with the last request.  The engine looks at    *)
(* the queue whenever it likes; the requests held behind a contract lookup *)
(* are not looked at (module CommandQueue).                                *)
(***************************************************************************)
EXTENDS Integers, FiniteSetsExt

CONSTANTS
    MaxPerSecond,   \* MAX_PER_SECOND
    Step,           \* STEP, in units of time
    Steps,          \* STEPS
    Handling,       \* HANDLING, in units of time
    MaxWaiting      \* bound: the requests that wait

ASSUME PacerAssumption ==
    /\ MaxPerSecond \in Nat \ {0} /\ Step \in Nat \ {0} /\ Steps \in Nat \ {0}
    /\ Handling \in 0 .. Step
    /\ MaxWaiting \in Nat

VARIABLES
    waiting,        \* the requests in the engine's queue
    iv,             \* Pacer.interval, NoInterval at rest
    wasEmpty,       \* Pacer.was_empty
    off,            \* Pacer.off
    since,          \* the time since a request was last admitted
    fresh,          \* the first request came when the pacer was at rest
    looked          \* what the last look found

pacerVars == <<waiting, iv, wasEmpty, off, since, fresh, looked>>

\* The length of an interval; no age or wait is told apart beyond it.
Whole == Step * Steps

NoInterval == [age |-> 0, atStart |-> 0, step |-> -1, inStep |-> 0, budget |-> 0, handled |-> 0, busy |-> 0]

Interval ==
    [age : 0 .. Whole, atStart : 1 .. MaxPerSecond, step : -1 .. Steps - 1, inStep : 0 .. MaxPerSecond,
     budget : 0 .. MaxPerSecond, handled : 0 .. MaxPerSecond, busy : 0 .. Handling]

PacerTypeOK ==
    /\ waiting \in 0 .. MaxWaiting
    /\ iv \in Interval \cup {NoInterval}
    /\ wasEmpty \in BOOLEAN /\ off \in BOOLEAN /\ fresh \in BOOLEAN
    /\ since \in 0 .. Whole
    /\ looked \in {"nothing", "admitted", "refused"}

PacerInit ==
    /\ waiting = 0
    /\ iv = NoInterval
    /\ wasEmpty = FALSE /\ off = FALSE /\ fresh = FALSE
    /\ since = Whole
    /\ looked = "nothing"

-----------------------------------------------------------------------------
\* Interval::new.
NewInterval(atStart) == [NoInterval EXCEPT !.atStart = atStart]

\* A request of the channel reaches the queue.
Arrive ==
    /\ waiting < MaxWaiting
    /\ waiting' = waiting + 1
    /\ fresh' = (fresh \/ (waiting = 0 /\ since >= Handling))
    /\ looked' = "nothing"
    /\ UNCHANGED <<iv, wasEmpty, off, since>>

\* Time passes.
Tick ==
    /\ iv' = IF iv = NoInterval THEN iv
             ELSE [iv EXCEPT !.age = Min({@ + 1, Whole}), !.busy = Max({@ - 1, 0})]
    /\ since' = Min({since + 1, Whole})
    /\ looked' = "nothing"
    /\ UNCHANGED <<waiting, wasEmpty, off, fresh>>

\* Pacer::set_off.
SetOff(b) ==
    /\ off' = b
    /\ iv' = NoInterval
    /\ looked' = "nothing"
    /\ UNCHANGED <<waiting, wasEmpty, since, fresh>>

\* The share of a step, rounded up: half of the requests that waited in the
\* first, a quarter in the second, and so on.
Budget(atStart, step) == Min({(atStart + 2 ^ (step + 1) - 1) \div 2 ^ (step + 1), waiting})

\* Mutant of Current: an interval that is over goes on in its last step.
CurrentForEver ==
    IF (wasEmpty /\ iv.busy = 0) \/ iv = NoInterval THEN NewInterval(1)
    ELSE [iv EXCEPT !.age = Min({@, Whole - 1})]

\* Pacer::admit: the interval a request is counted in.  A new one when none
\* waited at the last look and the last request is done, or at rest; a new one
\* counted from all that wait when the last is over.
Current ==
    IF (wasEmpty /\ iv.busy = 0) \/ iv = NoInterval THEN NewInterval(1)
    ELSE IF iv.age >= Whole THEN NewInterval(Min({waiting, MaxPerSecond}))
    ELSE iv

\* ... and its step, whose budget is reckoned when it is first looked at.
AtStep(cur) ==
    LET step == cur.age \div Step
    IN  IF step = cur.step THEN cur
        ELSE [cur EXCEPT !.step = step, !.inStep = 0, !.budget = Budget(cur.atStart, step)]

\* Mutant of NothingWaits: the look is not remembered.
NothingWaitsForgotten(cur) ==
    /\ wasEmpty' = FALSE
    /\ iv' = IF cur.busy = 0 THEN NoInterval ELSE cur

\* Pacer::nothing_waits, with the interval it finds.
NothingWaits(cur) ==
    /\ wasEmpty' = TRUE
    /\ iv' = IF cur.busy = 0 THEN NoInterval ELSE cur

\* Pacer::admit for the request at the head of the queue, which is taken, and
\* nothing_waits when it was the last that waited.
Admit ==
    LET cur == AtStep(Current)
        spent == [cur EXCEPT !.inStep = @ + 1, !.handled = @ + 1, !.busy = Handling]
    IN
    /\ waiting > 0
    /\ off \/ (cur.inStep < cur.budget /\ cur.handled < MaxPerSecond)
    /\ waiting' = waiting - 1
    /\ since' = 0
    /\ fresh' = FALSE
    /\ looked' = "admitted"
    /\ IF waiting = 1 THEN NothingWaits(IF off THEN iv ELSE spent)
       ELSE IF off THEN UNCHANGED <<iv, wasEmpty>>
       ELSE iv' = spent /\ wasEmpty' = FALSE
    /\ UNCHANGED off

\* Pacer::admit: the request stays in the queue.
Refuse ==
    LET cur == AtStep(Current)
    IN
    /\ waiting > 0
    /\ ~off
    /\ cur.inStep >= cur.budget \/ cur.handled >= MaxPerSecond
    /\ iv' = cur
    /\ wasEmpty' = FALSE
    /\ looked' = "refused"
    /\ UNCHANGED <<waiting, off, since, fresh>>

\* A look at an empty queue.
LookEmpty ==
    /\ waiting = 0
    /\ NothingWaits(iv)
    /\ looked' = "nothing"
    /\ UNCHANGED <<waiting, off, since, fresh>>

Look == Admit \/ Refuse \/ LookEmpty

PacerNext == Arrive \/ Tick \/ Look \/ \E b \in BOOLEAN : SetOff(b)

PacerSpec == PacerInit /\ [][PacerNext]_pacerVars

-----------------------------------------------------------------------------
(***************************************************************************)
(* Properties.                                                             *)
(***************************************************************************)
\* A request that comes while none waits, the engine being done with the last
\* one, is handled at the first look, however seldom the engine looks
\* (pacer.rs:4-8).
HandledAtOnce == looked = "refused" => ~fresh

\* A request is refused only while the interval of an admitted one runs: no
\* request waits a whole interval for the one at the head.  (Not a step: once
\* the cap of an interval is used up its later steps admit none.)
NoLongStall == looked = "refused" => since < Whole
=============================================================================
