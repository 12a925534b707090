--------------------------- MODULE Engine_proofs ---------------------------
(***************************************************************************)
(* Proofs about the rules that stand on their own, each for every value of *)
(* its constants: the engine thread's pacing of the requests (Pacer), its  *)
(* rest and wake (EnginePark), its monitors of the links (CcpMonitor,      *)
(* FarmPing), its reconnects and notices (Links), and the file of the      *)
(* saver thread (OrderIds).  No two of them share a variable, and each     *)
(* theorem is about one of the six specifications.                         *)
(***************************************************************************)
EXTENDS Pacer, EnginePark, CcpMonitor, FarmPing, Links, OrderIds, TLAPS

-----------------------------------------------------------------------------
(***************************************************************************)
(* Pacer: an interval is at least as old as the last admission, and one    *)
(* whose last look found nothing waiting is over as soon as the engine is  *)
(* not busy.                                                               *)
(***************************************************************************)
\* The smaller and the larger of two numbers.
LEMMA MinOfTwo ==
    ASSUME NEW a \in Int, NEW b \in Int
    PROVE  Min({a, b}) = IF a <= b THEN a ELSE b
<1>1. \E x \in {a, b} : \A y \in {a, b} : x <= y
  OBVIOUS
<1>2. /\ Min({a, b}) \in {a, b}
      /\ \A y \in {a, b} : Min({a, b}) <= y
  BY <1>1 DEF Min
<1> QED
  BY <1>2

LEMMA MaxOfTwo ==
    ASSUME NEW a \in Int, NEW b \in Int
    PROVE  Max({a, b}) = IF a >= b THEN a ELSE b
<1>1. \E x \in {a, b} : \A y \in {a, b} : x >= y
  OBVIOUS
<1>2. /\ Max({a, b}) \in {a, b}
      /\ \A y \in {a, b} : Max({a, b}) >= y
  BY <1>1 DEF Max
<1> QED
  BY <1>2

\* What the arguments need of the types: the times, and the fields of an
\* interval, whatever is counted in them.
Shape(r) ==
    r = [age |-> r.age, atStart |-> r.atStart, step |-> r.step, inStep |-> r.inStep,
         budget |-> r.budget, handled |-> r.handled, busy |-> r.busy]

Times ==
    /\ waiting \in Nat
    /\ Shape(iv) /\ iv.age \in 0 .. Whole /\ iv.busy \in 0 .. Handling
    /\ iv # NoInterval => iv.atStart # 0
    /\ wasEmpty \in BOOLEAN /\ off \in BOOLEAN /\ fresh \in BOOLEAN
    /\ since \in 0 .. Whole

\* An interval is as old as the last admission at least, and the engine is not
\* busy longer than Handling after it.
OlderThanSince ==
    /\ iv # NoInterval => since <= iv.age
    /\ iv.busy > 0 => iv.busy + since <= Handling

\* None waited at the last look, or the pacer is at rest, for as long as
\* none waits and until the request that came then is admitted.
AtRest ==
    /\ waiting = 0 => wasEmpty \/ iv = NoInterval
    /\ fresh => (wasEmpty \/ iv = NoInterval) /\ since >= Handling

PacerInv == Times /\ OlderThanSince /\ AtRest /\ HandledAtOnce /\ NoLongStall

LEMMA WholeIsLong == Whole \in Nat \ {0} /\ Handling <= Whole
<1>1. Step <= Step * Steps /\ Step * Steps \in Nat
  BY PacerAssumption
<1> QED
  BY <1>1, PacerAssumption DEF Whole

LEMMA NoIntervalShape ==
    /\ Shape(NoInterval) /\ NoInterval.age = 0 /\ NoInterval.busy = 0 /\ NoInterval.atStart = 0
  BY DEF NoInterval, Shape

\* A new interval admits the request it begins with.
LEMMA NewAdmits ==
    ASSUME waiting \in Nat \ {0}, NEW n \in Nat \ {0}, NEW cur, cur = AtStep(NewInterval(n))
    PROVE  /\ cur.inStep = 0 /\ cur.handled = 0 /\ cur.budget \in Int /\ cur.budget >= 1
           /\ Shape(cur) /\ cur.age = 0 /\ cur.busy = 0 /\ cur.atStart = n
<1>0. PICK new : new = NewInterval(n)
  OBVIOUS
<1>1. new = [age |-> 0, atStart |-> n, step |-> -1, inStep |-> 0, budget |-> 0, handled |-> 0,
    busy |-> 0]
  BY <1>0 DEF NewInterval, NoInterval
<1>2. 0 \div Step = 0
  BY PacerAssumption
<1>3. PICK b : b = Budget(n, 0)
  OBVIOUS
<1>4. new.age = 0 /\ new.step = -1 /\ new.atStart = n
  BY <1>1
<1>5. new.age \div Step = 0 /\ new.age \div Step # new.step
  BY <1>2, <1>4
<1>6. cur = [new EXCEPT !.step = 0, !.inStep = 0, !.budget = b]
  BY ONLY <1>0, <1>3, <1>4, <1>5, cur = AtStep(NewInterval(n)) DEF AtStep
<1>7. b \in Int /\ b >= 1
  <2>1. 2 ^ (0 + 1) = 2
    OBVIOUS
  <2>2. (n + 2 - 1) \div 2 \in Int /\ (n + 2 - 1) \div 2 >= 1
    OBVIOUS
  <2>3. b = Min({(n + 2 - 1) \div 2, waiting})
    BY <2>1, <1>3 DEF Budget
  <2> QED
    BY <2>2, <2>3, MinOfTwo
<1> QED
  BY ONLY <1>1, <1>6, <1>7 DEF Shape

\* The step of an interval keeps its times.
LEMMA AtStepKeeps ==
    ASSUME NEW r, Shape(r), NEW cur, cur = AtStep(r)
    PROVE  Shape(cur) /\ cur.age = r.age /\ cur.busy = r.busy /\ cur.atStart = r.atStart
<1>1. PICK st, b : cur = r \/ cur = [r EXCEPT !.step = st, !.inStep = 0, !.budget = b]
  BY DEF AtStep
<1> QED
  BY <1>1 DEF Shape

\* The interval a request is counted in: a new one, which admits it, or the
\* one that runs, which is not over.
LEMMA CurrentCases ==
    ASSUME PacerInv, waiting > 0, NEW cur, cur = AtStep(Current)
    PROVE  /\ Shape(cur) /\ cur.age \in 0 .. Whole /\ cur.busy \in 0 .. Handling
           /\ cur # NoInterval /\ cur.atStart # 0
           /\ \/ cur.inStep = 0 /\ cur.handled = 0 /\ cur.budget \in Int /\ cur.budget >= 1
              \/ /\ iv # NoInterval /\ ~(wasEmpty /\ iv.busy = 0)
                 /\ cur.age = iv.age /\ cur.busy = iv.busy /\ iv.age < Whole
<1>1. waiting \in Nat \ {0}
  BY DEF PacerInv, Times
<1>2. CASE Current = NewInterval(1)
  BY <1>1, <1>2, NewAdmits, WholeIsLong, PacerAssumption, NoIntervalShape
<1>3. CASE Current = NewInterval(Min({waiting, MaxPerSecond}))
  <2>1. Min({waiting, MaxPerSecond}) \in Nat \ {0}
    BY <1>1, MinOfTwo, PacerAssumption
  <2> QED
    BY <1>1, <1>3, <2>1, NewAdmits, WholeIsLong, PacerAssumption, NoIntervalShape
<1>4. CASE /\ Current = iv /\ iv # NoInterval /\ ~(wasEmpty /\ iv.busy = 0) /\ ~(iv.age >= Whole)
  <2>1. Shape(cur) /\ cur.age = iv.age /\ cur.busy = iv.busy /\ cur.atStart = iv.atStart
    BY <1>4, AtStepKeeps DEF PacerInv, Times
  <2>2. cur # NoInterval /\ cur.atStart # 0
    <3>1. iv.atStart # 0
      BY <1>4 DEF PacerInv, Times
    <3> QED
      BY <3>1, <2>1, NoIntervalShape
  <2> QED
    BY <1>4, <2>1, <2>2, WholeIsLong DEF PacerInv, Times
<1> QED
  BY <1>2, <1>3, <1>4 DEF Current

LEMMA ArriveKeeps == PacerInv /\ Arrive => PacerInv'
<1> SUFFICES ASSUME PacerInv, Arrive
             PROVE  PacerInv'
  OBVIOUS
<1>1. waiting' = waiting + 1 /\ iv' = iv /\ wasEmpty' = wasEmpty /\ off' = off /\ since' = since
  BY DEF Arrive
<1>2. fresh' \in BOOLEAN /\ (fresh' => fresh \/ (waiting = 0 /\ since >= Handling))
  BY Zenon DEF Arrive, PacerInv, Times
<1>3. looked' = "nothing"
  BY DEF Arrive
<1>4. Times'
  BY <1>1, <1>2 DEF PacerInv, Times, Shape
<1>5. OlderThanSince'
  BY <1>1 DEF PacerInv, OlderThanSince, Times, NoInterval
<1>6. AtRest'
  BY <1>1, <1>2 DEF PacerInv, AtRest, Times, NoInterval
<1> QED
  BY <1>3, <1>4, <1>5, <1>6 DEF PacerInv, HandledAtOnce, NoLongStall

LEMMA TickKeeps == PacerInv /\ Tick => PacerInv'
<1> SUFFICES ASSUME PacerInv, Tick
             PROVE  PacerInv'
  OBVIOUS
<1>0. iv.age \in 0 .. Whole /\ iv.busy \in 0 .. Handling /\ since \in 0 .. Whole
  BY DEF PacerInv, Times
<1>1. /\ waiting' = waiting /\ wasEmpty' = wasEmpty /\ off' = off /\ fresh' = fresh
      /\ looked' = "nothing"
  BY DEF Tick
<1>2. since' = IF since + 1 <= Whole THEN since + 1 ELSE Whole
  BY <1>0, MinOfTwo, WholeIsLong DEF Tick
<1>3. \/ iv = NoInterval /\ iv' = iv
      \/ /\ iv # NoInterval
         /\ iv' = [iv EXCEPT !.age = IF iv.age + 1 <= Whole THEN iv.age + 1 ELSE Whole,
                             !.busy = IF iv.busy - 1 >= 0 THEN iv.busy - 1 ELSE 0]
  <2>1. Min({iv.age + 1, Whole}) = IF iv.age + 1 <= Whole THEN iv.age + 1 ELSE Whole
    BY <1>0, MinOfTwo, WholeIsLong
  <2>2. Max({iv.busy - 1, 0}) = IF iv.busy - 1 >= 0 THEN iv.busy - 1 ELSE 0
    BY <1>0, MaxOfTwo, PacerAssumption
  <2> QED
    BY <2>1, <2>2 DEF Tick
<1>4. CASE iv = NoInterval
  <2>1. iv' = iv
    BY <1>3, <1>4
  <2>2. Times' /\ OlderThanSince' /\ AtRest'
    BY <2>1, <1>0, <1>1, <1>2, <1>4, WholeIsLong, PacerAssumption, NoIntervalShape
       DEF PacerInv, Times, OlderThanSince, AtRest, Shape, NoInterval
  <2> QED
    BY <2>2, <1>1 DEF PacerInv, HandledAtOnce, NoLongStall
<1>5. CASE iv # NoInterval
  <2>1. /\ Shape(iv') /\ iv'.atStart = iv.atStart
        /\ iv'.age = IF iv.age + 1 <= Whole THEN iv.age + 1 ELSE Whole
        /\ iv'.busy = IF iv.busy - 1 >= 0 THEN iv.busy - 1 ELSE 0
    BY <1>3, <1>5 DEF PacerInv, Times, Shape
  <2>2. iv' # NoInterval
    BY <2>1, <1>5, NoIntervalShape DEF PacerInv, Times
  <2>3. Times'
    BY <2>1, <2>2, <1>0, <1>1, <1>2, <1>5, WholeIsLong, PacerAssumption
       DEF PacerInv, Times, Shape, NoInterval
  <2>4. OlderThanSince'
    BY <2>1, <1>0, <1>2, <1>5, WholeIsLong, PacerAssumption DEF PacerInv, OlderThanSince, NoInterval
  <2>5. AtRest'
    BY <2>2, <1>0, <1>1, <1>2, <1>5, WholeIsLong, PacerAssumption DEF PacerInv, AtRest, NoInterval
  <2> QED
    BY <2>3, <2>4, <2>5, <1>1 DEF PacerInv, HandledAtOnce, NoLongStall
<1> QED
  BY <1>4, <1>5

LEMMA SetOffKeeps == ASSUME NEW b \in BOOLEAN PROVE PacerInv /\ SetOff(b) => PacerInv'
<1> SUFFICES ASSUME PacerInv, SetOff(b)
             PROVE  PacerInv'
  OBVIOUS
<1>1. /\ waiting' = waiting /\ wasEmpty' = wasEmpty /\ since' = since /\ fresh' = fresh
      /\ off' = b /\ iv' = NoInterval /\ looked' = "nothing"
  BY DEF SetOff
<1>2. Times' /\ OlderThanSince' /\ AtRest'
  BY <1>1, WholeIsLong, PacerAssumption, NoIntervalShape
     DEF PacerInv, Times, OlderThanSince, AtRest, Shape, NoInterval
<1> QED
  BY <1>1, <1>2 DEF PacerInv, HandledAtOnce, NoLongStall

\* nothing_waits: the interval goes on while the engine is busy with the last
\* request, else the pacer is at rest.
LEMMA NothingWaitsRests ==
    ASSUME NEW r, NothingWaits(r)
    PROVE  wasEmpty' = TRUE /\ (iv' = NoInterval \/ iv' = r)
  BY DEF NothingWaits

LEMMA LookEmptyKeeps == PacerInv /\ LookEmpty => PacerInv'
<1> SUFFICES ASSUME PacerInv, LookEmpty
             PROVE  PacerInv'
  OBVIOUS
<1>1. /\ waiting' = waiting /\ off' = off /\ since' = since /\ fresh' = fresh
      /\ wasEmpty' = TRUE /\ (iv' = NoInterval \/ iv' = iv) /\ looked' = "nothing"
  BY NothingWaitsRests DEF LookEmpty
<1>2. Times' /\ OlderThanSince' /\ AtRest'
  BY <1>1, WholeIsLong, PacerAssumption, NoIntervalShape
     DEF PacerInv, Times, OlderThanSince, AtRest, Shape, NoInterval
<1> QED
  BY <1>1, <1>2 DEF PacerInv, HandledAtOnce, NoLongStall

LEMMA AdmitKeeps == PacerInv /\ Admit => PacerInv'
<1> SUFFICES ASSUME PacerInv, Admit
             PROVE  PacerInv'
  OBVIOUS
<1>1. PICK cur : cur = AtStep(Current)
  OBVIOUS
<1>2. PICK spent : spent = [cur EXCEPT !.inStep = @ + 1, !.handled = @ + 1, !.busy = Handling]
  OBVIOUS
<1>3. /\ waiting > 0 /\ waiting' = waiting - 1 /\ since' = 0 /\ fresh' = FALSE
      /\ looked' = "admitted" /\ off' = off
      /\ IF waiting = 1 THEN NothingWaits(IF off THEN iv ELSE spent)
         ELSE IF off THEN UNCHANGED <<iv, wasEmpty>>
         ELSE iv' = spent /\ wasEmpty' = FALSE
  BY <1>1, <1>2 DEF Admit
<1>4. waiting \in Nat /\ off \in BOOLEAN /\ wasEmpty \in BOOLEAN
  BY DEF PacerInv, Times
<1>5. /\ iv' = NoInterval \/ iv' = iv \/ iv' = spent
      /\ wasEmpty' \in BOOLEAN
      /\ waiting' = 0 => wasEmpty'
  <2>1. CASE waiting = 1
    <3>1. PICK r : r \in {iv, spent} /\ NothingWaits(r)
      BY <1>3, <2>1
    <3> QED
      BY <3>1, NothingWaitsRests
  <2>2. CASE waiting # 1
    <3>1. waiting' # 0
      BY <1>3, <1>4, <2>2
    <3>2. \/ iv' = iv /\ wasEmpty' = wasEmpty
          \/ iv' = spent /\ wasEmpty' = FALSE
      BY <1>3, <2>2
    <3> QED
      BY <3>1, <3>2, <1>4, Zenon
  <2> QED
    BY <2>1, <2>2
<1>6. /\ Shape(cur) /\ cur.age \in 0 .. Whole /\ cur.busy \in 0 .. Handling
      /\ cur.atStart # 0
  BY <1>1, <1>3, CurrentCases
<1>7. /\ Shape(spent) /\ spent.age = cur.age /\ spent.busy = Handling /\ spent.atStart = cur.atStart
      /\ spent # NoInterval
  <2>1. Shape(spent) /\ spent.age = cur.age /\ spent.busy = Handling /\ spent.atStart = cur.atStart
    BY <1>2, <1>6 DEF Shape
  <2> QED
    BY <2>1, <1>6, NoIntervalShape
<1>8. Shape(iv') /\ iv'.age \in 0 .. Whole /\ iv'.busy \in 0 .. Handling /\ (iv' # NoInterval =>
    iv'.atStart # 0)
  BY <1>5, <1>6, <1>7, NoIntervalShape, WholeIsLong, PacerAssumption DEF PacerInv, Times
<1>9. Times'
  <2>1. wasEmpty' \in BOOLEAN /\ off' \in BOOLEAN /\ fresh' \in BOOLEAN
    BY <1>3, <1>4, <1>5, Zenon
  <2>2. waiting' \in Nat /\ since' \in 0 .. Whole
    BY <1>3, <1>4, WholeIsLong
  <2> QED
    BY <1>8, <2>1, <2>2 DEF Times, Shape, NoInterval
<1>10. OlderThanSince'
  BY <1>3, <1>8, WholeIsLong, PacerAssumption DEF OlderThanSince, NoInterval
<1>11. AtRest'
  BY <1>3, <1>4, <1>5 DEF AtRest, NoInterval
<1> QED
  BY <1>3, <1>9, <1>10, <1>11 DEF PacerInv, HandledAtOnce, NoLongStall

LEMMA RefuseKeeps == PacerInv /\ Refuse => PacerInv'
<1> SUFFICES ASSUME PacerInv, Refuse
             PROVE  PacerInv'
  OBVIOUS
<1>1. PICK cur : cur = AtStep(Current)
  OBVIOUS
<1>2. /\ waiting > 0 /\ iv' = cur /\ wasEmpty' = FALSE /\ waiting' = waiting /\ off' = off
      /\ since' = since /\ fresh' = fresh
      /\ cur.inStep >= cur.budget \/ cur.handled >= MaxPerSecond
  BY <1>1 DEF Refuse
<1>3. /\ Shape(cur) /\ cur.age \in 0 .. Whole /\ cur.busy \in 0 .. Handling
      /\ cur # NoInterval /\ cur.atStart # 0
      /\ \/ cur.inStep = 0 /\ cur.handled = 0 /\ cur.budget \in Int /\ cur.budget >= 1
         \/ /\ iv # NoInterval /\ ~(wasEmpty /\ iv.busy = 0)
            /\ cur.age = iv.age /\ cur.busy = iv.busy /\ iv.age < Whole
  BY <1>1, <1>2, CurrentCases
<1>4. /\ iv # NoInterval /\ ~(wasEmpty /\ iv.busy = 0)
      /\ cur.age = iv.age /\ cur.busy = iv.busy /\ iv.age < Whole
  BY <1>2, <1>3, PacerAssumption
<1>5. ~fresh /\ since < Whole
  <2>1. since <= iv.age /\ (iv.busy > 0 => iv.busy + since <= Handling)
    BY <1>4 DEF PacerInv, OlderThanSince
  <2>2. iv.age \in 0 .. Whole /\ iv.busy \in 0 .. Handling /\ since \in 0 .. Whole
    BY DEF PacerInv, Times
  <2>3. fresh => wasEmpty /\ since >= Handling
    BY <1>4 DEF PacerInv, AtRest
  <2>4. ~fresh
    BY <1>4, <2>1, <2>2, <2>3, PacerAssumption
  <2> QED
    BY <1>4, <2>1, <2>2, <2>4, WholeIsLong
<1>6. Times'
  BY <1>2, <1>3 DEF PacerInv, Times, Shape, NoInterval
<1>7. OlderThanSince'
  BY <1>2, <1>4 DEF PacerInv, OlderThanSince, NoInterval
<1>8. AtRest'
  BY <1>2, <1>5 DEF PacerInv, Times, AtRest, NoInterval
<1> QED
  BY <1>2, <1>5, <1>6, <1>7, <1>8 DEF PacerInv, HandledAtOnce, NoLongStall

LEMMA PacerInvHolds == PacerSpec => []PacerInv
<1>1. PacerInit => PacerInv
  <2> SUFFICES ASSUME PacerInit
               PROVE  PacerInv
    OBVIOUS
  <2>1. Times
    <3>1. Shape(iv) /\ iv.age = 0 /\ iv.busy = 0 /\ iv = NoInterval
      BY NoIntervalShape, Zenon DEF PacerInit
    <3>2. wasEmpty \in BOOLEAN /\ off \in BOOLEAN /\ fresh \in BOOLEAN
      BY Zenon DEF PacerInit
    <3>3. waiting = 0 /\ since = Whole
      BY DEF PacerInit
    <3> QED
      BY <3>1, <3>2, <3>3, WholeIsLong, PacerAssumption DEF Times
  <2>2. OlderThanSince
    BY NoIntervalShape DEF PacerInit, OlderThanSince
  <2>3. AtRest /\ HandledAtOnce /\ NoLongStall
    BY DEF PacerInit, AtRest, HandledAtOnce, NoLongStall
  <2> QED
    BY <2>1, <2>2, <2>3 DEF PacerInv
<1>2. PacerInv /\ [PacerNext]_pacerVars => PacerInv'
  <2> SUFFICES ASSUME PacerInv, [PacerNext]_pacerVars
               PROVE  PacerInv'
    OBVIOUS
  <2>1. CASE PacerNext
    BY <2>1, ArriveKeeps, TickKeeps, AdmitKeeps, RefuseKeeps, LookEmptyKeeps,
        SetOffKeeps DEF PacerNext, Look
  <2>2. CASE UNCHANGED pacerVars
    BY <2>2 DEF pacerVars, PacerInv, Times, OlderThanSince, AtRest, HandledAtOnce, NoLongStall,
        Shape, NoInterval
  <2> QED
    BY <2>1, <2>2
<1> QED
  BY <1>1, <1>2, PTL DEF PacerSpec

\* A request that comes when none waited and the engine is no longer busy with
\* the last is admitted at the next look: the interval the pacer still keeps is
\* one that nothing_waits ended, and a new one lets at least one through.
THEOREM HandledAtFirstLook == PacerSpec => []HandledAtOnce
  BY PacerInvHolds, PTL DEF PacerInv

\* A refusal is never as old as a whole interval: no interval outlives the last
\* admission by its length, and the first look of a new one admits.
THEOREM RefusedNotLong == PacerSpec => []NoLongStall
  BY PacerInvHolds, PTL DEF PacerInv

-----------------------------------------------------------------------------
(***************************************************************************)
(* EnginePark: no command of the channel is slept on, for any number of    *)
(* senders and of commands.                                                *)
(***************************************************************************)
\* Once `parked' was taken down under the engine, the sender that did it has
\* posted its datagram or is about to.
DownMeansPosted ==
    eng \in {"pending", "wait"} /\ ~parked =>
        bytes > 0 \/ \E s \in Senders : senderAt[s] = "post"

\* A command that came behind the engine's last look at the channel has its
\* sender still before the swap, while `parked' is up.
UpMeansWaking ==
    eng = "wait" /\ parked /\ chan > 0 =>
        bytes > 0 \/ \E s \in Senders : senderAt[s] \in {"load", "swap"}

ParkIInv == ParkTypeOK /\ DownMeansPosted /\ UpMeansWaking

LEMMA ParkInitInv == ParkInit => ParkIInv
<1> SUFFICES ASSUME ParkInit PROVE ParkIInv
  OBVIOUS
<1>1. idle \in 0 .. IdlePasses /\ sends \in 0 .. MaxSends
  BY EngineParkAssumption DEF ParkInit
<1>2. ParkTypeOK
  BY <1>1 DEF ParkInit, ParkTypeOK
<1> QED
  BY <1>2 DEF ParkInit, ParkIInv, DownMeansPosted, UpMeansWaking

\* The steps of a sender.
LEMMA ParkSenderInv ==
    ASSUME ParkIInv, NEW s \in Senders, Send(s) \/ Defer(s) \/ SenderStep(s)
    PROVE  ParkIInv'
<1>1. CASE Send(s)
  <2>1. ParkTypeOK'
    BY <1>1, EngineParkAssumption DEF ParkIInv, ParkTypeOK, Send, engineVars
  <2>2. senderAt'[s] = "load" /\ \A t \in Senders : t # s => senderAt'[t] = senderAt[t]
    BY <1>1 DEF Send, ParkIInv, ParkTypeOK
  <2>3. DownMeansPosted'
    BY <1>1, <2>2 DEF Send, engineVars, ParkIInv, DownMeansPosted
  <2>4. UpMeansWaking'
    BY <2>2 DEF UpMeansWaking
  <2> QED
    BY <2>1, <2>3, <2>4 DEF ParkIInv
<1>2. CASE Defer(s)
  <2>1. ParkTypeOK'
    BY <1>2, EngineParkAssumption DEF ParkIInv, ParkTypeOK, Defer, engineVars
  <2>2. senderAt'[s] = "load" /\ \A t \in Senders : t # s => senderAt'[t] = senderAt[t]
    BY <1>2 DEF Defer, ParkIInv, ParkTypeOK
  <2>3. DownMeansPosted'
    BY <1>2, <2>2 DEF Defer, engineVars, ParkIInv, DownMeansPosted
  <2>4. UpMeansWaking'
    BY <2>2 DEF UpMeansWaking
  <2> QED
    BY <2>1, <2>3, <2>4 DEF ParkIInv
<1>3. CASE WakeLoad(s)
  <2>1. ParkTypeOK'
    BY <1>3 DEF ParkIInv, ParkTypeOK, WakeLoad, engineVars
  <2>2. \A t \in Senders : t # s => senderAt'[t] = senderAt[t]
    BY <1>3 DEF WakeLoad, ParkIInv, ParkTypeOK
  <2>3. senderAt'[s] = (IF parked THEN "swap" ELSE "idle")
    BY <1>3 DEF WakeLoad, ParkIInv, ParkTypeOK
  <2>4. DownMeansPosted'
    BY <1>3, <2>2 DEF WakeLoad, engineVars, ParkIInv, DownMeansPosted
  <2>5. UpMeansWaking'
    BY <1>3, <2>2, <2>3 DEF WakeLoad, engineVars, ParkIInv, UpMeansWaking
  <2> QED
    BY <2>1, <2>4, <2>5 DEF ParkIInv
<1>4. CASE WakeSwap(s)
  <2>1. ParkTypeOK'
    BY <1>4 DEF ParkIInv, ParkTypeOK, WakeSwap, engineVars
  <2>2. \A t \in Senders : t # s => senderAt'[t] = senderAt[t]
    BY <1>4 DEF WakeSwap, ParkIInv, ParkTypeOK
  <2>3. senderAt'[s] = (IF parked THEN "post" ELSE "idle") /\ senderAt[s] = "swap"
    BY <1>4 DEF WakeSwap, ParkIInv, ParkTypeOK
  <2>4. DownMeansPosted'
    BY <1>4, <2>2, <2>3 DEF WakeSwap, engineVars, ParkIInv, DownMeansPosted
  <2>5. UpMeansWaking'
    BY <1>4 DEF WakeSwap, UpMeansWaking
  <2> QED
    BY <2>1, <2>4, <2>5 DEF ParkIInv
<1>5. CASE WakePost(s)
  <2>1. ParkTypeOK'
    BY <1>5 DEF ParkIInv, ParkTypeOK, WakePost, engineVars
  <2>2. bytes' > 0
    BY <1>5 DEF WakePost, ParkIInv, ParkTypeOK
  <2> QED
    BY <2>1, <2>2 DEF ParkIInv, DownMeansPosted, UpMeansWaking
<1> QED
  BY <1>1, <1>2, <1>3, <1>4, <1>5 DEF SenderStep

\* The steps of the engine: it looks at the channel after it raised `parked',
\* and only it takes the datagrams, when it no longer waits.
LEMMA ParkEngineInv ==
    ASSUME ParkIInv, EngineStep \/ Timeout \/ DataArrives
    PROVE  ParkIInv'
<1>1. CASE PollChannel
  BY <1>1 DEF PollChannel, ParkIInv, ParkTypeOK, DownMeansPosted, UpMeansWaking
<1>2. CASE TakeDeferred
  BY <1>2 DEF TakeDeferred, ParkIInv, ParkTypeOK, DownMeansPosted, UpMeansWaking
<1>3. CASE KeepPolling
  BY <1>3, EngineParkAssumption DEF KeepPolling, ParkIInv, ParkTypeOK, DownMeansPosted,
      UpMeansWaking
<1>4. CASE Park
  <2>1. idle' \in 0 .. IdlePasses
    BY <1>4, EngineParkAssumption DEF Park
  <2>2. ParkTypeOK'
    BY <1>4, <2>1 DEF Park, ParkIInv, ParkTypeOK
  <2> QED
    BY <1>4, <2>2 DEF Park, ParkIInv, DownMeansPosted, UpMeansWaking
<1>5. CASE CheckPending
  BY <1>5 DEF CheckPending, ParkIInv, ParkTypeOK, DownMeansPosted, UpMeansWaking
<1>6. CASE Wake
  BY <1>6 DEF Wake, ParkIInv, ParkTypeOK, DownMeansPosted, UpMeansWaking
<1>7. CASE ClearParked
  BY <1>7 DEF ClearParked, ParkIInv, ParkTypeOK, DownMeansPosted, UpMeansWaking
<1>8. CASE Drain
  BY <1>8 DEF Drain, ParkIInv, ParkTypeOK, DownMeansPosted, UpMeansWaking
<1>9. CASE Timeout
  BY <1>9 DEF Timeout, ParkIInv, ParkTypeOK, DownMeansPosted, UpMeansWaking
<1>10. CASE DataArrives
  BY <1>10 DEF DataArrives, engineVars, ParkIInv, ParkTypeOK, DownMeansPosted, UpMeansWaking
<1> QED
  BY <1>1, <1>2, <1>3, <1>4, <1>5, <1>6, <1>7, <1>8, <1>9, <1>10 DEF EngineStep

LEMMA ParkInvariance == ParkSpec => []ParkIInv
<1>1. ParkIInv /\ [ParkNext]_parkVars => ParkIInv'
  <2> SUFFICES ASSUME ParkIInv, [ParkNext]_parkVars PROVE ParkIInv'
    OBVIOUS
  <2>1. CASE UNCHANGED parkVars
    BY <2>1 DEF parkVars, engineVars, ParkIInv, ParkTypeOK, DownMeansPosted, UpMeansWaking
  <2>2. CASE ParkNext
    BY <2>2, ParkSenderInv, ParkEngineInv DEF ParkNext
  <2> QED
    BY <2>1, <2>2
<1> QED
  BY <1>1, ParkInitInv, PTL DEF ParkSpec

\* The state of the channel, the waker and the engine keeps its types.
THEOREM ParkTypeCorrect == ParkSpec => []ParkTypeOK
<1>1. ParkIInv => ParkTypeOK
  BY DEF ParkIInv
<1> QED
  BY <1>1, ParkInvariance, PTL

\* While the engine waits, a command in the channel has a wake under way: the
\* claim of Parker::park, for any number of senders.
THEOREM ChannelNeverSleptOn == ParkSpec => []NoCommandSleptOn
<1>1. ParkIInv => NoCommandSleptOn
  BY DEF ParkIInv, ParkTypeOK, DownMeansPosted, UpMeansWaking, NoCommandSleptOn, WakeUnderWay
<1> QED
  BY <1>1, ParkInvariance, PTL

-----------------------------------------------------------------------------
(***************************************************************************)
(* CcpMonitor: the link of a server that is alive is never dropped by a    *)
(* pass that was not suspended, and the first check of a connection comes  *)
(* within CCP_DEAD_LIMIT of the last send.                                 *)
(***************************************************************************)
\* A pass that does not poll: the second's poll is done.
Unpolled == polled /\ UNCHANGED <<ccpUp, sent, recv, ended, lastSilence, ccpPending, foundAlive>>

\* The outcomes of a poll, one step of Next each.
LEMMA CcpPollCases ==
    ASSUME CcpNext
    PROVE  \/ CcpTick \/ ServerSends \/ CcpGoSilent \/ ClientSend \/ Ping \/ CcpReconnect
           \/ CcpRead \/ (CcpCheck /\ Unpolled)
           \/ (CcpCheck /\ PollPaused) \/ (CcpCheck /\ PollJumped)
           \/ (CcpCheck /\ PollDead) \/ (CcpCheck /\ PollAlive)
  BY DEF CcpNext, CcpCheck, Unpolled

\* A poll in the pause ends it once it is over.
LEMMA PauseEnds ==
    ASSUME PollPaused
    PROVE  /\ ended' \in BOOLEAN
           /\ ended' => sent > Pause
           /\ ~ended' => ~(sent > Pause)
<1>1. ended' = (sent > Pause)
  BY DEF PollPaused
<1>2. (sent > Pause) \in BOOLEAN
  OBVIOUS
<1>3. ended' \in BOOLEAN
  BY <1>1, <1>2, Zenon
<1> QED
  BY <1>1, <1>3, Zenon

\* A poll that sends something starts a new pause.
LEMMA PauseStarts ==
    ASSUME PollAlive
    PROVE  ended' => sent' = sent
<1> DEFINE sendsNow == sent >= HeartbeatAfter \/ (recv >= TestAfter /\ ~ccpPending)
<1>1. ended' = ~sendsNow /\ sent' = IF sendsNow THEN 0 ELSE sent
  BY Zenon DEF PollAlive
<1> QED
  BY <1>1, Zenon

\* The flags stay Boolean.
LEMMA CcpFlagsStep == CcpFlags /\ [CcpNext]_ccpVars => CcpFlags'
<1> SUFFICES ASSUME CcpFlags, [CcpNext]_ccpVars
             PROVE  CcpFlags'
  OBVIOUS
<1> USE DEF CcpFlags
<1>1. CASE CcpTick
  BY <1>1 DEF CcpTick
<1>2. CASE ServerSends
  BY <1>2 DEF ServerSends
<1>3. CASE CcpGoSilent
  BY <1>3 DEF CcpGoSilent
<1>4. CASE ClientSend
  BY <1>4 DEF ClientSend
<1>5. CASE Ping
  BY <1>5 DEF Ping
<1>6. CASE CcpReconnect
  BY <1>6 DEF CcpReconnect, Connected
<1>7. CASE CcpCheck /\ PollPaused
  BY <1>7, PauseEnds DEF CcpCheck, PollPaused
<1>8. CASE CcpCheck /\ PollJumped
  BY <1>8 DEF CcpCheck, PollJumped
<1>9. CASE CcpCheck /\ PollDead
  BY <1>9 DEF CcpCheck, PollDead
<1>10. CASE CcpCheck /\ PollAlive
  BY <1>10 DEF CcpCheck, PollAlive
<1>11. CASE CcpRead
  BY <1>11 DEF CcpRead
<1>12. CASE CcpCheck /\ Unpolled
  BY <1>12 DEF CcpCheck, Unpolled
<1>13. CASE UNCHANGED ccpVars
  BY <1>13 DEF ccpVars
<1> QED
  BY <1>1, <1>2, <1>3, <1>4, <1>5, <1>6, <1>7, <1>8, <1>9, <1>10, <1>11, <1>12, <1>13, CcpPollCases

\* The ages stay within their bounds, and no pause is taken for ended before
\* its time.
LEMMA CcpAgesStep == Ages /\ [CcpNext]_ccpVars => Ages'
<1> SUFFICES ASSUME Ages, [CcpNext]_ccpVars
             PROVE  Ages'
  OBVIOUS
<1> USE CcpMonitorAssumption DEF Ages
<1>1. CASE CcpTick
  BY <1>1 DEF CcpTick
<1>2. CASE ServerSends
  BY <1>2 DEF ServerSends
<1>3. CASE CcpGoSilent
  BY <1>3 DEF CcpGoSilent
<1>4. CASE ClientSend
  BY <1>4 DEF ClientSend
<1>5. CASE Ping
  BY <1>5 DEF Ping
<1>6. CASE CcpReconnect
  BY <1>6 DEF CcpReconnect, Connected
<1>7. CASE CcpCheck /\ PollPaused
  <2>1. ended' => sent > Pause
    BY <1>7, PauseEnds
  <2> QED
    BY <1>7, <2>1 DEF CcpCheck, PollPaused
<1>8. CASE CcpCheck /\ PollJumped
  BY <1>8 DEF CcpCheck, PollJumped
<1>9. CASE CcpCheck /\ PollDead
  BY <1>9 DEF CcpCheck, PollDead
<1>10. CASE CcpCheck /\ PollAlive
  <2>1. ended' => sent' = sent
    BY <1>10, PauseStarts
  <2> QED
    BY <1>10, <2>1 DEF CcpCheck, PollAlive, PauseOver
<1>11. CASE CcpRead
  BY <1>11 DEF CcpRead
<1>12. CASE CcpCheck /\ Unpolled
  BY <1>12 DEF CcpCheck, Unpolled
<1>13. CASE UNCHANGED ccpVars
  BY <1>13 DEF ccpVars
<1> QED
  BY <1>1, <1>2, <1>3, <1>4, <1>5, <1>6, <1>7, <1>8, <1>9, <1>10, <1>11, <1>12, <1>13, CcpPollCases

\* The types of the variables hold in every reachable state.
THEOREM CcpTypeCorrect == CcpSpec => []CcpTypeOK
<1>1. CcpInit => CcpFlags
  BY DEF CcpInit, CcpFlags
<1>2. CcpInit => Ages
  BY CcpMonitorAssumption DEF CcpInit, Ages
<1> QED
  BY <1>1, <1>2, CcpFlagsStep, CcpAgesStep, PTL DEF CcpSpec, CcpTypeOK

-----------------------------------------------------------------------------
\* What the engine knows of a server that is alive: it is not quiet for longer
\* than ServerTalks, what it sent last is read, or in the link, and in a pass
\* that was not suspended the read has brought the silence below that.
ServerHeard ==
    /\ ~ccpUnread => recv <= ccpQuiet
    /\ ccpTalks => ccpQuiet <= ServerTalks /\ (ccpUp \/ ccpSuspended)
    /\ ccpTalks /\ ccpAt = "check" /\ ~ccpSuspended => recv <= ServerTalks

\* The link of a server that is alive is never dropped, however long the
\* process was asleep, by a pass that was not suspended between its read of the
\* link and its poll.
THEOREM LiveServerIsKept == CcpSpec => []LiveServerKept
<1>1. CcpInit => ServerHeard
  BY CcpMonitorAssumption DEF CcpInit, ServerHeard
<1>2. Ages /\ ServerHeard /\ [CcpNext]_ccpVars => ServerHeard'
  <2> SUFFICES ASSUME Ages, ServerHeard, [CcpNext]_ccpVars
               PROVE  ServerHeard'
    OBVIOUS
  <2> USE CcpMonitorAssumption DEF Ages, ServerHeard
  <2>1. CASE CcpTick
    BY <2>1 DEF CcpTick
  <2>2. CASE ServerSends
    BY <2>2 DEF ServerSends
  <2>3. CASE CcpGoSilent
    BY <2>3 DEF CcpGoSilent
  <2>4. CASE ClientSend
    BY <2>4 DEF ClientSend
  <2>5. CASE Ping
    BY <2>5 DEF Ping
  <2>6. CASE CcpReconnect
    BY <2>6 DEF CcpReconnect, Connected
  <2>7. CASE CcpCheck /\ PollPaused
    BY <2>7 DEF CcpCheck, PollPaused
  <2>8. CASE CcpCheck /\ PollJumped
    BY <2>8 DEF CcpCheck, PollJumped
  <2>9. CASE CcpCheck /\ PollDead
    BY <2>9 DEF CcpCheck, PollDead
  <2>10. CASE CcpCheck /\ PollAlive
    BY <2>10 DEF CcpCheck, PollAlive
  <2>11. CASE CcpRead
    BY <2>11 DEF CcpRead
  <2>12. CASE CcpCheck /\ Unpolled
    BY <2>12 DEF CcpCheck, Unpolled
  <2>13. CASE UNCHANGED ccpVars
    BY <2>13 DEF ccpVars
  <2> QED
    BY <2>1, <2>2, <2>3, <2>4, <2>5, <2>6, <2>7, <2>8, <2>9, <2>10, <2>11, <2>12, <2>13, CcpPollCases
<1>3. ServerHeard => LiveServerKept
  BY DEF ServerHeard, LiveServerKept
<1> QED
  BY <1>1, <1>2, <1>3, CcpTypeCorrect, PTL DEF CcpSpec, CcpTypeOK

-----------------------------------------------------------------------------
\* How old the last send may be before the first check of a connection: the
\* pause, the poll that ends it, and the second until the poll that checks.
FirstCheckDue ==
    ccpUp /\ ~foundAlive /\ ~ccpSlept =>
        /\ lastSilence = 0
        /\ sent <= Pause + (IF ended THEN 1 ELSE 0) + (IF polled THEN 0 ELSE 1)

\* A link on which nothing was sent nor received for CCP_DEAD_LIMIT is dropped
\* by then, unless an earlier check had found it alive or the process slept.
THEOREM DeadServerIsFound == CcpSpec => []CcpFoundInTime
<1>1. CcpInit => FirstCheckDue
  BY CcpMonitorAssumption DEF CcpInit, FirstCheckDue
<1>2. Ages /\ FirstCheckDue /\ [CcpNext]_ccpVars => FirstCheckDue'
  <2> SUFFICES ASSUME Ages, FirstCheckDue, [CcpNext]_ccpVars
               PROVE  FirstCheckDue'
    OBVIOUS
  <2> USE CcpMonitorAssumption DEF Ages, FirstCheckDue
  <2>1. CASE CcpTick
    BY <2>1 DEF CcpTick
  <2>2. CASE ServerSends
    BY <2>2 DEF ServerSends
  <2>3. CASE CcpGoSilent
    BY <2>3 DEF CcpGoSilent
  <2>4. CASE ClientSend
    BY <2>4 DEF ClientSend
  <2>5. CASE Ping
    BY <2>5 DEF Ping
  <2>6. CASE CcpReconnect
    BY <2>6 DEF CcpReconnect, Connected
  <2>7. CASE CcpCheck /\ PollPaused
    <3>1. ~ended' => ~(sent > Pause)
      BY <2>7, PauseEnds
    <3> QED
      BY <2>7, <3>1 DEF CcpCheck, PollPaused, PauseOver
  <2>8. CASE CcpCheck /\ PollJumped
    BY <2>8 DEF CcpCheck, PollJumped, Jumped
  <2>9. CASE CcpCheck /\ PollDead
    BY <2>9 DEF CcpCheck, PollDead
  <2>10. CASE CcpCheck /\ PollAlive
    BY <2>10 DEF CcpCheck, PollAlive
  <2>11. CASE CcpRead
    BY <2>11 DEF CcpRead
  <2>12. CASE CcpCheck /\ Unpolled
    BY <2>12 DEF CcpCheck, Unpolled
  <2>13. CASE UNCHANGED ccpVars
    BY <2>13 DEF ccpVars
  <2> QED
    BY <2>1, <2>2, <2>3, <2>4, <2>5, <2>6, <2>7, <2>8, <2>9, <2>10, <2>11, <2>12, <2>13, CcpPollCases
<1>3. Ages /\ FirstCheckDue => CcpFoundInTime
  BY CcpMonitorAssumption DEF Ages, FirstCheckDue, CcpFoundInTime, CcpDeadLimit
<1> QED
  BY <1>1, <1>2, <1>3, CcpTypeCorrect, PTL DEF CcpSpec, CcpTypeOK

-----------------------------------------------------------------------------
(***************************************************************************)
(* FarmPing: a drop is justified unless its pass was suspended, and a      *)
(* silent farm is found within FARM_DEAD_LIMIT unless the process slept.   *)
(***************************************************************************)
\* The check's three outcomes, one step of Next each.
LEMMA FarmCheckCases ==
    ASSUME FarmNext
    PROVE  \/ FarmTick \/ FarmSends \/ FarmGoSilent \/ Read \/ FarmReconnect
           \/ (Check /\ CheckDead) \/ (Check /\ CheckPing) \/ (Check /\ CheckNothing)
  BY DEF FarmNext, Check

\* The flags stay Boolean.
LEMMA FarmFlagsStep == FarmFlags /\ [FarmNext]_farmVars => FarmFlags'
<1> SUFFICES ASSUME FarmFlags, [FarmNext]_farmVars
             PROVE  FarmFlags'
  OBVIOUS
<1> USE DEF FarmFlags
<1>1. CASE FarmTick
  BY <1>1 DEF FarmTick
<1>2. CASE FarmSends
  BY <1>2 DEF FarmSends
<1>3. CASE FarmGoSilent
  BY <1>3 DEF FarmGoSilent
<1>4. CASE Read
  BY <1>4 DEF Read
<1>5. CASE FarmReconnect
  BY <1>5 DEF FarmReconnect
<1>6. CASE Check /\ CheckDead
  BY <1>6 DEF Check, CheckDead
<1>7. CASE Check /\ CheckPing
  BY <1>7 DEF Check, CheckPing
<1>8. CASE Check /\ CheckNothing
  BY <1>8 DEF Check, CheckNothing
<1>9. CASE UNCHANGED farmVars
  BY <1>9 DEF farmVars
<1> QED
  BY <1>1, <1>2, <1>3, <1>4, <1>5, <1>6, <1>7, <1>8, <1>9, FarmCheckCases

\* The ages and times stay within their bounds.
LEMMA FarmNumbersStep == Numbers /\ [FarmNext]_farmVars => Numbers'
<1> SUFFICES ASSUME Numbers, [FarmNext]_farmVars
             PROVE  Numbers'
  OBVIOUS
<1> USE FarmPingAssumption DEF Numbers, None, FarmDeadLimit
<1>1. CASE FarmTick
  BY <1>1 DEF FarmTick
<1>2. CASE FarmSends
  BY <1>2 DEF FarmSends
<1>3. CASE FarmGoSilent
  BY <1>3 DEF FarmGoSilent
<1>4. CASE Read
  BY <1>4 DEF Read
<1>5. CASE FarmReconnect
  BY <1>5 DEF FarmReconnect
<1>6. CASE Check /\ CheckDead
  BY <1>6 DEF Check, CheckDead
<1>7. CASE Check /\ CheckPing
  BY <1>7 DEF Check, CheckPing, Following
<1>8. CASE Check /\ CheckNothing
  BY <1>8 DEF Check, CheckNothing
<1>9. CASE UNCHANGED farmVars
  BY <1>9 DEF farmVars
<1> QED
  BY <1>1, <1>2, <1>3, <1>4, <1>5, <1>6, <1>7, <1>8, <1>9, FarmCheckCases

\* The types of the variables hold in every reachable state.
THEOREM FarmTypeCorrect == FarmSpec => []FarmTypeOK
<1>1. FarmInit => FarmFlags
  BY DEF FarmInit, FarmFlags
<1>2. FarmInit => Numbers
  BY FarmPingAssumption DEF FarmInit, Numbers, None, FarmDeadLimit
<1> QED
  BY <1>1, <1>2, FarmFlagsStep, FarmNumbersStep, PTL DEF FarmSpec, FarmTypeOK

-----------------------------------------------------------------------------
\* What the answer of a farm leaves behind: it is in the link, to be read
\* before the check at which the test request has waited too long.
AnswerKept ==
    /\ answered /\ farmPending # None => farmUnread /\ (at = "check" /\ ~suspended =>
        farmPending < PingAnswer)
    /\ ~farmUp => ~answered \/ suspended

\* A link is dropped only when nothing arrived within the answer time of its
\* test request, whatever the process slept between two passes, unless the
\* pass that drops it was suspended between its read and its check.
THEOREM FarmDropIsJustified == FarmSpec => []DropJustified
<1>1. FarmInit => AnswerKept
  BY DEF FarmInit, AnswerKept
<1>2. FarmTypeOK /\ AnswerKept /\ [FarmNext]_farmVars => AnswerKept'
  <2> SUFFICES ASSUME FarmTypeOK, AnswerKept, [FarmNext]_farmVars
               PROVE  AnswerKept'
    OBVIOUS
  <2> USE FarmPingAssumption DEF FarmTypeOK, Numbers, AnswerKept, None
  <2>1. CASE FarmTick
    BY <2>1 DEF FarmTick
  <2>2. CASE FarmSends
    <3>1. answered' => answered \/ farmPending \in 0 .. PingAnswer - 1
      BY <2>2, Zenon DEF FarmSends
    <3>2. farmUp /\ farmUp' /\ farmUnread' /\ farmPending' = farmPending
          /\ at' = at /\ suspended' = suspended
      BY <2>2 DEF FarmSends
    <3> QED
      BY <3>1, <3>2
  <2>3. CASE FarmGoSilent
    BY <2>3 DEF FarmGoSilent
  <2>4. CASE Read
    BY <2>4 DEF Read
  <2>5. CASE FarmReconnect
    BY <2>5 DEF FarmReconnect
  <2>6. CASE Check /\ CheckDead
    BY <2>6 DEF Check, CheckDead, Unanswered
  <2>7. CASE Check /\ CheckPing
    BY <2>7 DEF Check, CheckPing
  <2>8. CASE Check /\ CheckNothing
    BY <2>8 DEF Check, CheckNothing
  <2>9. CASE UNCHANGED farmVars
    BY <2>9 DEF farmVars
  <2> QED
    BY <2>1, <2>2, <2>3, <2>4, <2>5, <2>6, <2>7, <2>8, <2>9, FarmCheckCases
<1>3. AnswerKept => DropJustified
  BY DEF AnswerKept, DropJustified
<1> QED
  BY <1>1, <1>2, <1>3, FarmTypeCorrect, PTL DEF FarmSpec

-----------------------------------------------------------------------------
\* How far the silence of a farm may be along, by what the engine waits for:
\* the next test request, or the answer to the last.
SilenceBounded ==
    farmUp /\ ~farmSlept =>
    /\ farmUnread => farmQuiet <= IF passed \/ at = "check" THEN 0 ELSE 1
    /\ nextPing >= 0 /\ (passed => nextPing > 0)
    /\ farmPending = None => farmQuiet + nextPing <= PingInterval
    /\ farmPending # None =>
        /\ nextPing = PingInterval - farmPending
        /\ farmQuiet <= PingInterval + farmPending
        /\ passed => farmPending < PingAnswer
        /\ ~passed => farmPending >= 1

\* A farm that sends nothing is dropped by the pass FARM_DEAD_LIMIT later, on a
\* connection through which the process did not sleep.
THEOREM DeadFarmIsFound == FarmSpec => []FarmFoundInTime
<1>1. FarmInit => SilenceBounded
  BY FarmPingAssumption DEF FarmInit, SilenceBounded, None
<1>2. FarmTypeOK /\ SilenceBounded /\ [FarmNext]_farmVars => SilenceBounded'
  <2> SUFFICES ASSUME FarmTypeOK, SilenceBounded, [FarmNext]_farmVars
               PROVE  SilenceBounded'
    OBVIOUS
  <2> USE FarmPingAssumption DEF FarmTypeOK, Numbers, SilenceBounded, None, FarmDeadLimit
  <2>1. CASE FarmTick
    BY <2>1 DEF FarmTick
  <2>2. CASE FarmSends
    BY <2>2 DEF FarmSends
  <2>3. CASE FarmGoSilent
    BY <2>3 DEF FarmGoSilent
  <2>4. CASE Read
    BY <2>4 DEF Read
  <2>5. CASE FarmReconnect
    BY <2>5 DEF FarmReconnect
  <2>6. CASE Check /\ CheckDead
    BY <2>6 DEF Check, CheckDead
  <2>7. CASE Check /\ CheckPing
    BY <2>7 DEF Check, CheckPing, Following, Unanswered
  <2>8. CASE Check /\ CheckNothing
    BY <2>8 DEF Check, CheckNothing, Unanswered
  <2>9. CASE UNCHANGED farmVars
    BY <2>9 DEF farmVars
  <2> QED
    BY <2>1, <2>2, <2>3, <2>4, <2>5, <2>6, <2>7, <2>8, <2>9, FarmCheckCases
<1>3. FarmTypeOK /\ SilenceBounded => FarmFoundInTime
  BY FarmPingAssumption DEF FarmTypeOK, Numbers, SilenceBounded, FarmFoundInTime, FarmDeadLimit,
      None
<1> QED
  BY <1>1, <1>2, <1>3, FarmTypeCorrect, PTL DEF FarmSpec

-----------------------------------------------------------------------------
(***************************************************************************)
(* Links: what the engine remembers of its last report (links, told) is    *)
(* what relates the notices to the links, and the dial of a link that was  *)
(* up at the last report cannot have succeeded before the loss is          *)
(* reported: that keeps the open-order requests held.                      *)
(***************************************************************************)
\* Whatever notices are given, a client has a view of every connection.
LEMMA LinksPushType ==
    ASSUME view \in [Told \cup {"ccp"} -> BOOLEAN], NEW lost, NEW back, Push(lost, back)
    PROVE  view' \in [Told \cup {"ccp"} -> BOOLEAN]
BY DEF Push

\* Every action keeps the types.
LEMMA LinksTypeStep == LinksTypeOK /\ [LinksNext]_linksVars => LinksTypeOK'
<1> SUFFICES ASSUME LinksTypeOK, [LinksNext]_linksVars PROVE LinksTypeOK'
  OBVIOUS
<1> USE LinksAssumption DEF LinksTypeOK, Links, Told
<1>1. ASSUME NEW l \in Links, Lose(l) PROVE LinksTypeOK'
  BY <1>1 DEF Lose
<1>2. ASSUME NEW l \in Links, Elapse(l) PROVE LinksTypeOK'
  BY <1>2 DEF Elapse
<1>3. ASSUME NEW l \in Links, NEW r \in {"ok", "failed", "refused", "dropped"}, Result(l, r)
      PROVE LinksTypeOK'
  BY <1>3 DEF Result
<1>4. CASE ReplayEnds
  BY <1>4 DEF ReplayEnds
<1>5. CASE WaitOver
  BY <1>5 DEF WaitOver
<1>6. CASE ReadDone
  BY <1>6 DEF ReadDone
<1>7. CASE Dial
  <2> USE <1>7 DEF Dial, Spawned, Polled, Refused, Exhausted, Replayed
  <2>1. up' \in [Links -> BOOLEAN] /\ links' \in [Links -> BOOLEAN]
    OBVIOUS
  <2>2. dial' \in [Links -> {"none", "scheduled", "due", "flying", "ok", "failed", "refused",
      "dropped"}]
    OBVIOUS
  <2>3. \A l \in Links : up'[l] => dial'[l] = "none"
    OBVIOUS
  <2>4. attempts' \in 0 .. MaxAttempts
    OBVIOUS
  <2>5. /\ replay' \in {"none", "login", "status"} /\ (replay' # "none" => up'["ccp"])
        /\ replayEnd' \in {"none", "wait", "over"} /\ (replayEnd' # "none" => up'["ccp"])
    OBVIOUS
  <2>6. QED
    BY <2>1, <2>2, <2>3, <2>4, <2>5
<1>8. CASE Report
  <2>1. view' \in [Told \cup {"ccp"} -> BOOLEAN]
    BY <1>8, LinksPushType DEF Report
  <2>2. told' \in [Told -> BOOLEAN]
    BY <1>8 DEF Report, OkNow
  <2>3. QED
    BY <1>8, <2>1, <2>2 DEF Report
<1>9. CASE Restored
  <2>1. view' \in [Told \cup {"ccp"} -> BOOLEAN]
    BY <1>9, LinksPushType DEF Restored
  <2>2. QED
    BY <1>9, <2>1 DEF Restored
<1>10. CASE UNCHANGED linksVars
  BY <1>10 DEF linksVars
<1>11. QED
  BY <1>1, <1>2, <1>3, <1>4, <1>5, <1>6, <1>7, <1>8, <1>9, <1>10 DEF LinksNext, Engine

\* The type invariant of the links and their reconnects: a link that is up has
\* no reconnect under way, and only an auth link that is up awaits a replay.
THEOREM LinksTypeCorrect == LinksSpec => []LinksTypeOK
<1>1. LinksInit => LinksTypeOK
  BY LinksAssumption DEF LinksInit, LinksTypeOK, Links, Told
<1>2. QED
  BY <1>1, LinksTypeStep, PTL DEF LinksSpec

-----------------------------------------------------------------------------
(***************************************************************************)
(* The notices.                                                            *)
(***************************************************************************)
\* The links a client was told of are those of the last report.
ToldInv ==
    /\ \A d \in Told : told[d] = (links["ccp"] /\ (d = "secdef" \/ links[d]))
    /\ \A d \in Told : view[d] = told[d]
    /\ pc \in {"restored", "ended"} => \A l \in Links : links[l] = up[l]

\* A report of all that changed leaves the client with what is told.
LEMMA ReportTells ==
    ASSUME LinksTypeOK, ToldInv, Report
    PROVE  \A d \in Told : view'[d] = told'[d]
<1> SUFFICES ASSUME NEW d \in Told PROVE view'[d] = told'[d]
  OBVIOUS
<1>1. told' = OkNow /\ told[d] \in BOOLEAN /\ OkNow[d] \in BOOLEAN /\ view[d] = told[d]
  BY DEF Report, LinksTypeOK, OkNow, ToldInv, Links, Told
<1>2. CASE links = up
  <2>1. view'[d] = view[d]
    BY <1>2 DEF Report
  <2>2. told[d] = OkNow[d]
    BY <1>2 DEF OkNow, ToldInv
  <2>3. QED
    BY <1>1, <2>1, <2>2
<1>3. CASE links # up
  <2>1. view'[d] = (d \notin LostNow(OkNow) /\ (d \in BackNow(OkNow) \/ view[d]))
    BY <1>3 DEF Report, Push
  <2>2. /\ d \in LostNow(OkNow) <=> told[d] /\ ~OkNow[d]
        /\ d \in BackNow(OkNow) <=> ~told[d] /\ OkNow[d]
    BY DEF LostNow, BackNow, Told
  <2>3. QED
    BY <1>1, <2>1, <2>2
<1>4. QED
  BY <1>2, <1>3

LEMMA LinksToldStep == LinksTypeOK /\ ToldInv /\ [LinksNext]_linksVars => ToldInv'
<1> SUFFICES ASSUME LinksTypeOK, ToldInv, [LinksNext]_linksVars PROVE ToldInv'
  OBVIOUS
<1>1. ASSUME NEW l \in Links, Lose(l) PROVE ToldInv'
  BY <1>1 DEF Lose, ToldInv
<1>2. ASSUME NEW l \in Links, Elapse(l) PROVE ToldInv'
  BY <1>2 DEF Elapse, ToldInv
<1>3. ASSUME NEW l \in Links, NEW r \in {"ok", "failed", "refused", "dropped"}, Result(l, r)
      PROVE ToldInv'
  BY <1>3 DEF Result, ToldInv
<1>4. CASE ReplayEnds
  BY <1>4 DEF ReplayEnds, ToldInv
<1>5. CASE WaitOver
  BY <1>5 DEF WaitOver, ToldInv
<1>6. CASE ReadDone
  BY <1>6 DEF ReadDone, ToldInv
<1>7. CASE Dial
  BY <1>7 DEF Dial, ToldInv
<1>8. CASE Report
  <2>1. \A d \in Told : told'[d] = (links'["ccp"] /\ (d = "secdef" \/ links'[d]))
    BY <1>8 DEF Report, OkNow
  <2>2. \A l \in Links : links'[l] = up'[l]
    BY <1>8 DEF Report
  <2>3. QED
    BY <1>8, <2>1, <2>2, ReportTells DEF ToldInv
<1>9. CASE Restored
  <2>1. \A d \in Told : view'[d] = view[d]
    BY <1>9 DEF Restored, Push, Told, LinksTypeOK
  <2>2. UNCHANGED <<told, links, up>> /\ pc = "restored"
    BY <1>9 DEF Restored
  <2>3. QED
    BY <2>1, <2>2 DEF ToldInv
<1>10. CASE UNCHANGED linksVars
  BY <1>10 DEF linksVars, ToldInv
<1>11. QED
  BY <1>1, <1>2, <1>3, <1>4, <1>5, <1>6, <1>7, <1>8, <1>9, <1>10 DEF LinksNext, Engine

\* Whatever links are lost and come back in whatever order, after each report
\* the notices given so far tell a client every data connection as it is.
THEOREM NoticesTrue == LinksSpec => []ViewTrue
<1>1. LinksInit => ToldInv
  BY DEF LinksInit, ToldInv, Told, Links
<1>2. LinksTypeOK /\ ToldInv => ViewTrue
  BY DEF LinksTypeOK, ToldInv, ViewTrue, Told, Links
<1>3. QED
  BY <1>1, <1>2, LinksToldStep, LinksTypeCorrect, PTL DEF LinksSpec

-----------------------------------------------------------------------------
(***************************************************************************)
(* The open-order requests.                                                *)
(***************************************************************************)
\* Until the loss of the auth link is reported no attempt on it is made, so
\* the replay of a new logon finds the requests held.
HeldInv ==
    /\ pc \in {"read", "restored", "ended"} /\ up["ccp"] => links["ccp"]
    /\ pc \in {"restored", "ended"} => links["ccp"] = up["ccp"]
    /\ pc # "report" /\ links["ccp"] => dial["ccp"] = "none"
    /\ ~links["ccp"] => held
    /\ replay # "none" => held

LEMMA LinksHeldStep == LinksTypeOK /\ HeldInv /\ [LinksNext]_linksVars => HeldInv'
<1> SUFFICES ASSUME LinksTypeOK, HeldInv, [LinksNext]_linksVars PROVE HeldInv'
  OBVIOUS
<1> USE DEF LinksTypeOK, HeldInv, Links
<1>1. ASSUME NEW l \in Links, Lose(l) PROVE HeldInv'
  BY <1>1 DEF Lose
<1>2. ASSUME NEW l \in Links, Elapse(l) PROVE HeldInv'
  BY <1>2 DEF Elapse
<1>3. ASSUME NEW l \in Links, NEW r \in {"ok", "failed", "refused", "dropped"}, Result(l, r)
      PROVE HeldInv'
  BY <1>3 DEF Result
<1>4. CASE ReplayEnds
  BY <1>4 DEF ReplayEnds
<1>5. CASE WaitOver
  BY <1>5 DEF WaitOver
<1>6. CASE ReadDone
  BY <1>6 DEF ReadDone
<1>7. CASE Dial
  BY <1>7 DEF Dial, Replayed
<1>8. CASE Report
  BY <1>8 DEF Report
<1>9. CASE Restored
  BY <1>9 DEF Restored
<1>10. CASE UNCHANGED linksVars
  BY <1>10 DEF linksVars
<1>11. QED
  BY <1>1, <1>2, <1>3, <1>4, <1>5, <1>6, <1>7, <1>8, <1>9, <1>10 DEF LinksNext, Engine

\* An open-order request is never answered between the report of a lost auth
\* link and the end of the order replay that corrects the orders.
THEOREM RequestsHeld == LinksSpec => []HeldUntilCorrected
<1>1. LinksInit => HeldInv
  BY DEF LinksInit, HeldInv, Links
<1>2. HeldInv => HeldUntilCorrected
  BY DEF HeldInv, HeldUntilCorrected
<1>3. QED
  BY <1>1, <1>2, LinksHeldStep, LinksTypeCorrect, PTL DEF LinksSpec

-----------------------------------------------------------------------------
(***************************************************************************)
(* The attempts.                                                           *)
(***************************************************************************)
\* No attempt on the auth link or the market data farm is started but the one
\* that was scheduled and whose time has come, also after a thread that ended
\* without a result.
THEOREM BackoffKept == LinksSpec => AttemptsWait
<1> DEFINE Waits ==
      \A l \in {"ccp", "farm"} :
          dial'[l] = "flying" /\ dial[l] # "flying" => dial[l] = "due"
<1>1. LinksTypeOK /\ [LinksNext]_linksVars => [Waits]_linksVars
  <2> SUFFICES ASSUME LinksTypeOK, [LinksNext]_linksVars PROVE [Waits]_linksVars
    OBVIOUS
  <2> USE DEF LinksTypeOK, Links
  <2>1. ASSUME NEW l \in Links, Lose(l) \/ Elapse(l) PROVE Waits
    BY <2>1 DEF Lose, Elapse
  <2>2. ASSUME NEW l \in Links, NEW r \in {"ok", "failed", "refused", "dropped"}, Result(l, r)
        PROVE Waits
    BY <2>2 DEF Result
  <2>3. CASE Dial
    BY <2>3 DEF Dial, Spawned, Polled
  <2>4. CASE ReplayEnds \/ WaitOver \/ ReadDone \/ Report \/ Restored
    BY <2>4 DEF ReplayEnds, WaitOver, ReadDone, Report, Restored
  <2>5. QED
    BY <2>1, <2>2, <2>3, <2>4 DEF LinksNext, Engine, linksVars
<1>2. QED
  BY <1>1, LinksTypeCorrect, PTL DEF LinksSpec, AttemptsWait

-----------------------------------------------------------------------------
(***************************************************************************)
(* OrderIds: the file is read, written and renamed without a lock, by any  *)
(* number of sessions in any number of processes, across their crashes,    *)
(* restarts, failed reads and failed writes.                               *)
(***************************************************************************)
LEMMA EntriesType ==
    ASSUME SaverTypeOK, NEW text \in {file, NoLines}, Entries(text)
    PROVE  text \in Lines /\ faults' \in 0 .. MaxCrashes
BY OrderIdsAssumption DEF SaverTypeOK, Entries, NoLines, Lines, Ids

LEMMA SaverTypeStep == SaverTypeOK /\ [SaverNext]_saverVars => SaverTypeOK'
<1> SUFFICES ASSUME SaverTypeOK, [SaverNext]_saverVars PROVE SaverTypeOK'
  OBVIOUS
<1>0. NoLines \in Lines
  BY OrderIdsAssumption DEF NoLines, Lines, Ids
<1> USE OrderIdsAssumption DEF SaverTypeOK, Ids, Lines, Higher, diskVars, copyVars
<1>1. ASSUME NEW s \in Sessions, Start(s) PROVE SaverTypeOK'
  <2>1. PICK text \in {file, NoLines} :
          /\ Entries(text)
          /\ saved' = [saved EXCEPT ![s] = text[ClientOf[s]]]
          /\ highest' = [highest EXCEPT ![s] = Higher(@, text[ClientOf[s]])]
    BY <1>1 DEF Start
  <2>2. text[ClientOf[s]] \in Ids /\ faults' \in 0 .. MaxCrashes
    BY <2>1, EntriesType
  <2>3. QED
    BY <1>1, <2>1, <2>2 DEF Start
<1>2. ASSUME NEW s \in Sessions, Stop(s) PROVE SaverTypeOK'
  BY <1>2 DEF Stop
<1>3. ASSUME NEW s \in Sessions, ReadStop(s) PROVE SaverTypeOK'
  BY <1>3 DEF ReadStop
<1>4. ASSUME NEW s \in Sessions, ReadHighest(s) PROVE SaverTypeOK'
  BY <1>4 DEF ReadHighest
<1>5. ASSUME NEW s \in Sessions, ReadEntries(s) PROVE SaverTypeOK'
  <2>1. PICK text \in {file, NoLines} :
          /\ Entries(text)
          /\ lines' = [lines EXCEPT ![s] = text]
          /\ recent' = IF text = file THEN recent \cup {s} ELSE recent \ {s}
          /\ IF text[ClientOf[s]] >= now[s]
             THEN /\ saved' = [saved EXCEPT ![s] = text[ClientOf[s]]]
                  /\ highest' = [highest EXCEPT ![s] = Higher(@, text[ClientOf[s]])]
                  /\ saverPc' = [saverPc EXCEPT ![s] = "next"]
             ELSE /\ saverPc' = [saverPc EXCEPT ![s] = "write"]
                  /\ UNCHANGED <<saved, highest>>
    BY <1>5 DEF ReadEntries
  <2>2. text \in Lines /\ text[ClientOf[s]] \in Ids /\ faults' \in 0 .. MaxCrashes
    BY <2>1, EntriesType
  <2>3. recent' \subseteq Sessions
    BY <2>1
  <2>4. lines' \in [Sessions -> Lines]
    BY <2>1, <2>2
  <2>5. saved' \in [Sessions -> Ids] /\ highest' \in [Sessions -> Ids]
    <3>1. Higher(highest[s], text[ClientOf[s]]) \in Ids
      BY <2>2
    <3>2. /\ saved' \in {saved, [saved EXCEPT ![s] = text[ClientOf[s]]]}
          /\ highest' \in {highest, [highest EXCEPT ![s] = Higher(@, text[ClientOf[s]])]}
      BY <2>1
    <3> HIDE DEF Higher, Ids, Lines
    <3>3. QED
      BY <2>2, <3>1, <3>2
  <2>6. saverPc' \in [Sessions -> {"down", "stop", "highest", "entries", "write", "rename", "next"}]
    <3>1. saverPc' \in {[saverPc EXCEPT ![s] = "next"], [saverPc EXCEPT ![s] = "write"]}
      BY <2>1
    <3>2. QED
      BY <3>1
  <2> HIDE DEF Higher, Ids, Lines
  <2>7. QED
    BY <1>5, <2>2, <2>3, <2>4, <2>5, <2>6 DEF ReadEntries
<1>6. ASSUME NEW s \in Sessions, WriteTmp(s) PROVE SaverTypeOK'
  BY <1>6 DEF WriteTmp, Wrote
<1>7. ASSUME NEW s \in Sessions, Rename(s) PROVE SaverTypeOK'
  <2>1. CASE hasTmp[ProcessOf[s]]
    <3>1. ProcessOf[s] \in Processes /\ tmp[ProcessOf[s]] \in [Clients -> 0 .. MaxId]
      OBVIOUS
    <3>2. undone' \subseteq Clients /\ recent' = {} /\ sound' = {}
      BY <1>7, <2>1 DEF Rename
    <3>3. highest' \in [Sessions -> Ids]
      <4>1. highest' = [highest EXCEPT ![s] = Higher(@, now[s])] /\ Higher(highest[s], now[s]) \in Ids
        BY <1>7, <2>1 DEF Rename
      <4> HIDE DEF Higher, Ids, Lines
      <4>2. QED
        BY <4>1
    <3>4. file' \in Lines
      BY <1>7, <2>1, <3>1 DEF Rename
    <3> HIDE DEF Higher, Ids, Lines
    <3>5. tmp' \in [Processes -> Lines] /\ hasTmp' \in [Processes -> BOOLEAN]
      <4>1. /\ tmp' = [tmp EXCEPT ![ProcessOf[s]] = NoLines] /\ tmp \in [Processes -> Lines]
            /\ hasTmp' = [hasTmp EXCEPT ![ProcessOf[s]] = FALSE]
        BY <1>7, <2>1 DEF Rename, Removed
      <4>2. QED
        BY <1>0, <4>1
    <3>6. owner' \in [Processes -> SUBSET Sessions]
      <4>1. owner' = [owner EXCEPT ![ProcessOf[s]] = {}] /\ owner \in [Processes -> SUBSET Sessions]
        BY <1>7, <2>1 DEF Rename, Removed
      <4>2. QED
        BY <4>1
    <3>7. QED
      BY <1>7, <2>1, <3>2, <3>3, <3>4, <3>5, <3>6 DEF Rename
  <2>2. CASE ~hasTmp[ProcessOf[s]]
    BY <1>7, <2>2 DEF Rename
  <2>3. QED
    BY <2>1, <2>2
<1>8. ASSUME NEW s \in Sessions, WriteFails(s) PROVE SaverTypeOK'
  <2>1. ProcessOf[s] \in Processes
    OBVIOUS
  <2> HIDE DEF Ids, Lines
  <2>2. tmp' \in [Processes -> Lines]
    <3>1. tmp' \in {tmp, [tmp EXCEPT ![ProcessOf[s]] = NoLines]} /\ tmp \in [Processes -> Lines]
      BY <1>8 DEF WriteFails
    <3>2. QED
      BY <1>0, <3>1
  <2>3. hasTmp' \in [Processes -> BOOLEAN] /\ sound' \subseteq Processes
    BY <1>8 DEF WriteFails
  <2>4. owner' \in [Processes -> SUBSET Sessions]
    <3>1. /\ owner' \in {owner, [owner EXCEPT ![ProcessOf[s]] = {}]}
          /\ owner \in [Processes -> SUBSET Sessions]
      BY <1>8 DEF WriteFails
    <3>2. QED
      BY <3>1
  <2>5. QED
    BY <1>8, <2>2, <2>3, <2>4 DEF WriteFails
<1>9. ASSUME NEW s \in Sessions, RenameFails(s) PROVE SaverTypeOK'
  BY <1>0, <1>9 DEF RenameFails, Removed
<1>10. ASSUME NEW s \in Sessions, Period(s) PROVE SaverTypeOK'
  <2>1. ClientOf[s] \in Clients
    OBVIOUS
  <2>2. kept' \in [Clients -> 0 .. MaxId]
    <3>1. [kept EXCEPT ![ClientOf[s]] = Higher(@, highest[s])] \in [Clients -> 0 .. MaxId]
      BY <2>1
    <3>2. kept' \in {kept, [kept EXCEPT ![ClientOf[s]] = Higher(@, highest[s])]}
      BY <1>10 DEF Period
    <3>3. QED
      BY <3>1, <3>2
  <2>3. 0 \in Ids
    OBVIOUS
  <2>4. saved' \in [Sessions -> Ids] /\ now' \in [Sessions -> Ids] /\ lines' \in [Sessions -> Lines]
    <3> HIDE DEF Ids, Lines
    <3>1. QED
      BY <1>0, <1>10, <2>3 DEF Period, LoopEnds
  <2>5. /\ saverPc' \in [Sessions -> {"down", "stop", "highest", "entries", "write", "rename", "next"}]
        /\ last' \in [Sessions -> BOOLEAN] /\ recent' \subseteq Sessions
    BY <1>10 DEF Period, LoopEnds
  <2> HIDE DEF Ids, Lines
  <2>6. QED
    BY <1>10, <2>2, <2>4, <2>5 DEF Period, Lines, Ids
<1>11. ASSUME NEW s \in Sessions, NEW id \in Ids, Place(s, id) PROVE SaverTypeOK'
  BY <1>11 DEF Place
<1>12. ASSUME NEW p \in Processes, Crash(p) PROVE SaverTypeOK'
  <2>1. 0 \in Ids
    OBVIOUS
  <2> HIDE DEF Ids, Lines
  <2>2. highest' \in [Sessions -> Ids] /\ saved' \in [Sessions -> Ids] /\ now' \in [Sessions -> Ids]
    BY <1>12, <2>1 DEF Crash
  <2>3. lines' \in [Sessions -> Lines] /\ recent' \subseteq Sessions /\ faults' \in 0 .. MaxCrashes
    BY <1>0, <1>12 DEF Crash
  <2>4. /\ saverPc' \in [Sessions -> {"down", "stop", "highest", "entries", "write", "rename", "next"}]
        /\ stop' \in [Sessions -> BOOLEAN] /\ last' \in [Sessions -> BOOLEAN]
    BY <1>12 DEF Crash
  <2>5. QED
    BY <1>12, <2>2, <2>3, <2>4 DEF Crash
<1>13. CASE UNCHANGED saverVars
  BY <1>13 DEF saverVars
<1>14. QED
  BY <1>1, <1>2, <1>3, <1>4, <1>5, <1>6, <1>7, <1>8, <1>9, <1>10, <1>11, <1>12, <1>13
  DEF SaverNext, ThreadStep

\* The type invariant of the order id file and its sessions.
THEOREM SaverTypeCorrect == SaverSpec => []SaverTypeOK
<1>1. SaverInit => SaverTypeOK
  BY OrderIdsAssumption DEF SaverInit, SaverTypeOK, Ids, Lines, NoLines
<1>2. QED
  BY <1>1, SaverTypeStep, PTL DEF SaverSpec

\* The values of a session and the lines are numbers.
LEMMA SaverNumbers ==
    ASSUME SaverTypeOK
    PROVE  /\ \A s \in Sessions : /\ ClientOf[s] \in Clients /\ ProcessOf[s] \in Processes
                                  /\ highest[s] \in Nat /\ saved[s] \in Nat /\ now[s] \in Nat
           /\ \A c \in Clients : file[c] \in Nat /\ kept[c] \in Nat
           /\ \A p \in Processes : \A c \in Clients : tmp[p][c] \in Nat
BY OrderIdsAssumption DEF SaverTypeOK, Ids, Lines

-----------------------------------------------------------------------------
(***************************************************************************)
(* The inductive invariant.                                                *)
(***************************************************************************)
\* The lines of a session that saves are those on disk while they are recent.
RecentInv ==
    \A s \in Sessions :
        saverPc[s] \in {"write", "rename"} /\ s \in recent =>
            lines[s] = file /\ now[s] > file[ClientOf[s]]

\* A sound copy is nowhere below the file.
SoundInv == \A p \in sound : \A c \in Clients : tmp[p][c] >= file[c]

\* A copy that is the session's own has its line.
OwnInv ==
    \A s \in Sessions :
        saverPc[s] = "rename" /\ owner[ProcessOf[s]] = {s} =>
            tmp[ProcessOf[s]][ClientOf[s]] = now[s]

\* The thread does not believe more on disk than is, but for a line taken back.
SavedInv == \A s \in Sessions : saved[s] <= file[ClientOf[s]] \/ ClientOf[s] \in undone

\* Once the thread has seen the stop request nothing is placed any more, so the
\* value it read last is the highest, or one it found on disk is.
StopInv ==
    \A s \in Sessions :
        /\ saverPc[s] \notin {"down", "stop"} /\ last[s] => stop[s]
        /\ saverPc[s] \in {"entries", "write", "rename"} /\ last[s] => highest[s] <= now[s]
        /\ saverPc[s] = "next" /\ last[s] => highest[s] <= now[s] \/ highest[s] <= saved[s]

KeptInv == KeptOnDisk /\ RecentInv /\ SoundInv /\ OwnInv /\ SavedInv /\ StopInv

\* A rename that finds a copy puts it in place: a line is lowered only if the
\* copy is not sound, and the session's own line is what it saved if the copy is
\* its own.
LEMMA RenameRaises ==
    ASSUME SaverTypeOK, KeptInv, NEW s \in Sessions, Rename(s)
    PROVE  /\ undone \subseteq undone'
           /\ \A c \in Clients : file'[c] \in Nat /\ (file'[c] >= file[c] \/ c \in undone')
           /\ hasTmp[ProcessOf[s]] => file'[ClientOf[s]] = now[s] \/ ClientOf[s] \in undone'
<1> USE SaverNumbers
<1>1. CASE hasTmp[ProcessOf[s]]
  <2>1. /\ saverPc[s] = "rename" /\ file' = tmp[ProcessOf[s]]
        /\ undone' = undone \cup {c \in Clients : ProcessOf[s] \notin sound /\ tmp[ProcessOf[s]][c] < file[c]}
                            \cup {c \in Clients : owner[ProcessOf[s]] # {s} /\ c = ClientOf[s]}
    BY <1>1 DEF Rename
  <2>2. ASSUME NEW c \in Clients PROVE file'[c] \in Nat /\ (file'[c] >= file[c] \/ c \in undone')
    <3>1. CASE ProcessOf[s] \in sound
      BY <2>1, <3>1 DEF KeptInv, SoundInv
    <3>2. CASE ProcessOf[s] \notin sound
      BY <2>1, <3>2
    <3>3. QED
      BY <3>1, <3>2
  <2>3. file'[ClientOf[s]] = now[s] \/ ClientOf[s] \in undone'
    BY <2>1 DEF KeptInv, OwnInv
  <2>4. QED
    BY <2>1, <2>2, <2>3
<1>2. CASE ~hasTmp[ProcessOf[s]]
  BY <1>2 DEF Rename, diskVars, copyVars
<1>3. QED
  BY <1>1, <1>2

\* Only a rename changes the file.
LEMMA FileStep ==
    ASSUME SaverTypeOK, KeptInv, [SaverNext]_saverVars
    PROVE  /\ undone \subseteq undone'
           /\ \A c \in Clients : file'[c] >= file[c] \/ c \in undone'
<1> DEFINE Same == file' = file /\ undone' = undone
           Goal == /\ undone \subseteq undone'
                   /\ \A c \in Clients : file'[c] >= file[c] \/ c \in undone'
<1>1. ASSUME NEW s \in Sessions, Rename(s) PROVE Goal
  BY <1>1, RenameRaises
<1>2. ASSUME Same PROVE Goal
  BY <1>2, SaverNumbers
<1>3. ASSUME NEW s \in Sessions,
             Start(s) \/ Stop(s) \/ ReadStop(s) \/ ReadHighest(s) \/ ReadEntries(s) \/ WriteTmp(s)
                \/ WriteFails(s) \/ RenameFails(s) \/ Period(s)
      PROVE  Same
  BY <1>3 DEF Start, Stop, ReadStop, ReadHighest, ReadEntries, WriteTmp, Wrote, WriteFails,
     RenameFails, Period, diskVars, copyVars
<1>4. ASSUME NEW s \in Sessions, NEW id \in Ids, Place(s, id) PROVE Same
  BY <1>4 DEF Place, diskVars, copyVars
<1>5. ASSUME NEW p \in Processes, Crash(p) PROVE Same
  BY <1>5 DEF Crash, diskVars
<1>6. ASSUME UNCHANGED saverVars PROVE Same
  BY <1>6 DEF saverVars, diskVars, copyVars
<1> HIDE DEF Goal, Same
<1>7. Goal
  BY <1>1, <1>2, <1>3, <1>4, <1>5, <1>6 DEF SaverNext, ThreadStep
<1>8. QED
  BY <1>7 DEF Goal

\* A session reads the file, or fails to.
LEMMA ReadStepInv ==
    ASSUME SaverTypeOK, KeptInv, NEW s \in Sessions, ReadEntries(s)
    PROVE  KeptInv'
<1>1. PICK text \in {file, NoLines} :
        /\ Entries(text)
        /\ lines' = [lines EXCEPT ![s] = text]
        /\ recent' = IF text = file THEN recent \cup {s} ELSE recent \ {s}
        /\ IF text[ClientOf[s]] >= now[s]
           THEN /\ saved' = [saved EXCEPT ![s] = text[ClientOf[s]]]
                /\ highest' = [highest EXCEPT ![s] = Higher(@, text[ClientOf[s]])]
                /\ saverPc' = [saverPc EXCEPT ![s] = "next"]
           ELSE /\ saverPc' = [saverPc EXCEPT ![s] = "write"]
                /\ UNCHANGED <<saved, highest>>
  BY DEF ReadEntries
<1>2. /\ saverPc[s] = "entries"
      /\ UNCHANGED <<file, tmp, hasTmp, stop, last, now, kept, owner, sound, undone>>
  BY DEF ReadEntries, diskVars
<1>3. /\ text[ClientOf[s]] \in Nat /\ text[ClientOf[s]] <= file[ClientOf[s]]
      /\ text[ClientOf[s]] = 0 \/ text = file
  BY SaverNumbers, EntriesType, <1>1 DEF Lines, Ids, NoLines
<1>4. KeptOnDisk' /\ SoundInv'
  BY <1>2 DEF KeptInv, KeptOnDisk, SoundInv
<1>5. RecentInv'
  <2> SUFFICES ASSUME NEW t \in Sessions, saverPc'[t] \in {"write", "rename"}, t \in recent'
               PROVE  lines'[t] = file' /\ now'[t] > file'[ClientOf[t]]
    BY DEF RecentInv
  <2>1. CASE t = s
    <3>1. text = file /\ ~(text[ClientOf[s]] >= now[s]) /\ lines'[s] = text
      BY <1>1, <2>1, SaverNumbers DEF SaverTypeOK
    <3>2. QED
      BY <1>2, <2>1, <3>1, SaverNumbers
  <2>2. CASE t # s
    <3>1. saverPc'[t] = saverPc[t] /\ lines'[t] = lines[t] /\ t \in recent
      BY <1>1, <2>2 DEF SaverTypeOK
    <3>2. QED
      BY <1>2, <3>1 DEF KeptInv, RecentInv
  <2>3. QED
    BY <2>1, <2>2
<1>6. OwnInv'
  <2> SUFFICES ASSUME NEW t \in Sessions, saverPc'[t] = "rename", owner'[ProcessOf[t]] = {t}
               PROVE  tmp'[ProcessOf[t]][ClientOf[t]] = now'[t]
    BY DEF OwnInv
  <2>1. t # s /\ saverPc'[t] = saverPc[t]
    BY <1>1, <1>2 DEF SaverTypeOK
  <2>2. QED
    BY <1>2, <2>1 DEF KeptInv, OwnInv
<1>7. SavedInv'
  <2> SUFFICES ASSUME NEW t \in Sessions
               PROVE  saved'[t] <= file'[ClientOf[t]] \/ ClientOf[t] \in undone'
    BY DEF SavedInv
  <2>1. saved'[t] = saved[t] \/ (t = s /\ saved'[t] = text[ClientOf[s]])
    BY <1>1 DEF SaverTypeOK
  <2>2. QED
    BY <1>2, <1>3, <2>1 DEF KeptInv, SavedInv
<1>8. StopInv'
  <2> SUFFICES ASSUME NEW t \in Sessions
               PROVE  /\ saverPc'[t] \notin {"down", "stop"} /\ last'[t] => stop'[t]
                      /\ saverPc'[t] \in {"entries", "write", "rename"} /\ last'[t] => highest'[t] <= now'[t]
                      /\ saverPc'[t] = "next" /\ last'[t] => highest'[t] <= now'[t] \/ highest'[t] <= saved'[t]
    BY DEF StopInv
  <2>1. CASE t # s
    <3>1. saverPc'[t] = saverPc[t] /\ highest'[t] = highest[t] /\ saved'[t] = saved[t]
      BY <1>1, <2>1 DEF SaverTypeOK
    <3>2. QED
      BY <1>2, <3>1 DEF KeptInv, StopInv
  <2>2. CASE t = s /\ text[ClientOf[s]] >= now[s]
    <3>1. /\ saverPc'[s] = "next" /\ saved'[s] = text[ClientOf[s]]
          /\ highest'[s] = Higher(highest[s], text[ClientOf[s]])
      BY <1>1, <2>2 DEF SaverTypeOK
    <3>2. last[s] => stop[s] /\ highest[s] <= now[s]
      BY <1>2 DEF KeptInv, StopInv
    <3>3. QED
      BY <1>2, <1>3, <2>2, <3>1, <3>2, SaverNumbers DEF Higher
  <2>3. CASE t = s /\ ~(text[ClientOf[s]] >= now[s])
    <3>1. saverPc'[s] = "write" /\ highest'[s] = highest[s]
      BY <1>1, <2>3 DEF SaverTypeOK
    <3>2. QED
      BY <1>2, <2>3, <3>1 DEF KeptInv, StopInv
  <2>4. QED
    BY <2>1, <2>2, <2>3
<1>9. QED
  BY <1>4, <1>5, <1>6, <1>7, <1>8 DEF KeptInv

\* A copy is written whole, over whatever was there.
LEMMA WriteStepInv ==
    ASSUME SaverTypeOK, KeptInv, NEW s \in Sessions, WriteTmp(s)
    PROVE  KeptInv'
<1> DEFINE p == ProcessOf[s]
           copy == [lines[s] EXCEPT ![ClientOf[s]] = now[s]]
<1>1. /\ saverPc[s] = "write" /\ saverPc' = [saverPc EXCEPT ![s] = "rename"]
      /\ tmp' = [tmp EXCEPT ![p] = copy] /\ owner' = [owner EXCEPT ![p] = {s}]
      /\ sound' = IF s \in recent THEN sound \cup {p} ELSE sound \ {p}
      /\ UNCHANGED <<file, highest, saved, stop, last, now, lines, kept, recent, undone>>
  BY DEF WriteTmp, Wrote
<1>2. p \in Processes /\ ClientOf[s] \in Clients /\ lines[s] \in [Clients -> Ids]
  BY SaverNumbers DEF SaverTypeOK, Lines
<1>3. KeptOnDisk' /\ SavedInv'
  BY <1>1 DEF KeptInv, KeptOnDisk, SavedInv
<1>4. RecentInv'
  <2> SUFFICES ASSUME NEW t \in Sessions, saverPc'[t] \in {"write", "rename"}, t \in recent'
               PROVE  lines'[t] = file' /\ now'[t] > file'[ClientOf[t]]
    BY DEF RecentInv
  <2>1. saverPc[t] \in {"write", "rename"}
    BY <1>1 DEF SaverTypeOK
  <2>2. QED
    BY <1>1, <2>1 DEF KeptInv, RecentInv
<1>5. SoundInv'
  <2> SUFFICES ASSUME NEW q \in sound', NEW c \in Clients
               PROVE  tmp'[q][c] >= file'[c]
    BY DEF SoundInv
  <2>1. CASE q = p
    <3>1. s \in recent
      BY <1>1, <2>1
    <3>2. lines[s] = file /\ now[s] > file[ClientOf[s]]
      BY <1>1, <3>1 DEF KeptInv, RecentInv
    <3>3. tmp'[q] = copy
      BY <1>1, <1>2, <2>1 DEF SaverTypeOK
    <3>4. copy[c] = IF c = ClientOf[s] THEN now[s] ELSE file[c]
      BY <1>2, <3>2
    <3>5. now[s] \in Nat /\ file[c] \in Nat /\ file' = file
      BY <1>1, SaverNumbers
    <3> HIDE DEF copy
    <3>6. tmp'[q][c] >= file[c]
      BY <3>2, <3>3, <3>4, <3>5
    <3>7. QED
      BY <3>5, <3>6
  <2>2. CASE q # p
    <3>1. q \in sound /\ tmp'[q] = tmp[q]
      BY <1>1, <2>2 DEF SaverTypeOK
    <3>2. QED
      BY <1>1, <3>1 DEF KeptInv, SoundInv
  <2>3. QED
    BY <2>1, <2>2
<1>6. OwnInv'
  <2> SUFFICES ASSUME NEW t \in Sessions, saverPc'[t] = "rename", owner'[ProcessOf[t]] = {t}
               PROVE  tmp'[ProcessOf[t]][ClientOf[t]] = now'[t]
    BY DEF OwnInv
  <2>1. CASE ProcessOf[t] = p
    <3>1. owner'[p] = {s}
      BY <1>1, <1>2 DEF SaverTypeOK
    <3>2. t = s
      BY <2>1, <3>1
    <3>3. tmp'[p] = copy /\ copy[ClientOf[s]] = now[s]
      BY <1>1, <1>2 DEF SaverTypeOK
    <3>4. QED
      BY <1>1, <2>1, <3>2, <3>3
  <2>2. CASE ProcessOf[t] # p
    <3>1. /\ owner'[ProcessOf[t]] = owner[ProcessOf[t]] /\ tmp'[ProcessOf[t]] = tmp[ProcessOf[t]]
          /\ saverPc'[t] = saverPc[t]
      BY <1>1, <2>2, SaverNumbers DEF SaverTypeOK
    <3>2. QED
      BY <1>1, <3>1 DEF KeptInv, OwnInv
  <2>3. QED
    BY <2>1, <2>2
<1>7. StopInv'
  <2>1. ASSUME NEW t \in Sessions PROVE saverPc'[t] = saverPc[t] \/ (t = s /\ saverPc'[s] = "rename")
    BY <1>1 DEF SaverTypeOK
  <2>2. QED
    BY <1>1, <2>1 DEF KeptInv, StopInv
<1>8. QED
  BY <1>3, <1>4, <1>5, <1>6, <1>7 DEF KeptInv

\* A rename.
LEMMA RenameStepInv ==
    ASSUME SaverTypeOK, KeptInv, NEW s \in Sessions, Rename(s)
    PROVE  KeptInv'
<1>1. /\ saverPc[s] = "rename" /\ saverPc' = [saverPc EXCEPT ![s] = "next"]
      /\ UNCHANGED <<stop, last, now, lines, kept>>
  BY DEF Rename
<1>2. /\ undone \subseteq undone'
      /\ \A c \in Clients : file'[c] \in Nat /\ (file'[c] >= file[c] \/ c \in undone')
      /\ hasTmp[ProcessOf[s]] => file'[ClientOf[s]] = now[s] \/ ClientOf[s] \in undone'
  BY RenameRaises
<1>3. KeptOnDisk'
  BY <1>1, <1>2, SaverNumbers DEF KeptInv, KeptOnDisk
<1>4. SavedInv'
  <2> SUFFICES ASSUME NEW t \in Sessions
               PROVE  saved'[t] <= file'[ClientOf[t]] \/ ClientOf[t] \in undone'
    BY DEF SavedInv
  <2>1. saved'[t] = saved[t] \/ (t = s /\ saved'[t] = now[s] /\ hasTmp[ProcessOf[s]])
    BY DEF Rename, SaverTypeOK
  <2>2. saved[t] <= file[ClientOf[t]] \/ ClientOf[t] \in undone
    BY DEF KeptInv, SavedInv
  <2>3. QED
    BY <1>2, <2>1, <2>2, SaverNumbers
<1>5. StopInv'
  <2> SUFFICES ASSUME NEW t \in Sessions
               PROVE  /\ saverPc'[t] \notin {"down", "stop"} /\ last'[t] => stop'[t]
                      /\ saverPc'[t] \in {"entries", "write", "rename"} /\ last'[t] => highest'[t] <= now'[t]
                      /\ saverPc'[t] = "next" /\ last'[t] => highest'[t] <= now'[t] \/ highest'[t] <= saved'[t]
    BY DEF StopInv
  <2>1. CASE t # s
    <3>1. saverPc'[t] = saverPc[t] /\ highest'[t] = highest[t] /\ saved'[t] = saved[t]
      BY <1>1, <2>1 DEF Rename, SaverTypeOK
    <3>2. QED
      BY <1>1, <3>1 DEF KeptInv, StopInv
  <2>2. CASE t = s
    <3>1. saverPc'[s] = "next" /\ (highest'[s] = highest[s] \/ highest'[s] = Higher(highest[s], now[s]))
      BY <1>1 DEF Rename, SaverTypeOK
    <3>2. last[s] => stop[s] /\ highest[s] <= now[s]
      BY <1>1 DEF KeptInv, StopInv
    <3>3. QED
      BY <1>1, <2>2, <3>1, <3>2, SaverNumbers DEF Higher
  <2>3. QED
    BY <2>1, <2>2
<1>6. CASE hasTmp[ProcessOf[s]]
  <2>1. recent' = {} /\ sound' = {} /\ tmp' = [tmp EXCEPT ![ProcessOf[s]] = NoLines]
        /\ owner' = [owner EXCEPT ![ProcessOf[s]] = {}]
    BY <1>6 DEF Rename, Removed
  <2>2. RecentInv' /\ SoundInv'
    BY <2>1 DEF RecentInv, SoundInv
  <2>3. OwnInv'
    <3> SUFFICES ASSUME NEW t \in Sessions, saverPc'[t] = "rename", owner'[ProcessOf[t]] = {t}
                 PROVE  tmp'[ProcessOf[t]][ClientOf[t]] = now'[t]
      BY DEF OwnInv
    <3>1. ProcessOf[t] # ProcessOf[s]
      BY <2>1, SaverNumbers DEF SaverTypeOK
    <3>2. /\ owner'[ProcessOf[t]] = owner[ProcessOf[t]] /\ tmp'[ProcessOf[t]] = tmp[ProcessOf[t]]
          /\ saverPc'[t] = saverPc[t]
      BY <1>1, <2>1, <3>1, SaverNumbers DEF SaverTypeOK
    <3>3. QED
      BY <1>1, <3>2 DEF KeptInv, OwnInv
  <2>4. QED
    BY <1>3, <1>4, <1>5, <2>2, <2>3 DEF KeptInv
<1>7. CASE ~hasTmp[ProcessOf[s]]
  <2>1. UNCHANGED <<file, tmp, owner, recent, sound>>
    BY <1>7 DEF Rename, diskVars, copyVars
  <2>2. \A t \in Sessions : saverPc'[t] \in {"write", "rename"} => saverPc'[t] = saverPc[t]
    BY <1>1 DEF SaverTypeOK
  <2>3. RecentInv' /\ SoundInv' /\ OwnInv'
    BY <1>1, <2>1, <2>2 DEF KeptInv, RecentInv, SoundInv, OwnInv
  <2>4. QED
    BY <1>3, <1>4, <1>5, <2>3 DEF KeptInv
<1>8. QED
  BY <1>6, <1>7

\* A write or a rename that fails leaves no sound copy that was not there.
LEMMA FailsStepInv ==
    ASSUME SaverTypeOK, KeptInv, NEW s \in Sessions, WriteFails(s) \/ RenameFails(s)
    PROVE  KeptInv'
<1> DEFINE p == ProcessOf[s]
<1>1. /\ saverPc[s] \in {"write", "rename"} /\ saverPc' = [saverPc EXCEPT ![s] = "next"]
      /\ UNCHANGED <<file, highest, saved, stop, last, now, lines, kept, recent, undone>>
      /\ \/ UNCHANGED <<tmp, owner, sound>>
         \/ /\ tmp' = [tmp EXCEPT ![p] = NoLines] /\ owner' = [owner EXCEPT ![p] = {}]
            /\ sound' = sound \ {p}
  BY DEF WriteFails, RenameFails, Removed
<1>2. KeptOnDisk' /\ SavedInv'
  BY <1>1 DEF KeptInv, KeptOnDisk, SavedInv
<1>3. \A t \in Sessions : saverPc'[t] = saverPc[t] \/ (t = s /\ saverPc'[t] = "next")
  BY <1>1 DEF SaverTypeOK
<1>4. RecentInv'
  BY <1>1, <1>3 DEF KeptInv, RecentInv
<1>5. StopInv'
  <2>1. last[s] => stop[s] /\ highest[s] <= now[s]
    BY <1>1 DEF KeptInv, StopInv
  <2>2. QED
    BY <1>1, <1>3, <2>1 DEF KeptInv, StopInv
<1>6. SoundInv'
  <2> SUFFICES ASSUME NEW q \in sound', NEW c \in Clients
               PROVE  tmp'[q][c] >= file'[c]
    BY DEF SoundInv
  <2>1. q \in sound /\ tmp'[q] = tmp[q]
    BY <1>1 DEF SaverTypeOK
  <2>2. QED
    BY <1>1, <2>1 DEF KeptInv, SoundInv
<1>7. OwnInv'
  <2> SUFFICES ASSUME NEW t \in Sessions, saverPc'[t] = "rename", owner'[ProcessOf[t]] = {t}
               PROVE  tmp'[ProcessOf[t]][ClientOf[t]] = now'[t]
    BY DEF OwnInv
  <2>1. owner'[ProcessOf[t]] = owner[ProcessOf[t]] /\ tmp'[ProcessOf[t]] = tmp[ProcessOf[t]]
    BY <1>1, SaverNumbers DEF SaverTypeOK
  <2>2. saverPc[t] = "rename"
    BY <1>3
  <2>3. QED
    BY <1>1, <2>1, <2>2 DEF KeptInv, OwnInv
<1>8. QED
  BY <1>2, <1>4, <1>5, <1>6, <1>7 DEF KeptInv

\* The end of a pass: a clean end promises what is on disk.
LEMMA PeriodStepInv ==
    ASSUME SaverTypeOK, KeptInv, NEW s \in Sessions, Period(s)
    PROVE  KeptInv'
<1>1. /\ saverPc[s] = "next"
      /\ saverPc' = [saverPc EXCEPT ![s] = IF last[s] THEN "down" ELSE "stop"]
      /\ saved' \in {saved, [saved EXCEPT ![s] = 0]}
      /\ last' = [last EXCEPT ![s] = FALSE] /\ now' = [now EXCEPT ![s] = 0]
      /\ lines' = [lines EXCEPT ![s] = NoLines] /\ recent' = recent \ {s}
      /\ UNCHANGED <<file, tmp, highest, stop, owner, sound, undone>>
  BY DEF Period, LoopEnds, diskVars
<1>2. \A t \in Sessions : t # s =>
         /\ saverPc'[t] = saverPc[t] /\ last'[t] = last[t] /\ now'[t] = now[t]
         /\ saved'[t] = saved[t] /\ lines'[t] = lines[t] /\ (t \in recent' <=> t \in recent)
  BY <1>1 DEF SaverTypeOK
<1>3. saverPc'[s] \in {"down", "stop"} /\ (saved'[s] = saved[s] \/ saved'[s] = 0) /\ last'[s] = FALSE
  BY <1>1 DEF SaverTypeOK
<1>4. RecentInv' /\ SoundInv' /\ OwnInv' /\ StopInv'
  BY <1>1, <1>2, <1>3 DEF KeptInv, RecentInv, SoundInv, OwnInv, StopInv
<1>5. SavedInv'
  <2> SUFFICES ASSUME NEW t \in Sessions
               PROVE  saved'[t] <= file'[ClientOf[t]] \/ ClientOf[t] \in undone'
    BY DEF SavedInv
  <2>1. saved'[t] = saved[t] \/ saved'[t] = 0
    BY <1>2, <1>3
  <2>2. QED
    BY <1>1, <2>1, SaverNumbers DEF KeptInv, SavedInv
<1>6. KeptOnDisk'
  <2>1. CASE last[s] /\ saved[s] >= now[s]
    <3>1. kept' = [kept EXCEPT ![ClientOf[s]] = Higher(@, highest[s])]
      BY <2>1 DEF Period
    <3>2. \A c \in Clients : kept'[c] = kept[c] \/ (c = ClientOf[s] /\ kept'[c] = highest[s])
      BY <3>1 DEF SaverTypeOK, Lines, Higher
    <3>3. highest[s] <= file[ClientOf[s]] \/ ClientOf[s] \in undone
      <4>1. highest[s] <= now[s] \/ highest[s] <= saved[s]
        BY <1>1, <2>1 DEF KeptInv, StopInv
      <4>2. saved[s] <= file[ClientOf[s]] \/ ClientOf[s] \in undone
        BY DEF KeptInv, SavedInv
      <4>3. QED
        BY <2>1, <4>1, <4>2, SaverNumbers
    <3>4. QED
      BY <1>1, <3>2, <3>3 DEF KeptInv, KeptOnDisk
  <2>2. CASE ~(last[s] /\ saved[s] >= now[s])
    <3>1. kept' = kept
      BY <2>2 DEF Period
    <3>2. QED
      BY <1>1, <3>1 DEF KeptInv, KeptOnDisk
  <2>3. QED
    BY <2>1, <2>2
<1>7. QED
  BY <1>4, <1>5, <1>6 DEF KeptInv

\* A session starts, with what it could read.
LEMMA StartStepInv ==
    ASSUME SaverTypeOK, KeptInv, NEW s \in Sessions, Start(s)
    PROVE  KeptInv'
<1>1. PICK text \in {file, NoLines} :
        /\ Entries(text)
        /\ saved' = [saved EXCEPT ![s] = text[ClientOf[s]]]
        /\ highest' = [highest EXCEPT ![s] = Higher(@, text[ClientOf[s]])]
  BY DEF Start
<1>2. /\ saverPc' = [saverPc EXCEPT ![s] = "stop"] /\ stop' = [stop EXCEPT ![s] = FALSE]
      /\ UNCHANGED <<file, tmp, last, now, lines, kept, recent, owner, sound, undone>>
  BY DEF Start, diskVars, copyVars
<1>3. text[ClientOf[s]] <= file[ClientOf[s]]
  BY SaverNumbers DEF NoLines
<1>4. \A t \in Sessions : t # s =>
         /\ saverPc'[t] = saverPc[t] /\ stop'[t] = stop[t]
         /\ saved'[t] = saved[t] /\ highest'[t] = highest[t]
  BY <1>1, <1>2 DEF SaverTypeOK
<1>5. saverPc'[s] = "stop" /\ saved'[s] = text[ClientOf[s]]
  BY <1>1, <1>2 DEF SaverTypeOK
<1>6. KeptOnDisk' /\ RecentInv' /\ SoundInv' /\ OwnInv' /\ StopInv'
  BY <1>2, <1>4, <1>5 DEF KeptInv, KeptOnDisk, RecentInv, SoundInv, OwnInv, StopInv
<1>7. SavedInv'
  <2> SUFFICES ASSUME NEW t \in Sessions
               PROVE  saved'[t] <= file'[ClientOf[t]] \/ ClientOf[t] \in undone'
    BY DEF SavedInv
  <2>1. CASE t = s
    BY <1>2, <1>3, <1>5, <2>1
  <2>2. CASE t # s
    BY <1>2, <1>4, <2>2 DEF KeptInv, SavedInv
  <2>3. QED
    BY <2>1, <2>2
<1>8. QED
  BY <1>6, <1>7 DEF KeptInv

\* The session's client places an order or asks it to stop, the thread reads.
LEMMA ThreadStepInv ==
    ASSUME SaverTypeOK, KeptInv, NEW s \in Sessions,
           Stop(s) \/ ReadStop(s) \/ ReadHighest(s) \/ (\E id \in Ids : Place(s, id))
    PROVE  KeptInv'
<1>1. UNCHANGED <<file, tmp, saved, lines, kept, recent, owner, sound, undone>>
  BY DEF Stop, ReadStop, ReadHighest, Place, diskVars, copyVars
<1>2. KeptOnDisk' /\ SoundInv' /\ SavedInv'
  BY <1>1 DEF KeptInv, KeptOnDisk, SoundInv, SavedInv
<1>3. \A t \in Sessions : t # s =>
         /\ saverPc'[t] = saverPc[t] /\ stop'[t] = stop[t] /\ last'[t] = last[t]
         /\ now'[t] = now[t] /\ highest'[t] = highest[t]
  BY DEF Stop, ReadStop, ReadHighest, Place, SaverTypeOK
<1>4. \/ saverPc'[s] = saverPc[s] /\ now'[s] = now[s]
      \/ saverPc'[s] \in {"highest", "entries", "next"}
  BY DEF Stop, ReadStop, ReadHighest, Place, SaverTypeOK
<1>5. RecentInv' /\ OwnInv'
  BY <1>1, <1>3, <1>4 DEF KeptInv, RecentInv, OwnInv
<1>6. StopInv'
  <2> SUFFICES /\ saverPc'[s] \notin {"down", "stop"} /\ last'[s] => stop'[s]
               /\ saverPc'[s] \in {"entries", "write", "rename"} /\ last'[s] => highest'[s] <= now'[s]
               /\ saverPc'[s] = "next" /\ last'[s] => highest'[s] <= now'[s] \/ highest'[s] <= saved'[s]
    BY <1>1, <1>3 DEF KeptInv, StopInv
  <2>1. CASE Stop(s)
    <3>1. stop'[s] = TRUE /\ UNCHANGED <<saverPc, last, highest, now>>
      BY <2>1 DEF Stop, SaverTypeOK
    <3>2. QED
      BY <1>1, <3>1 DEF KeptInv, StopInv
  <2>2. CASE ReadStop(s)
    <3>1. saverPc'[s] = "highest" /\ last'[s] = stop[s] /\ stop' = stop
      BY <2>2 DEF ReadStop, SaverTypeOK
    <3>2. QED
      BY <3>1
  <2>3. CASE ReadHighest(s)
    <3>1. /\ saverPc[s] = "highest" /\ saverPc'[s] \in {"entries", "next"} /\ now'[s] = highest[s]
          /\ UNCHANGED <<highest, last, stop>>
      BY <2>3 DEF ReadHighest, SaverTypeOK
    <3>2. QED
      BY <3>1, SaverNumbers DEF KeptInv, StopInv
  <2>4. CASE \E id \in Ids : Place(s, id)
    <3>1. saverPc[s] # "down" /\ ~stop[s] /\ UNCHANGED <<saverPc, stop, last>>
      BY <2>4 DEF Place
    <3>2. last[s] => saverPc[s] = "stop"
      BY <3>1 DEF KeptInv, StopInv
    <3>3. QED
      BY <3>1, <3>2
  <2>5. QED
    BY <2>1, <2>2, <2>3, <2>4
<1>7. QED
  BY <1>2, <1>5, <1>6 DEF KeptInv

\* A process crashes.
LEMMA CrashStepInv ==
    ASSUME SaverTypeOK, KeptInv, NEW p \in Processes, Crash(p)
    PROVE  KeptInv'
<1>1. UNCHANGED <<file, tmp, kept, owner, sound, undone>>
  BY DEF Crash, diskVars
<1>2. ASSUME NEW t \in Sessions, ProcessOf[t] # p
      PROVE  /\ saverPc'[t] = saverPc[t] /\ stop'[t] = stop[t] /\ last'[t] = last[t]
             /\ now'[t] = now[t] /\ highest'[t] = highest[t] /\ saved'[t] = saved[t]
             /\ lines'[t] = lines[t] /\ (t \in recent' <=> t \in recent)
  BY <1>2 DEF Crash
<1>3. ASSUME NEW t \in Sessions, ProcessOf[t] = p
      PROVE  saverPc'[t] = "down" /\ saved'[t] = 0
  BY <1>3 DEF Crash
<1>4. KeptOnDisk' /\ SoundInv'
  BY <1>1 DEF KeptInv, KeptOnDisk, SoundInv
<1>5. RecentInv' /\ OwnInv' /\ StopInv'
  BY <1>1, <1>2, <1>3 DEF KeptInv, RecentInv, OwnInv, StopInv
<1>6. SavedInv'
  BY <1>1, <1>2, <1>3, SaverNumbers DEF KeptInv, SavedInv
<1>7. QED
  BY <1>4, <1>5, <1>6 DEF KeptInv

LEMMA KeptStep ==
    ASSUME SaverTypeOK, KeptInv, [SaverNext]_saverVars
    PROVE  KeptInv'
<1>1. CASE UNCHANGED saverVars
  BY <1>1 DEF saverVars, diskVars, copyVars, KeptInv, KeptOnDisk, RecentInv, SoundInv, OwnInv, SavedInv, StopInv
<1>2. CASE SaverNext
  BY <1>2, ReadStepInv, WriteStepInv, RenameStepInv, FailsStepInv, PeriodStepInv, StartStepInv,
     ThreadStepInv, CrashStepInv DEF SaverNext, ThreadStep
<1>3. QED
  BY <1>1, <1>2

LEMMA KeptInit == SaverInit => KeptInv
BY OrderIdsAssumption DEF SaverInit, KeptInv, KeptOnDisk, RecentInv, SoundInv, OwnInv, SavedInv,
   StopInv, Ids, Lines, NoLines

\* Whatever fails or crashes in between, and with any number of savers, what a
\* client placed up to a clean end of its session is on disk ever after, until a
\* save from a copy that is not sound takes the line back.
THEOREM PlacedIsKept == SaverSpec => []KeptOnDisk
<1>1. SaverTypeOK /\ KeptInv /\ [SaverNext]_saverVars => KeptInv'
  BY KeptStep
<1>2. KeptInv => KeptOnDisk
  BY DEF KeptInv
<1>3. QED
  BY <1>1, <1>2, KeptInit, SaverTypeCorrect, PTL DEF SaverSpec

\* No step of any session, of a restarted one, or of a crash lowers any line of
\* the file but the rename of a copy that is not sound: one written from lines
\* that could not be read or that a rename has changed since, or cut short.
THEOREM FileOnlyGoesUp == SaverSpec => OnlyGoesUp
<1> DEFINE Up == \A c \in Clients : file'[c] >= file[c] \/ c \in undone'
<1>1. SaverTypeOK /\ KeptInv /\ [SaverNext]_saverVars => KeptInv'
  BY KeptStep
<1>2. SaverTypeOK /\ KeptInv /\ [SaverNext]_saverVars => [Up]_<<file, undone>>
  BY FileStep
<1>3. QED
  BY <1>1, <1>2, KeptInit, SaverTypeCorrect, PTL DEF SaverSpec, OnlyGoesUp
=============================================================================
