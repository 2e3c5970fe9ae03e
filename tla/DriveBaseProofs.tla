--------------------------- MODULE DriveBaseProofs ---------------------------
(***************************************************************************)
(* Proofs about DriveBase, for every value of its constants: its type      *)
(* invariant, the watchdog's bound, what silence of the commander leads    *)
(* to, and the stop on an orderly exit.                                    *)
(***************************************************************************)
EXTENDS DriveBase, FiniteSetTheorems, TLAPS

Motors == [Wheels -> [goal : Goals, torque : BOOLEAN]]

\* Truncated scaling never leaves the scale.
LEMMA ScalingBounded ==
    ASSUME NEW a \in Nat, NEW t \in Nat \ {0}, a <= t, NEW m \in Nat
    PROVE  (a * m) \div t \in 0..m
<1> DEFINE q == (a * m) \div t
<1>1. a * m \in Nat /\ a * m <= t * m
  BY SMTT(30)
<1>2. q \in Nat /\ t * q <= a * m
  BY <1>1, SMTT(30)
<1>3. t * q <= t * m
  BY <1>1, <1>2, SMTT(30)
<1>4. q <= m
  <2> SUFFICES ASSUME q >= m + 1 PROVE FALSE
    BY <1>2
  <2>1. t * q >= t * (m + 1)
    BY <1>2, SMTT(30)
  <2>2. t * (m + 1) = t * m + t
    BY SMTT(30)
  <2>3. QED
    BY <1>2, <1>3, <2>1, <2>2, SMTT(30)
<1>5. QED
  BY <1>2, <1>4

\* The wheel goals of a command are within what the motors are allowed.
LEMMA WheelGoalType ==
    ASSUME NEW t \in Int \X Int
    PROVE  WheelGoal(t) \in [Wheels -> Goals]
<1> DEFINE g == RawGoal(t)
           top == Top(g)
<1>1. g \in [Wheels -> Int]
  BY DEF RawGoal, Wheels
<1>2. /\ top \in Nat
      /\ \A w \in Wheels : -top <= g[w] /\ g[w] <= top
  BY <1>1 DEF Top, Abs, Wheels
<1>3. CASE top > MaxRpm
  <2>1. top \in Nat \ {0}
    BY <1>2, <1>3, DriveAssumption
  <2>2. ASSUME NEW w \in Wheels
        PROVE  Trunc(g[w] * MaxRpm, top) \in Goals
    <3>1. CASE g[w] >= 0
      <4>1. g[w] * MaxRpm \in Nat
        BY <1>1, <3>1, DriveAssumption, SMTT(30)
      <4>2. (g[w] * MaxRpm) \div top \in 0..MaxRpm
        BY <1>1, <1>2, <2>1, <3>1, ScalingBounded, DriveAssumption
      <4>3. QED
        BY <4>1, <4>2, DriveAssumption DEF Trunc, Goals
    <3>2. CASE g[w] < 0
      <4>1. -g[w] \in Nat /\ -g[w] <= top
        BY <1>1, <1>2, <3>2
      <4>2. g[w] * MaxRpm < 0 /\ -(g[w] * MaxRpm) = (-g[w]) * MaxRpm /\ g[w] * MaxRpm \in Int
        BY <1>1, <3>2, DriveAssumption, SMTT(30)
      <4>3. ((-g[w]) * MaxRpm) \div top \in 0..MaxRpm
        BY <2>1, <4>1, ScalingBounded, DriveAssumption
      <4>4. QED
        BY <4>2, <4>3, DriveAssumption DEF Trunc, Goals
    <3>3. QED
      BY <1>1, <3>1, <3>2
  <2>3. QED
    BY <1>3, <2>2 DEF WheelGoal, Scaled
<1>4. CASE ~(top > MaxRpm)
  BY <1>1, <1>2, <1>4, DriveAssumption DEF WheelGoal, Goals
<1>5. QED
  BY <1>3, <1>4

\* A position register reads as a number, whatever it holds.
LEMMA SignedType ==
    ASSUME NEW p \in Int
    PROVE  Signed(Register(p)) \in Int
<1>1. p % (2 * Half) \in Int
  BY DriveAssumption
<1>2. QED
  BY <1>1, DriveAssumption DEF Signed, Register

\* Writing goals on the bus leaves motors motors, and counts what was lost.
LEMMA SyncWriteType ==
    ASSUME motor \in Motors, faults \in 0..MaxFaults,
           NEW goal \in [Wheels -> Goals], NEW missed \in SUBSET Wheels,
           SyncWrite(goal, missed)
    PROVE  motor' \in Motors /\ faults' \in 0..MaxFaults
<1>1. faults' \in Nat /\ faults' <= MaxFaults
  BY DEF SyncWrite
<1>2. motor' \in Motors
  BY DEF SyncWrite, Motors
<1>3. QED
  BY <1>1, <1>2, DriveAssumption

\* Losing a transmission to some wheel counts, losing none does not.
LEMMA MissedCount ==
    ASSUME NEW missed \in SUBSET Wheels
    PROVE  Cardinality(missed) \in Nat /\ (missed # {} => Cardinality(missed) >= 1)
<1>1. IsFiniteSet({}) /\ {"l", "r"} = ({} \union {"l"}) \union {"r"}
  BY FS_EmptySet
<1>2. IsFiniteSet(Wheels)
  BY <1>1, FS_AddElement DEF Wheels
<1>3. IsFiniteSet(missed)
  BY <1>2, FS_Subset
<1>4. Cardinality(missed) \in Nat
  BY <1>3, FS_CardinalityType
<1>5. missed # {} => Cardinality(missed) # 0
  BY <1>3, FS_EmptySet
<1>6. QED
  BY <1>4, <1>5

LEMMA StopType == Stop \in [Wheels -> Goals] /\ Stop \in PerWheel
BY DriveAssumption DEF Stop, Goals, PerWheel

\* The queue stays a queue of commands, within its depth.
LEMMA OfferType ==
    ASSUME queue \in Seq(Twists), Len(queue) <= QueueDepth, NEW t \in Twists
    PROVE  Offer(t) \in Seq(Twists) /\ Len(Offer(t)) <= QueueDepth
<1>1. CASE Len(queue) < QueueDepth
  BY <1>1, DriveAssumption DEF Offer
<1>2. CASE ~(Len(queue) < QueueDepth)
  <2>1. Len(queue) = QueueDepth /\ queue # <<>>
    BY <1>2, DriveAssumption
  <2>2. Tail(queue) \in Seq(Twists) /\ Len(Tail(queue)) = Len(queue) - 1
    BY <2>1
  <2>3. QED
    BY <1>2, <2>1, <2>2, DriveAssumption DEF Offer
<1>3. QED
  BY <1>1, <1>2

-----------------------------------------------------------------------------
\* Every variable keeps its type.
THEOREM TypeCorrect == Spec => []TypeOK
<1> USE DriveAssumption
<1>1. Init => TypeOK
  <2> SUFFICES ASSUME Init PROVE TypeOK
    OBVIOUS
  <2>1. motor \in Motors
    BY DEF Init, Motors, Goals
  <2>2. NoReport(Stop) \in [moved : PerWheel, dt : Nat \ {0}, read : PerWheel]
    BY StopType DEF NoReport
  <2>3. /\ pos \in PerWheel /\ lastEnc \in PerWheel /\ odom \in PerWheel /\ base \in PerWheel
        /\ cmd \in [twist : Int \X Int, goal : [Wheels -> Goals]]
    BY StopType DEF Init
  <2>4. queue \in Seq(Twists) /\ Len(queue) <= QueueDepth
    BY DEF Init
  <2>5. /\ time \in Times /\ setback \in 0..MaxSetback /\ setback <= time
        /\ faults \in 0..MaxFaults /\ sentAt \in Times /\ launches \in Nat
        /\ lastCmd \in Times /\ lastCmdAt \in Times /\ lastTime \in Times /\ nextCall \in Nat
    BY DEF Init, Times
  <2>6. navUp \in BOOLEAN /\ handled \in BOOLEAN
    BY DEF Init
  <2>7. report \in [moved : PerWheel, dt : Nat \ {0}, read : PerWheel]
    BY <2>2 DEF Init
  <2>8. QED
    BY <2>1, <2>3, <2>4, <2>5, <2>6, <2>7 DEF Init, TypeOK, Motors
<1>2. TypeOK /\ [Next]_vars => TypeOK'
  <2> SUFFICES ASSUME TypeOK, [Next]_vars
               PROVE  TypeOK'
    OBVIOUS
  <2> USE DEF TypeOK, Times, worldVars, commanderVars, cmdVars, odomVars
  <2>a. motor \in Motors /\ faults \in 0..MaxFaults
    BY DEF Motors
  <2>b. NodeClock \in 0..MaxTime
    BY DEF NodeClock
  <2>1. CASE Tick
    <3>1. pos' \in PerWheel
      BY <2>1 DEF Tick, PerWheel, Goals
    <3>2. time' \in Times /\ setback' <= time'
      BY <2>1 DEF Tick
    <3>3. QED
      BY <2>1, <3>1, <3>2 DEF Tick
  <2>2. CASE SetClock
    BY <2>2 DEF SetClock
  <2>3. CASE Command
    <3>1. queue' \in Seq(Twists) /\ Len(queue') <= QueueDepth
      BY <2>3, OfferType DEF Command
    <3>2. QED
      BY <2>3, <3>1 DEF Command
  <2>4. CASE CommanderDies
    BY <2>4 DEF CommanderDies
  <2>5. CASE TwistCallback
    <3>1. Head(queue) \in Int \X Int
      BY <2>5 DEF TwistCallback
    <3>2. cmd' \in [twist : Int \X Int, goal : [Wheels -> Goals]]
      BY <2>5, <3>1, WheelGoalType DEF TwistCallback
    <3>3. motor' \in Motors /\ faults' \in 0..MaxFaults
      <4>1. PICK missed \in SUBSET Wheels : SyncWrite(cmd'.goal, missed)
        BY <2>5 DEF TwistCallback
      <4>2. QED
        BY <2>a, <3>2, <4>1, SyncWriteType
    <3>4. queue' \in Seq(Twists) /\ Len(queue') <= QueueDepth
      BY <2>5 DEF TwistCallback
    <3>5. QED
      BY <2>5, <2>b, <3>2, <3>3, <3>4 DEF TwistCallback, Motors
  <2>6. CASE UpdateAndPublish
    <3>1. motor' \in Motors /\ faults' \in 0..MaxFaults
      <4>1. CASE UNCHANGED <<motor, faults>>
        BY <2>a, <4>1
      <4>2. CASE \E missed \in SUBSET Wheels : SyncWrite(Stop, missed)
        BY <2>a, <4>2, StopType, SyncWriteType
      <4>3. QED
        BY <2>6, <4>1, <4>2 DEF UpdateAndPublish
    <3>2. /\ lastTime' \in Times
          /\ lastEnc' \in PerWheel /\ odom' \in PerWheel /\ base' \in PerWheel
          /\ report' \in [moved : PerWheel, dt : Nat \ {0}, read : PerWheel]
      <4>1. CASE SkipOdometry
        BY <4>1 DEF SkipOdometry
      <4>2. CASE PublishOdometry
        <5> DEFINE enc == [w \in Wheels |-> Signed(Register(pos[w]))]
                   moved == [w \in Wheels |-> Forward(w, enc[w] - lastEnc[w])]
        <5>1. enc \in PerWheel
          BY SignedType DEF PerWheel
        <5>2. moved \in PerWheel
          BY <5>1 DEF PerWheel, Forward
        <5>3. [w \in Wheels |-> odom[w] + moved[w]] \in PerWheel
          BY <5>2 DEF PerWheel
        <5>4. NodeClock - lastTime \in Nat \ {0}
          BY <2>b, <4>2 DEF PublishOdometry
        <5>5. /\ lastEnc' = enc
              /\ odom' = [w \in Wheels |-> odom[w] + moved[w]]
              /\ report' = [moved |-> moved, dt |-> NodeClock - lastTime, read |-> pos]
              /\ lastTime' = NodeClock /\ base' = base
          BY <4>2 DEF PublishOdometry
        <5> HIDE DEF enc, moved
        <5>6. QED
          BY <2>b, <5>1, <5>2, <5>3, <5>4, <5>5
      <4>3. QED
        BY <2>6, <4>1, <4>2 DEF UpdateAndPublish
    <3>3. QED
      BY <2>6, <2>b, <3>1, <3>2 DEF UpdateAndPublish, Motors
  <2>7. CASE Begin
    BY <2>7 DEF Begin
  <2>8. CASE \E w \in Wheels : InitMotor(w)
    <3>1. PICK w \in Wheels : InitMotor(w)
      BY <2>8
    <3>2. /\ faults' \in 0..MaxFaults
          /\ motor' \in Motors
          /\ proc' \in {"failZero", "motor_r", "zero"}
      BY <2>a, <3>1 DEF InitMotor, Motors, Goals
    <3>3. QED
      BY <3>1, <3>2 DEF InitMotor, Motors
  <2>9. CASE InitialZero
    <3>1. motor' \in Motors /\ faults' \in 0..MaxFaults
      <4>1. \E missed \in SUBSET Wheels : SyncWrite(Stop, missed)
        BY <2>9 DEF InitialZero
      <4>2. QED
        BY <2>a, <4>1, StopType, SyncWriteType
    <3>2. QED
      BY <2>9, <3>1 DEF InitialZero, Motors
  <2>10. CASE InitialEncoders
    <3>1. [w \in Wheels |-> Signed(Register(pos[w]))] \in PerWheel
      BY SignedType DEF PerWheel
    <3>2. NoReport(pos) \in [moved : PerWheel, dt : Nat \ {0}, read : PerWheel]
      BY StopType DEF NoReport
    <3>3. CASE proc' = "failZero" /\ UNCHANGED <<cmdVars, sentAt, nextCall, odomVars>>
      BY <2>10, <3>3 DEF InitialEncoders
    <3>4. CASE proc' = "up" /\ lastEnc' = [w \in Wheels |-> Signed(Register(pos[w]))]
      <4>1. lastEnc' \in PerWheel /\ base' \in PerWheel /\ odom' \in PerWheel
        BY <2>10, <3>1, <3>4, StopType DEF InitialEncoders
      <4>2. report' \in [moved : PerWheel, dt : Nat \ {0}, read : PerWheel]
        BY <2>10, <3>2, <3>4 DEF InitialEncoders
      <4>3. /\ lastTime' \in Times /\ lastCmd' \in Times /\ lastCmdAt' \in Times
            /\ sentAt' \in Times /\ nextCall' \in Nat
        BY <2>10, <2>b, <3>4 DEF InitialEncoders
      <4>4. /\ UNCHANGED <<worldVars, navUp, queue, launches, handled, cmd>>
        BY <2>10, <3>4 DEF InitialEncoders
      <4>5. QED
        BY <3>4, <4>1, <4>2, <4>3, <4>4
    <3>5. QED
      BY <2>10, <3>3, <3>4 DEF InitialEncoders
  <2>11. CASE TerminateZero
    <3>1. motor' \in Motors /\ faults' \in 0..MaxFaults
      BY <2>a, <2>11, StopType, SyncWriteType DEF TerminateZero
    <3>2. QED
      BY <2>11, <3>1 DEF TerminateZero, Motors
  <2>12. CASE TerminateOff
    <3>1. PICK missed \in SUBSET Wheels :
             faults' = faults + Cardinality(missed) /\ motor' = TorqueOff(missed)
      BY <2>12 DEF TerminateOff
    <3>2. faults' \in 0..MaxFaults
      <4>1. Cardinality(missed) \in Nat
        BY MissedCount
      <4>2. QED
        BY <2>12, <3>1, <4>1 DEF TerminateOff
    <3>3. motor' \in Motors
      BY <2>a, <3>1 DEF TorqueOff, Motors
    <3>4. QED
      BY <2>12, <3>2, <3>3 DEF TerminateOff, Motors
  <2>13. CASE Interrupt
    BY <2>13 DEF Interrupt
  <2>14. CASE Kill
    BY <2>14 DEF Kill
  <2>15. CASE Launch
    BY <2>15 DEF Launch
  <2>16. CASE UNCHANGED vars
    BY <2>16 DEF vars
  <2>17. QED
    BY <2>1, <2>2, <2>3, <2>4, <2>5, <2>6, <2>7, <2>8, <2>9, <2>10, <2>11, <2>12, <2>13,
       <2>14, <2>15, <2>16 DEF Next, Environment, Running, StartUp, ShutDown
<1>3. QED
  BY <1>1, <1>2, PTL DEF Spec

-----------------------------------------------------------------------------
(***************************************************************************)
(* The watchdog's bound.  It is not inductive by itself: what bounds the   *)
(* time since the last command is when the timer is next called.           *)
(***************************************************************************)
\* What each lost transmission may cost: a tick, and a clock set back.
Lost(f) == f * (MaxSetback + 1)

LEMMA LostSteps ==
    ASSUME NEW f \in Nat
    PROVE  Lost(f) \in Nat /\ Lost(f + 1) \in Nat /\ Lost(f + 1) = Lost(f) + MaxSetback + 1
<1>1. MaxSetback + 1 \in Nat
  BY DriveAssumption
<1>2. \A m \in Nat : f * m \in Nat /\ (f + 1) * m = f * m + m
  BY SMTT(30)
<1>3. QED
  BY <1>1, <1>2, DriveAssumption DEF Lost

\* A wheel can only turn until the next call of the timer after the window, and
\* that call is not far away.
WatchdogInvariant ==
    proc = "up" =>
        /\ time <= nextCall + MaxSetback /\ nextCall <= time + 1
        /\ lastCmd <= lastCmdAt /\ lastCmdAt <= time
        /\ \A w \in Wheels : Moving(w) => nextCall <= lastCmdAt + Timeout + 1 + Lost(faults)

THEOREM WatchdogInductive == Spec => []WatchdogInvariant
<1> USE DriveAssumption
<1>1. Init => WatchdogInvariant
  BY DEF Init, WatchdogInvariant
<1>2. TypeOK /\ WatchdogInvariant /\ [Next]_vars => WatchdogInvariant'
  <2> SUFFICES ASSUME TypeOK, WatchdogInvariant, [Next]_vars, proc' = "up"
               PROVE  /\ time' <= nextCall' + MaxSetback /\ nextCall' <= time' + 1
                      /\ lastCmd' <= lastCmdAt' /\ lastCmdAt' <= time'
                      /\ \A w \in Wheels : Moving(w)' =>
                             nextCall' <= lastCmdAt' + Timeout + 1 + Lost(faults')
    BY DEF WatchdogInvariant, Moving
  <2> USE DEF WatchdogInvariant, Moving, worldVars, commanderVars, cmdVars, odomVars
  <2>a. /\ time \in Nat /\ nextCall \in Nat /\ lastCmd \in Nat /\ lastCmdAt \in Nat
        /\ setback \in 0..MaxSetback /\ setback <= time
        /\ faults \in Nat /\ Lost(faults) \in Nat
    <3>1. faults \in Nat
      BY DEF TypeOK
    <3>2. Lost(faults) \in Nat
      BY <3>1, LostSteps
    <3>3. QED
      BY <3>1, <3>2 DEF TypeOK, Times
  <2>b. ASSUME NEW goal, NEW missed \in SUBSET Wheels, SyncWrite(goal, missed)
        PROVE  /\ Lost(faults') \in Nat /\ Lost(faults') >= Lost(faults)
               /\ missed # {} => Lost(faults') = Lost(faults) + MaxSetback + 1
    <3>1. CASE missed = {}
      <4>1. faults' = faults
        BY <2>a, <2>b, <3>1 DEF SyncWrite
      <4>2. QED
        BY <2>a, <3>1, <4>1
    <3>2. CASE missed # {}
      <4>1. faults' = faults + 1
        BY <2>a, <2>b, <3>2 DEF SyncWrite
      <4>2. QED
        BY <2>a, <4>1, LostSteps
    <3>3. QED
      BY <3>1, <3>2
  <2>1. CASE Tick
    BY <2>1, <2>a DEF Tick, NodeClock
  <2>2. CASE SetClock
    BY <2>2, <2>a DEF SetClock
  <2>3. CASE Command \/ CommanderDies
    BY <2>3, <2>a DEF Command, CommanderDies
  <2>4. CASE TwistCallback
    <3>1. Lost(faults') \in Nat
      BY <2>4, <2>b DEF TwistCallback
    <3>2. /\ proc = "up" /\ lastCmd' = time - setback /\ lastCmdAt' = time
          /\ time' = time /\ nextCall' = nextCall
      BY <2>4 DEF TwistCallback, NodeClock
    <3>3. QED
      BY <2>a, <3>1, <3>2
  <2>5. CASE UpdateAndPublish
    <3>1. /\ proc = "up" /\ nextCall' = time - setback + 1
          /\ time' = time /\ lastCmd' = lastCmd /\ lastCmdAt' = lastCmdAt
      BY <2>5 DEF UpdateAndPublish, NodeClock
    <3>2. CASE ~Overdue /\ UNCHANGED <<motor, faults>>
      BY <2>a, <3>1, <3>2 DEF Overdue, NodeClock
    <3>3. ASSUME NEW missed \in SUBSET Wheels, SyncWrite(Stop, missed)
          PROVE  \A w \in Wheels : Moving(w)' =>
                     nextCall' <= lastCmdAt' + Timeout + 1 + Lost(faults')
      <4> SUFFICES ASSUME NEW w \in Wheels, Moving(w)'
                   PROVE  nextCall' <= lastCmdAt' + Timeout + 1 + Lost(faults')
        OBVIOUS
      <4>1. w \in missed /\ Moving(w)
        BY <3>3, DriveAssumption DEF SyncWrite, Stop, TypeOK
      <4>2. Lost(faults') = Lost(faults) + MaxSetback + 1
        BY <2>b, <3>3, <4>1
      <4>3. time <= lastCmdAt + Timeout + 1 + Lost(faults) + MaxSetback
        BY <2>a, <3>1, <4>1
      <4>4. QED
        BY <2>a, <3>1, <4>2, <4>3
    <3>4. QED
      BY <2>5, <2>a, <3>1, <3>2, <3>3 DEF UpdateAndPublish
  <2>6. CASE InitialEncoders
    <3>1. /\ nextCall' = time - setback + 1 /\ lastCmd' = time - setback
          /\ lastCmdAt' = time /\ time' = time /\ faults' = faults
      BY <2>6 DEF InitialEncoders, NodeClock
    <3>2. QED
      BY <2>a, <3>1
  <2>7. CASE Begin \/ (\E w \in Wheels : InitMotor(w)) \/ InitialZero
    BY <2>7 DEF Begin, InitMotor, InitialZero
  <2>8. CASE ShutDown \/ Interrupt \/ Kill \/ Launch
    BY <2>8 DEF ShutDown, TerminateZero, TerminateOff, Interrupt, Kill, Launch
  <2>9. CASE UNCHANGED vars
    BY <2>9, <2>a DEF vars
  <2>10. QED
    BY <2>1, <2>2, <2>3, <2>4, <2>5, <2>6, <2>7, <2>8, <2>9
       DEF Next, Environment, Running, StartUp
<1>3. QED
  BY <1>1, <1>2, TypeCorrect, PTL DEF Spec

\* The watchdog: turning wheels were commanded within StopDelay.
THEOREM WatchdogStops == Spec => []StopsInTime
<1>1. TypeOK /\ WatchdogInvariant => StopsInTime
  <2> SUFFICES ASSUME TypeOK, WatchdogInvariant, proc = "up",
                      NEW w \in Wheels, Moving(w)
               PROVE  time - lastCmdAt <= StopDelay
    BY DEF StopsInTime
  <2>1. /\ time \in Nat /\ nextCall \in Nat /\ lastCmdAt \in Nat /\ faults \in Nat
    BY DriveAssumption DEF TypeOK, Times
  <2>2. /\ (faults + 1) * (MaxSetback + 1) = Lost(faults) + MaxSetback + 1
        /\ Lost(faults) \in Nat
    BY <2>1, LostSteps DEF Lost
  <2>3. time <= nextCall + MaxSetback /\ nextCall <= lastCmdAt + Timeout + 1 + Lost(faults)
    BY DEF WatchdogInvariant
  <2>4. QED
    BY <2>1, <2>2, <2>3, DriveAssumption DEF StopDelay
<1>2. QED
  BY <1>1, TypeCorrect, WatchdogInductive, PTL

-----------------------------------------------------------------------------
(***************************************************************************)
(* Silence.  What a commander leaves in the queue is handled one command a *)
(* tick at least, so that the last one is handled QueueDepth ticks after   *)
(* it fell silent.                                                         *)
(***************************************************************************)
SilenceInvariant ==
    /\ proc # "up" => queue = <<>>
    /\ proc = "up" =>
          /\ lastCmdAt <= sentAt + QueueDepth
          /\ queue # <<>> =>
                time + Len(queue) <= sentAt + QueueDepth + (IF handled THEN 0 ELSE 1)

THEOREM SilenceInductive == Spec => []SilenceInvariant
<1> USE DriveAssumption
<1>1. Init => SilenceInvariant
  BY DEF Init, SilenceInvariant
<1>2. TypeOK /\ WatchdogInvariant /\ SilenceInvariant /\ [Next]_vars => SilenceInvariant'
  <2> SUFFICES ASSUME TypeOK, WatchdogInvariant, SilenceInvariant, [Next]_vars
               PROVE  SilenceInvariant'
    OBVIOUS
  <2> USE DEF SilenceInvariant, worldVars, commanderVars, cmdVars, odomVars
  <2>a. /\ time \in Nat /\ sentAt \in Nat /\ lastCmdAt \in Nat /\ handled \in BOOLEAN
        /\ queue \in Seq(Twists) /\ Len(queue) \in Nat /\ Len(queue) <= QueueDepth
    BY DEF TypeOK, Times
  <2>1. CASE Tick
    <3>1. /\ time' = time + 1 /\ proc' = proc /\ queue' = queue /\ ~handled'
          /\ sentAt' = sentAt /\ lastCmdAt' = lastCmdAt
          /\ proc = "up" => queue = <<>> \/ handled
      BY <2>1 DEF Tick
    <3>2. QED
      BY <2>a, <3>1
  <2>2. CASE SetClock
    BY <2>2, <2>a DEF SetClock
  <2>3. CASE Command
    <3>1. Len(queue') \in Nat /\ Len(queue') <= QueueDepth
      BY <2>3, <2>a, OfferType DEF Command
    <3>2. /\ sentAt' = time /\ time' = time /\ proc = "up" /\ proc' = "up"
          /\ lastCmdAt' = lastCmdAt /\ handled' = handled
      BY <2>3 DEF Command
    <3>3. lastCmdAt <= time
      BY <3>2 DEF WatchdogInvariant
    <3>4. QED
      BY <2>a, <3>1, <3>2, <3>3
  <2>4. CASE CommanderDies
    BY <2>4, <2>a DEF CommanderDies
  <2>5. CASE TwistCallback
    <3>1. /\ proc = "up" /\ proc' = "up" /\ queue # <<>> /\ queue' = Tail(queue) /\ handled'
          /\ time' = time /\ sentAt' = sentAt /\ lastCmdAt' = time
      BY <2>5 DEF TwistCallback
    <3>2. Len(queue') = Len(queue) - 1 /\ Len(queue) >= 1
      BY <2>a, <3>1
    <3>3. time + Len(queue) <= sentAt + QueueDepth + 1
      BY <2>a, <3>1
    <3>4. QED
      BY <2>a, <3>1, <3>2, <3>3
  <2>6. CASE UpdateAndPublish
    BY <2>6, <2>a DEF UpdateAndPublish
  <2>7. CASE InitialEncoders
    <3>1. /\ queue = <<>> /\ queue' = <<>> /\ time' = time
          /\ proc' = "up" => lastCmdAt' = time /\ sentAt' = time
      BY <2>7 DEF InitialEncoders
    <3>2. QED
      BY <2>a, <3>1
  <2>8. CASE Begin \/ (\E w \in Wheels : InitMotor(w)) \/ InitialZero
    BY <2>8 DEF Begin, InitMotor, InitialZero
  <2>9. CASE ShutDown \/ Interrupt \/ Kill \/ Launch
    BY <2>9 DEF ShutDown, TerminateZero, TerminateOff, Interrupt, Kill, Launch
  <2>10. CASE UNCHANGED vars
    BY <2>10, <2>a DEF vars
  <2>11. QED
    BY <2>1, <2>2, <2>3, <2>4, <2>5, <2>6, <2>7, <2>8, <2>9, <2>10
       DEF Next, Environment, Running, StartUp
<1>3. QED
  BY <1>1, <1>2, TypeCorrect, WatchdogInductive, PTL DEF Spec

\* A commander that falls silent, or dies, leaves a robot that stops.
THEOREM SilentCommanderStops == Spec => []SilenceStops
<1>1. TypeOK /\ SilenceInvariant /\ StopsInTime => SilenceStops
  <2> SUFFICES ASSUME TypeOK, SilenceInvariant, StopsInTime, proc = "up",
                      \E w \in Wheels : Moving(w)
               PROVE  time - sentAt <= QueueDepth + StopDelay
    BY DEF SilenceStops
  <2>1. time \in Int /\ sentAt \in Int /\ lastCmdAt \in Int /\ faults \in Int
    BY DriveAssumption DEF TypeOK, Times
  <2>2. StopDelay \in Int
    <3>1. \A f \in Int, m \in Int : f * m \in Int
      BY SMTT(30)
    <3>2. QED
      BY <2>1, <3>1, DriveAssumption DEF StopDelay
  <2>3. time - lastCmdAt <= StopDelay /\ lastCmdAt <= sentAt + QueueDepth
    BY DEF StopsInTime, SilenceInvariant
  <2>4. QED
    BY <2>1, <2>2, <2>3, DriveAssumption
<1>2. QED
  BY <1>1, TypeCorrect, SilenceInductive, WatchdogStops, PTL

-----------------------------------------------------------------------------
(***************************************************************************)
(* The orderly exit.                                                       *)
(***************************************************************************)
ExitInvariant ==
    /\ proc = "exitOff" /\ (\E w \in Wheels : Moving(w)) => faults >= 1
    /\ OrderlyExitStops

\* A wheel still turning after terminate() missed both of its transmissions.
THEOREM OrderlyExit == Spec => []OrderlyExitStops
<1> USE DriveAssumption
<1>1. Init => ExitInvariant
  BY DEF Init, ExitInvariant, OrderlyExitStops
<1>2. TypeOK /\ ExitInvariant /\ [Next]_vars => ExitInvariant'
  <2> SUFFICES ASSUME TypeOK, ExitInvariant, [Next]_vars,
                      NEW w \in Wheels, Moving(w)'
               PROVE  /\ proc' = "exitOff" => faults' >= 1
                      /\ proc' = "exited" => faults' >= 2
    BY DEF ExitInvariant, OrderlyExitStops, Moving
  <2> USE DEF ExitInvariant, OrderlyExitStops, Moving,
              worldVars, commanderVars, cmdVars, odomVars
  <2>a. faults \in Nat
    BY DEF TypeOK
  <2>1. CASE Environment
    BY <2>1 DEF Environment, Tick, SetClock, Command, CommanderDies
  <2>2. CASE Running
    BY <2>2 DEF Running, TwistCallback, UpdateAndPublish
  <2>3. CASE StartUp
    BY <2>3 DEF StartUp, Begin, InitMotor, InitialZero, InitialEncoders
  <2>4. CASE TerminateZero
    <3>1. PICK missed \in SUBSET Wheels : SyncWrite(Stop, missed)
      BY <2>4 DEF TerminateZero
    <3>2. w \in missed
      BY <3>1 DEF SyncWrite, Stop, TypeOK
    <3>3. faults' >= 1
      BY <2>a, <3>1, <3>2 DEF SyncWrite
    <3>4. QED
      BY <2>4, <3>3 DEF TerminateZero
  <2>5. CASE TerminateOff
    <3>1. PICK missed \in SUBSET Wheels :
             faults' = faults + Cardinality(missed) /\ motor' = TorqueOff(missed)
      BY <2>5 DEF TerminateOff
    <3>2. w \in missed /\ Moving(w)
      BY <3>1 DEF TorqueOff, TypeOK
    <3>3. Cardinality(missed) \in Nat /\ Cardinality(missed) >= 1
      BY <3>2, MissedCount
    <3>4. proc = "exitOff" => faults >= 1
      BY <3>2
    <3>5. QED
      BY <2>5, <2>a, <3>1, <3>3, <3>4 DEF TerminateOff
  <2>6. CASE Interrupt \/ Kill \/ Launch
    BY <2>6 DEF Interrupt, Kill, Launch
  <2>7. CASE UNCHANGED vars
    BY <2>7 DEF vars
  <2>8. QED
    BY <2>1, <2>2, <2>3, <2>4, <2>5, <2>6, <2>7 DEF Next, ShutDown
<1>3. QED
  BY <1>1, <1>2, TypeCorrect, PTL DEF Spec, ExitInvariant

-----------------------------------------------------------------------------
(***************************************************************************)
(* The curve of a command.  With t the scale's divisor, each goal times t  *)
(* is off from the exact multiple by less than t; in the cross product of  *)
(* goals and wheels the exact parts cancel, and t does.                    *)
(***************************************************************************)
\* An error of at most t is multiplied to at most t times the factor.
LEMMA ProductBounded ==
    ASSUME NEW t \in Nat, NEW e \in Int, -t <= e, e <= t, NEW l \in Int
    PROVE  e * l <= t * Abs(l) /\ -(t * Abs(l)) <= e * l
<1>1. CASE l >= 0
  <2>1. Abs(l) = l
    BY <1>1 DEF Abs
  <2>2. e * l <= t * l /\ (-t) * l <= e * l /\ (-t) * l = -(t * l)
    BY <1>1, SMTT(30)
  <2>3. QED
    BY <2>1, <2>2
<1>2. CASE l < 0
  <2>1. Abs(l) = -l
    BY <1>2 DEF Abs
  <2>2. e * l <= t * (-l) /\ -(t * (-l)) <= e * l
    BY <1>2, SMTT(30)
  <2>3. QED
    BY <2>1, <2>2
<1>3. QED
  BY <1>1, <1>2

\* A positive factor cancels.
LEMMA Cancel ==
    ASSUME NEW t \in Nat \ {0}, NEW x \in Int, NEW y \in Int, t * x <= t * y
    PROVE  x <= y
<1> SUFFICES ASSUME x >= y + 1 PROVE FALSE
  OBVIOUS
<1>1. t * x >= t * (y + 1)
  BY SMTT(30)
<1>2. t * (y + 1) = t * y + t
  BY SMTT(30)
<1>3. t * y \in Int /\ t * x \in Int
  BY SMTT(30)
<1>4. QED
  BY <1>1, <1>2, <1>3

\* Goals off by less than a unit each keep the ratio of the wheels to a unit each.
LEMMA Cross ==
    ASSUME NEW t \in Nat \ {0}, NEW m \in Nat, NEW l \in Int, NEW r \in Int,
           NEW gl \in Int, NEW gr \in Int,
           NEW el \in Int, NEW er \in Int,
           l * m = t * gl + el, r * m = t * gr + er,
           -t <= el, el <= t, -t <= er, er <= t
    PROVE  Abs(gl * r - gr * l) <= Abs(l) + Abs(r)
<1> DEFINE x == gl * r - gr * l
           s == Abs(l) + Abs(r)
<1>0. x \in Int /\ s \in Nat /\ Abs(l) \in Nat /\ Abs(r) \in Nat
  BY DEF Abs
<1>1. t * x = er * l - el * r
  <2>1. (t * gl) * r = (l * m) * r - el * r
    BY SMTT(30)
  <2>2. (t * gr) * l = (r * m) * l - er * l
    BY SMTT(30)
  <2>3. (l * m) * r = (r * m) * l
    BY SMTT(30)
  <2>4. t * x = (t * gl) * r - (t * gr) * l
    BY SMTT(30)
  <2>5. QED
    BY <2>1, <2>2, <2>3, <2>4, SMTT(30)
<1>2. /\ er * l <= t * Abs(l) /\ -(t * Abs(l)) <= er * l
      /\ el * r <= t * Abs(r) /\ -(t * Abs(r)) <= el * r
  BY ProductBounded
<1>3. t * s = t * Abs(l) + t * Abs(r) /\ t * (-s) = -(t * s) /\ t * Abs(l) \in Int /\ t * Abs(r) \in Int
  BY <1>0, SMTT(30)
<1>4. t * x <= t * s /\ t * (-s) <= t * x
  BY <1>1, <1>2, <1>3, SMTT(30)
<1>5. x <= s /\ -s <= x
  <2> HIDE DEF x, s
  <2>1. -s \in Int
    BY <1>0
  <2>2. QED
    BY <1>0, <1>4, <2>1, Cancel
<1>6. QED
  BY <1>0, <1>5 DEF Abs

\* Truncation is off by less than a unit and keeps the sign.
LEMMA Truncated ==
    ASSUME NEW a \in Int, NEW t \in Nat \ {0}
    PROVE  LET q == Trunc(a, t)
               e == a - t * q
           IN  /\ q \in Int /\ e \in Int /\ a = t * q + e /\ -t <= e /\ e <= t
               /\ (a >= 0 => q >= 0) /\ (a <= 0 => q <= 0)
<1>1. ASSUME NEW n \in Nat
      PROVE  /\ n \div t \in Nat
             /\ t * (n \div t) <= n /\ n < t * (n \div t) + t
  BY SMTT(30)
<1>2. CASE a >= 0
  <2>1. Trunc(a, t) = a \div t /\ a \in Nat
    BY <1>2 DEF Trunc
  <2>2. QED
    BY <1>1, <1>2, <2>1, SMTT(30)
<1>3. CASE a < 0
  <2> DEFINE p == (-a) \div t
  <2>1. Trunc(a, t) = -p /\ -a \in Nat
    BY <1>3 DEF Trunc
  <2>2. p \in Nat /\ t * p <= -a /\ -a < t * p + t
    BY <1>1, <2>1
  <2>3. t * (-p) = -(t * p) /\ t * p \in Nat
    BY <2>2, SMTT(30)
  <2> HIDE DEF p
  <2>4. QED
    BY <1>3, <2>1, <2>2, <2>3
<1>4. QED
  BY <1>2, <1>3

\* The goals of a command keep its curve.
LEMMA GoalKeepsCurve ==
    ASSUME NEW t \in Int \X Int
    PROVE  LET l == t[1] - t[2]
               r == -(t[1] + t[2])
               g == WheelGoal(t)
           IN  /\ Abs(g["l"] * r - g["r"] * l) <= Abs(l) + Abs(r)
               /\ g["l"] * l >= 0 /\ g["r"] * r >= 0
<1> DEFINE l == t[1] - t[2]
           r == -(t[1] + t[2])
           top == Top(RawGoal(t))
           gl == WheelGoal(t)["l"]
           gr == WheelGoal(t)["r"]
<1>1. l \in Int /\ r \in Int
  OBVIOUS
<1>2. RawGoal(t)["l"] = l /\ RawGoal(t)["r"] = r
  BY DEF RawGoal, Wheels
<1>3. top \in Nat
  BY <1>1, <1>2 DEF Top, Abs
<1> SUFFICES /\ Abs(gl * r - gr * l) <= Abs(l) + Abs(r)
             /\ gl * l >= 0 /\ gr * r >= 0
  OBVIOUS
<1>4. CASE top > MaxRpm
  <2>1. top \in Nat \ {0} /\ MaxRpm \in Nat
    BY <1>3, <1>4, DriveAssumption
  <2>2. gl = Trunc(l * MaxRpm, top) /\ gr = Trunc(r * MaxRpm, top)
    BY <1>2, <1>4 DEF WheelGoal, Scaled, Wheels
  <2>3. l * MaxRpm \in Int /\ r * MaxRpm \in Int
    BY <1>1, <2>1, SMTT(30)
  <2> DEFINE el == l * MaxRpm - top * gl
             er == r * MaxRpm - top * gr
  <2>4. /\ gl \in Int /\ el \in Int /\ l * MaxRpm = top * gl + el /\ -top <= el /\ el <= top
        /\ (l * MaxRpm >= 0 => gl >= 0) /\ (l * MaxRpm <= 0 => gl <= 0)
    BY <2>1, <2>2, <2>3, Truncated
  <2>5. /\ gr \in Int /\ er \in Int /\ r * MaxRpm = top * gr + er /\ -top <= er /\ er <= top
        /\ (r * MaxRpm >= 0 => gr >= 0) /\ (r * MaxRpm <= 0 => gr <= 0)
    BY <2>1, <2>2, <2>3, Truncated
  <2> HIDE DEF l, r, top, gl, gr, el, er
  <2>6. Abs(gl * r - gr * l) <= Abs(l) + Abs(r)
    BY <1>1, <2>1, <2>4, <2>5, Cross
  <2>7. ASSUME NEW x \in Int, NEW g \in Int, NEW m \in Nat,
               x * m >= 0 => g >= 0, x * m <= 0 => g <= 0
        PROVE  g * x >= 0
    <3>1. CASE x >= 0
      <4>1. x * m >= 0
        BY <3>1, SMTT(30)
      <4>2. QED
        BY <2>7, <3>1, <4>1, SMTT(30)
    <3>2. CASE x < 0
      <4>1. x * m <= 0
        BY <3>2, SMTT(30)
      <4>2. QED
        BY <2>7, <3>2, <4>1, SMTT(30)
    <3>3. QED
      BY <3>1, <3>2
  <2>8. QED
    BY <1>1, <2>1, <2>4, <2>5, <2>6, <2>7
<1>5. CASE ~(top > MaxRpm)
  <2>1. gl = l /\ gr = r
    BY <1>2, <1>5 DEF WheelGoal
  <2>2. l * r - r * l = 0 /\ l * l >= 0 /\ r * r >= 0
    BY <1>1, SMTT(30)
  <2>3. QED
    BY <1>1, <2>1, <2>2 DEF Abs
<1>6. QED
  BY <1>4, <1>5

\* Every command handled kept its curve, for every MaxRpm and every command.
THEOREM CurvePreserved == Spec => []CurveKept
<1> USE DriveAssumption
<1>1. Init => CurveKept
  BY DEF Init, CurveKept, Abs, Stop, Wheels
<1>2. TypeOK /\ CurveKept /\ [Next]_vars => CurveKept'
  <2> SUFFICES ASSUME TypeOK, CurveKept, [Next]_vars
               PROVE  CurveKept'
    OBVIOUS
  <2>1. CASE TwistCallback
    <3> DEFINE t == Head(queue)
    <3>1. t \in Int \X Int
      BY <2>1 DEF TwistCallback, TypeOK
    <3>2. cmd'.twist = t /\ cmd'.goal = WheelGoal(t)
      BY <2>1 DEF TwistCallback
    <3> HIDE DEF t
    <3>3. QED
      BY <3>1, <3>2, GoalKeepsCurve DEF CurveKept
  <2>2. CASE cmd' = cmd
    BY <2>2 DEF CurveKept
  <2>3. TwistCallback \/ cmd' = cmd
    BY DEF Next, Environment, Tick, SetClock, Command, CommanderDies, Running, UpdateAndPublish,
           StartUp, Begin, InitMotor, InitialZero, InitialEncoders, ShutDown, TerminateZero,
           TerminateOff, Interrupt, Kill, Launch, vars, cmdVars
  <2>4. QED
    BY <2>1, <2>2, <2>3
<1>3. QED
  BY <1>1, <1>2, TypeCorrect, PTL DEF Spec

-----------------------------------------------------------------------------
(***************************************************************************)
(* The odometry, as long as the position registers cannot overflow.  The   *)
(* encoders then read the wheels' positions; what is needed besides is how *)
(* far the wheels can have come since the last read, whose real time lies  *)
(* up to MaxSetback after the node's (TravelBounded).                      *)
(***************************************************************************)
NoOverflow == MaxRpm * MaxTime < Half

Far(t) == MaxRpm * t

LEMMA FarSteps ==
    ASSUME NEW s \in Nat, NEW t \in Nat, s <= t
    PROVE  Far(s) \in Nat /\ Far(t) \in Nat /\ Far(s) <= Far(t) /\ Far(t + 1) = Far(t) + MaxRpm
<1>1. MaxRpm \in Nat
  BY DriveAssumption
<1>2. \A m \in Nat : m * s \in Nat /\ m * t \in Nat /\ m * s <= m * t /\ m * (t + 1) = m * t + m
  <2> SUFFICES ASSUME NEW m \in Nat
               PROVE m * s \in Nat /\ m * t \in Nat /\ m * s <= m * t /\ m * (t + 1) = m * t + m
    OBVIOUS
  <2>1. m * s \in Nat /\ m * t \in Nat /\ m * (t + 1) = m * t + m
    BY SMTT(30)
  <2>2. m * s <= m * t
    BY SMTT(30)
  <2> QED
    BY <2>1, <2>2
<1> QED
  BY <1>1, <1>2 DEF Far

Within(n, b) == -b <= n /\ n <= b

PosBounded == \A w \in Wheels : Within(pos[w], Far(time))
ReadTrue == proc = "up" => /\ lastEnc = report.read
                           /\ \A w \in Wheels : odom[w] = Forward(w, report.read[w] - base[w])
TravelBounded ==
    proc = "up" =>
        \E s \in 0..MaxSetback :
            /\ lastTime + s <= time
            /\ \A w \in Wheels : Within(pos[w] - lastEnc[w], Far(time - lastTime - s))
OdometryInv == PosBounded /\ ReadTrue /\ TravelBounded /\ VelocityPlausible

\* Without overflow the register reads the position.
LEMMA EncoderTrue ==
    ASSUME NoOverflow, TypeOK, PosBounded
    PROVE  \A w \in Wheels : Signed(Register(pos[w])) = pos[w]
<1> SUFFICES ASSUME NEW w \in Wheels PROVE Signed(Register(pos[w])) = pos[w]
  OBVIOUS
<1> DEFINE p == pos[w]
<1>1. Half \in Nat /\ Half > 0 /\ p \in Int
  BY DriveAssumption DEF TypeOK, PerWheel
<1>2. -Half < p /\ p < Half
  <2>1. Far(time) <= Far(MaxTime) /\ Far(time) \in Nat /\ Far(MaxTime) < Half
    BY FarSteps, DriveAssumption DEF TypeOK, Times, NoOverflow, Far
  <2>2. Far(MaxTime) \in Nat
    BY FarSteps, DriveAssumption
  <2> QED
    BY <1>1, <2>1, <2>2 DEF PosBounded, Within
<1> HIDE DEF p
<1>3. p % (2 * Half) = IF p >= 0 THEN p ELSE p + 2 * Half
  BY <1>1, <1>2, SMTT(30)
<1> QED
  BY <1>1, <1>2, <1>3 DEF Signed, Register, p

\* A tick moves a wheel by at most MaxRpm.
LEMMA TickMoves ==
    ASSUME TypeOK, Tick
    PROVE  \A w \in Wheels : pos'[w] \in Int /\ Within(pos'[w] - pos[w], MaxRpm)
<1> SUFFICES ASSUME NEW w \in Wheels PROVE pos'[w] \in Int /\ Within(pos'[w] - pos[w], MaxRpm)
  OBVIOUS
<1>1. pos[w] \in Int /\ motor[w].goal \in Int /\ Within(motor[w].goal, MaxRpm) /\ MaxRpm \in Nat
  BY DriveAssumption DEF TypeOK, PerWheel, Goals, Within
<1>2. pos'[w] = pos[w] + IF Moving(w) THEN motor[w].goal ELSE 0
  BY DEF Tick
<1>3. pos'[w] = pos[w] \/ pos'[w] = pos[w] + motor[w].goal
  BY <1>1, <1>2
<1> QED
  BY <1>1, <1>3 DEF Within

LEMMA OdometryInit == Init => OdometryInv
<1> SUFFICES ASSUME Init PROVE OdometryInv
  OBVIOUS
<1>1. Far(0) \in Nat /\ MaxRpm \in Nat /\ MaxSetback \in Nat
  BY FarSteps, DriveAssumption
<1>2. pos = Stop /\ time = 0 /\ proc = "begin" /\ report = NoReport(Stop)
  BY DEF Init
<1>3. PosBounded
  BY <1>1, <1>2 DEF PosBounded, Within, Stop
<1>4. VelocityPlausible
  <2>1. report.moved = Stop /\ report.dt = 1
    BY <1>2 DEF NoReport
  <2>2. MaxRpm * (1 + MaxSetback) >= 0
    BY <1>1, SMTT(30)
  <2> QED
    BY <2>1, <2>2 DEF VelocityPlausible, Stop, Abs
<1> QED
  BY <1>2, <1>3, <1>4 DEF OdometryInv, ReadTrue, TravelBounded

LEMMA OdometryStep == NoOverflow /\ TypeOK /\ OdometryInv /\ [Next]_vars => OdometryInv'
<1> SUFFICES ASSUME NoOverflow, TypeOK, OdometryInv, [Next]_vars PROVE OdometryInv'
  OBVIOUS
<1>a. /\ MaxRpm \in Nat /\ MaxSetback \in Nat /\ time \in Nat /\ lastTime \in Nat
      /\ setback \in 0..MaxSetback /\ setback <= time
      /\ \A w \in Wheels : pos[w] \in Int /\ lastEnc[w] \in Int /\ odom[w] \in Int /\ base[w] \in Int
  BY DriveAssumption DEF TypeOK, Times, PerWheel
<1> USE DEF OdometryInv, worldVars, commanderVars, cmdVars, odomVars
<1>1. CASE Tick
  <2>1. time' = time + 1 /\ UNCHANGED <<proc, odomVars>>
    BY <1>1 DEF Tick
  <2>2. PosBounded'
    <3>1. Far(time + 1) = Far(time) + MaxRpm /\ Far(time) \in Nat
      BY <1>a, FarSteps
    <3> QED
      BY <1>a, <1>1, <2>1, <3>1, TickMoves DEF PosBounded, Within
  <2>3. TravelBounded'
    <3> SUFFICES ASSUME proc = "up" PROVE TravelBounded'
      BY <2>1 DEF TravelBounded
    <3>1. PICK s \in 0..MaxSetback :
            /\ lastTime + s <= time
            /\ \A w \in Wheels : Within(pos[w] - lastEnc[w], Far(time - lastTime - s))
      BY DEF TravelBounded
    <3> DEFINE t == time - lastTime - s
    <3>2. t \in Nat /\ time' - lastTime' - s = t + 1 /\ lastTime' + s <= time'
      BY <1>a, <2>1, <3>1
    <3> HIDE DEF t
    <3>3. Far(t + 1) = Far(t) + MaxRpm /\ Far(t) \in Nat
      BY <3>2, FarSteps
    <3>4. \A w \in Wheels : Within(pos'[w] - lastEnc[w], Far(t + 1))
      BY <1>a, <1>1, <3>1, <3>3, TickMoves DEF Within, t
    <3> QED
      BY <2>1, <3>2, <3>4 DEF TravelBounded
  <2> QED
    BY <2>1, <2>2, <2>3 DEF ReadTrue, VelocityPlausible
<1>2. CASE UpdateAndPublish /\ PublishOdometry
  <2>1. UNCHANGED <<time, setback, pos, proc, base>> /\ proc = "up"
    BY <1>2 DEF UpdateAndPublish, PublishOdometry
  <2>2. /\ lastEnc' = [w \in Wheels |-> pos[w]]
        /\ odom' = [w \in Wheels |-> odom[w] + Forward(w, pos[w] - lastEnc[w])]
        /\ report' = [moved |-> [w \in Wheels |-> Forward(w, pos[w] - lastEnc[w])],
                      dt |-> time - setback - lastTime, read |-> pos]
        /\ lastTime' = time - setback /\ time - setback - lastTime > 0
    BY <1>2, EncoderTrue DEF PublishOdometry, NodeClock
  <2>3. pos = [w \in Wheels |-> pos[w]]
    BY DEF TypeOK, PerWheel
  <2>4. ReadTrue'
    <3>1. \A w \in Wheels : odom'[w] = Forward(w, pos[w] - base[w])
      BY <1>a, <2>1, <2>2 DEF ReadTrue, Forward
    <3> QED
      BY <2>1, <2>2, <2>3, <3>1 DEF ReadTrue
  <2>5. TravelBounded'
    <3>1. time' - lastTime' - setback = 0 /\ lastTime' + setback <= time' /\ setback \in 0..MaxSetback
      BY <1>a, <2>1, <2>2
    <3>2. Far(0) \in Nat
      BY FarSteps
    <3>3. \A w \in Wheels : Within(pos'[w] - lastEnc'[w], Far(0))
      BY <1>a, <2>1, <2>2, <3>2 DEF Within
    <3> QED
      BY <3>1, <3>3 DEF TravelBounded
  <2>6. VelocityPlausible'
    <3>1. PICK s \in 0..MaxSetback :
            /\ lastTime + s <= time
            /\ \A w \in Wheels : Within(pos[w] - lastEnc[w], Far(time - lastTime - s))
      BY <2>1 DEF TravelBounded
    <3> DEFINE t == time - lastTime - s
               d == time - setback - lastTime + MaxSetback
    <3>2. t \in Nat /\ d \in Nat /\ t <= d
      BY <1>a, <3>1, <2>2
    <3> HIDE DEF t, d
    <3>3. Far(t) <= Far(d) /\ Far(t) \in Nat /\ Far(d) \in Nat
      BY <3>2, FarSteps
    <3>4. \A w \in Wheels : Abs(Forward(w, pos[w] - lastEnc[w])) <= Far(d)
      BY <1>a, <3>1, <3>3 DEF Within, Abs, Forward, t
    <3>5. /\ report'.dt + MaxSetback = d
          /\ \A w \in Wheels : report'.moved[w] = Forward(w, pos[w] - lastEnc[w])
      BY <2>2 DEF d
    <3> QED
      BY <3>4, <3>5 DEF VelocityPlausible, Far
  <2> QED
    BY <2>1, <2>4, <2>5, <2>6 DEF PosBounded
<1>3. CASE InitialEncoders /\ proc' = "up"
  <2>1. /\ UNCHANGED <<time, setback, pos>> /\ lastEnc' = [w \in Wheels |-> pos[w]]
        /\ base' = pos /\ odom' = Stop /\ report' = NoReport(pos) /\ lastTime' = time - setback
    BY <1>3, EncoderTrue DEF InitialEncoders, NodeClock
  <2>2. pos = [w \in Wheels |-> pos[w]]
    BY DEF TypeOK, PerWheel
  <2>3. ReadTrue'
    BY <1>a, <2>1, <2>2 DEF ReadTrue, NoReport, Forward, Stop
  <2>4. TravelBounded'
    <3>1. time' - lastTime' - setback = 0 /\ lastTime' + setback <= time' /\ setback \in 0..MaxSetback
      BY <1>a, <2>1
    <3>2. Far(0) \in Nat
      BY FarSteps
    <3>3. \A w \in Wheels : Within(pos'[w] - lastEnc'[w], Far(0))
      BY <1>a, <2>1, <3>2 DEF Within
    <3> QED
      BY <3>1, <3>3 DEF TravelBounded
  <2>5. VelocityPlausible'
    <3>1. report'.moved = Stop /\ report'.dt = 1
      BY <2>1 DEF NoReport
    <3>2. MaxRpm * (1 + MaxSetback) >= 0
      BY <1>a, SMTT(30)
    <3> QED
      BY <3>1, <3>2 DEF VelocityPlausible, Stop, Abs
  <2> QED
    BY <2>1, <2>3, <2>4, <2>5 DEF PosBounded
<1>4. CASE UNCHANGED <<time, pos, odomVars>> /\ (proc' = "up" => proc = "up")
  BY <1>4 DEF PosBounded, ReadTrue, TravelBounded, VelocityPlausible
<1>5. CASE UpdateAndPublish /\ SkipOdometry
  BY <1>4, <1>5 DEF UpdateAndPublish, SkipOdometry
<1>6. CASE InitialEncoders /\ proc' # "up"
  BY <1>4, <1>6 DEF InitialEncoders
<1>7. CASE SetClock \/ Command \/ CommanderDies \/ TwistCallback
  BY <1>4, <1>7 DEF SetClock, Command, CommanderDies, TwistCallback
<1>8. CASE Begin \/ (\E w \in Wheels : InitMotor(w)) \/ InitialZero
  BY <1>4, <1>8 DEF Begin, InitMotor, InitialZero
<1>9. CASE ShutDown \/ Interrupt \/ Kill \/ Launch
  BY <1>4, <1>9 DEF ShutDown, TerminateZero, TerminateOff, Interrupt, Kill, Launch
<1>10. CASE UNCHANGED vars
  BY <1>4, <1>10 DEF vars
<1>11. UpdateAndPublish => SkipOdometry \/ PublishOdometry
  BY DEF UpdateAndPublish
<1> QED
  BY <1>1, <1>2, <1>3, <1>5, <1>6, <1>7, <1>8, <1>9, <1>10, <1>11 DEF Next, Environment, Running, StartUp

\* Every pulse is integrated once over skipped and failed reads and relaunches
\* (update_and_publish), as long as a wheel cannot leave the range of its register.
THEOREM OdometryCounts == ASSUME NoOverflow PROVE Spec => []OdometryExact
<1>1. OdometryInv => OdometryExact
  BY DEF OdometryInv, ReadTrue, OdometryExact
<1>2. TypeOK /\ OdometryInv /\ [Next]_vars => OdometryInv'
  BY OdometryStep
<1> QED
  BY <1>1, <1>2, OdometryInit, TypeCorrect, PTL DEF Spec

\* Published velocities exceed what a motor can do by no more than the clock was
\* set back (dt in update_and_publish), as long as registers do not overflow.
THEOREM VelocityIsPlausible == ASSUME NoOverflow PROVE Spec => []VelocityPlausible
<1>1. OdometryInv => VelocityPlausible
  BY DEF OdometryInv
<1>2. TypeOK /\ OdometryInv /\ [Next]_vars => OdometryInv'
  BY OdometryStep
<1> QED
  BY <1>1, <1>2, OdometryInit, TypeCorrect, PTL DEF Spec
=============================================================================
