------------------------------ MODULE DriveBase ------------------------------
(***************************************************************************)
(* The robot's drive base: the pinky_bringup node (bringup.py), its        *)
(* Dynamixel driver (dynamixel_driver.py), the two wheel motors on their   *)
(* serial bus, and the commander whose velocity commands reach the node    *)
(* through a queue.                                                        *)
(*                                                                         *)
(* The node is single threaded: each callback is one step.  What the model *)
(* interleaves is callbacks, the commander, the passing of time (the       *)
(* motors turn), transmissions lost on the bus, the host's system clock    *)
(* being set back, signals, and restarts of the process.                   *)
(*                                                                         *)
(* One tick is the period of the update timer.  All node times are of the  *)
(* node clock, which is the system clock: real time minus setback.         *)
(***************************************************************************)
EXTENDS Integers, Sequences, FiniteSets

CONSTANTS
    Twists,        \* commands <<linear, angular>>, in wheel RPM
    MaxRpm,        \* MAX_RPM
    Timeout,       \* cmd_vel_timeout
    QueueDepth,    \* depth of the cmd_vel subscription
    Half,          \* half the range of the position register (2^31)
    MaxFaults,     \* bound: transmissions lost on the bus
    MaxSetback,    \* bound: how far the system clock may be set back in all
    MaxLaunches,   \* bound: launches of the process
    MaxTime        \* bound: the last tick

Wheels == {"l", "r"}
Stop == [w \in Wheels |-> 0]
Abs(n) == IF n < 0 THEN -n ELSE n

ASSUME DriveAssumption ==
    /\ Twists \subseteq Int \X Int
    /\ MaxRpm \in Nat \ {0}
    /\ Timeout \in Nat
    /\ QueueDepth \in Nat \ {0}
    /\ Half \in Nat \ {0}
    /\ MaxFaults \in Nat /\ MaxSetback \in Nat
    /\ MaxLaunches \in Nat /\ MaxTime \in Nat

VARIABLES
    time, setback, \* real time, and real time minus the node clock
    faults,        \* transmissions lost so far
    motor,         \* per wheel: the goal velocity it holds, and its torque
    pos,           \* per wheel: its true position, in pulses
    navUp,         \* the commander runs
    sentAt,        \* history: real time of the commander's last command
    queue,         \* commands waiting in the subscription
    proc,          \* what the process is doing
    launches,      \* history: launches of the process
    lastCmd,       \* last_cmd_vel_time
    lastCmdAt,     \* history: its real time
    nextCall,      \* node time of the timer's next call
    handled,       \* has a command been handled since the last tick?
    lastTime,      \* last_time
    lastEnc,       \* last_encoder_l and last_encoder_r
    odom,          \* per wheel: the distance integrated into the pose
    base,          \* history: positions at start-up
    report,        \* history: the last odometry published
    cmd            \* history: the last command handled, and its wheel goals

worldVars == <<time, setback, motor, pos, faults>>
commanderVars == <<navUp, sentAt>>
cmdVars == <<lastCmd, lastCmdAt, cmd, handled>>
odomVars == <<lastTime, lastEnc, odom, base, report>>
vars == <<worldVars, commanderVars, queue, proc, launches, cmdVars, nextCall, odomVars>>

NodeClock == time - setback
Moving(w) == motor[w].torque /\ motor[w].goal # 0

\* No odometry published since the encoders stood at p.
NoReport(p) == [moved |-> Stop, dt |-> 1, read |-> p]

Init ==
    /\ time = 0 /\ setback = 0 /\ faults = 0
    /\ motor = [w \in Wheels |-> [goal |-> 0, torque |-> FALSE]]
    /\ pos = Stop
    /\ navUp = TRUE /\ sentAt = 0 /\ queue = <<>>
    /\ proc = "begin" /\ launches = 1
    /\ lastCmd = 0 /\ lastCmdAt = 0 /\ nextCall = 0 /\ handled = FALSE
    /\ cmd = [twist |-> <<0, 0>>, goal |-> Stop]
    /\ lastTime = 0 /\ lastEnc = Stop /\ odom = Stop /\ base = Stop
    /\ report = NoReport(Stop)

-----------------------------------------------------------------------------
(***************************************************************************)
(* The bus and the motors (external).                                      *)
(***************************************************************************)
\* A broadcast write of the goal velocities.  It has no reply: the motors in
\* "missed" did not hear it and keep the goal they hold.
SyncWrite(goal, missed) ==
    /\ faults' = faults + (IF missed = {} THEN 0 ELSE 1)
    /\ faults' <= MaxFaults
    /\ motor' = [w \in Wheels |->
                    IF w \in missed THEN motor[w] ELSE [motor[w] EXCEPT !.goal = goal[w]]]

\* Time passes and the motors turn.  A running executor has called the timer
\* when it was due, and has handled a waiting command, within the tick.
Tick ==
    /\ time < MaxTime
    /\ proc = "up" => NodeClock < nextCall /\ (queue = <<>> \/ handled)
    /\ time' = time + 1
    /\ pos' = [w \in Wheels |-> pos[w] + IF Moving(w) THEN motor[w].goal ELSE 0]
    /\ handled' = FALSE
    /\ UNCHANGED <<setback, motor, faults, commanderVars, queue, proc, launches,
                   lastCmd, lastCmdAt, cmd, nextCall, odomVars>>

\* The system clock is set.
SetClock ==
    /\ \E s \in 0..MaxSetback : s # setback /\ s <= time /\ setback' = s
    /\ UNCHANGED <<time, motor, pos, faults, commanderVars, queue, proc, launches,
                   cmdVars, nextCall, odomVars>>

\* The subscription's queue drops its oldest command when it is full.
MutantOfferUnbounded(t) == Append(queue, t)
Offer(t) == IF Len(queue) < QueueDepth THEN Append(queue, t) ELSE Append(Tail(queue), t)

\* The commander (Nav2, or a teleoperator) publishes a command, or dies.
Command ==
    /\ navUp /\ proc = "up"
    /\ sentAt' = time
    /\ \E t \in Twists : queue' = Offer(t)
    /\ UNCHANGED <<worldVars, navUp, proc, launches, cmdVars, nextCall, odomVars>>

CommanderDies ==
    /\ navUp /\ navUp' = FALSE
    /\ UNCHANGED <<worldVars, sentAt, queue, proc, launches, cmdVars, nextCall, odomVars>>

-----------------------------------------------------------------------------
(***************************************************************************)
(* Callbacks of the running node.                                          *)
(***************************************************************************)
\* Division truncated toward zero, as int() does.
Trunc(a, b) == IF a < 0 THEN -((-a) \div b) ELSE a \div b

\* twist_callback's wheel goals: the right wheel is mounted mirrored, and a
\* command beyond MaxRpm is scaled down with the ratio of the wheels kept.
RawGoal(t) == [w \in Wheels |-> IF w = "l" THEN t[1] - t[2] ELSE -(t[1] + t[2])]
Top(g) == IF Abs(g["l"]) > Abs(g["r"]) THEN Abs(g["l"]) ELSE Abs(g["r"])
Scaled(g) == [w \in Wheels |-> Trunc(g[w] * MaxRpm, Top(g))]
MutantWheelGoalClamped(t) ==
    [w \in Wheels |-> IF RawGoal(t)[w] > MaxRpm THEN MaxRpm
                      ELSE IF RawGoal(t)[w] < -MaxRpm THEN -MaxRpm ELSE RawGoal(t)[w]]
WheelGoal(t) == IF Top(RawGoal(t)) > MaxRpm THEN Scaled(RawGoal(t)) ELSE RawGoal(t)

\* twist_callback.  A failed transmission is only logged.
TwistCallback ==
    /\ proc = "up" /\ queue # <<>>
    /\ queue' = Tail(queue)
    /\ handled' = TRUE
    /\ lastCmd' = NodeClock /\ lastCmdAt' = time
    /\ cmd' = [twist |-> Head(queue), goal |-> WheelGoal(Head(queue))]
    /\ \E missed \in SUBSET Wheels : SyncWrite(cmd'.goal, missed)
    /\ UNCHANGED <<time, setback, pos, commanderVars, proc, launches, nextCall, odomVars>>

\* get_feedback's conversion of the position register to a signed number.
Register(p) == p % (2 * Half)
MutantUnsigned(raw) == raw
Signed(raw) == IF raw > Half THEN raw - 2 * Half ELSE raw

\* Forward travel of a wheel: the right one turns the other way.
Forward(w, d) == IF w = "l" THEN d ELSE -d

\* The watchdog at the head of update_and_publish.
MutantOverdueLate == NodeClock - lastCmd > Timeout + 1
MutantNoWatchdog == FALSE
Overdue == NodeClock - lastCmd > Timeout

\* The rest of update_and_publish: nothing unless the clock has advanced and
\* the bus read succeeds; else the distance since the last successful read is
\* integrated and published with the time since then.
MutantSkipAdvancesTime == lastTime' = NodeClock /\ UNCHANGED <<lastEnc, odom, base, report>>
SkipOdometry == UNCHANGED odomVars

PublishOdometry ==
    /\ NodeClock - lastTime > 0
    /\ LET enc == [w \in Wheels |-> Signed(Register(pos[w]))]
           moved == [w \in Wheels |-> Forward(w, enc[w] - lastEnc[w])]
       IN  /\ lastEnc' = enc
           /\ odom' = [w \in Wheels |-> odom[w] + moved[w]]
           /\ report' = [moved |-> moved, dt |-> NodeClock - lastTime, read |-> pos]
    /\ lastTime' = NodeClock
    /\ UNCHANGED base

UpdateAndPublish ==
    /\ proc = "up" /\ NodeClock >= nextCall
    /\ nextCall' = NodeClock + 1
    /\ \/ /\ Overdue
          /\ \E missed \in SUBSET Wheels : SyncWrite(Stop, missed)
       \/ /\ ~Overdue
          /\ UNCHANGED <<motor, faults>>
    /\ SkipOdometry \/ PublishOdometry
    /\ UNCHANGED <<time, setback, pos, commanderVars, queue, proc, launches, cmdVars>>

-----------------------------------------------------------------------------
(***************************************************************************)
(* Start-up: the node's constructor.  Every early return leaves a node     *)
(* without a timer or a subscription, which main() then spins: "failed".   *)
(***************************************************************************)
\* begin(): the port is opened, or is not, or opening it raises.
Begin ==
    /\ proc = "begin"
    /\ proc' \in {"motor_l", "failed", "dead"}
    /\ UNCHANGED <<worldVars, commanderVars, queue, launches, cmdVars, nextCall, odomVars>>

\* initialize_motors, one motor.  A reboot that is not heard goes unnoticed.  A
\* failed write ends the start-up: before the torque is on, or after.
InitMotor(w) ==
    /\ proc = IF w = "l" THEN "motor_l" ELSE "motor_r"
    /\ \E rebooted \in BOOLEAN, reached \in {"mode", "torque", "led"} :
          /\ faults' = faults + (IF rebooted THEN 0 ELSE 1) + (IF reached = "led" THEN 0 ELSE 1)
          /\ motor' = [motor EXCEPT ![w] =
                          [goal |-> IF rebooted THEN 0 ELSE @.goal,
                           torque |-> reached # "mode" \/ (~rebooted /\ @.torque)]]
          /\ proc' = IF reached # "led" THEN "failZero"
                     ELSE IF w = "l" THEN "motor_r" ELSE "zero"
    /\ faults' <= MaxFaults
    /\ UNCHANGED <<time, setback, pos, commanderVars, queue, launches, cmdVars, nextCall, odomVars>>

\* The initial zero command: sent, though perhaps not heard, or not sent.
InitialZero ==
    /\ proc = "zero"
    /\ \/ /\ \E missed \in SUBSET Wheels : SyncWrite(Stop, missed)
          /\ proc' = "encoder"
       \/ /\ SyncWrite(Stop, Wheels)
          /\ proc' = "failZero"
    /\ UNCHANGED <<time, setback, pos, commanderVars, queue, launches, cmdVars, nextCall, odomVars>>

\* The initial encoder read, then the entities and the clocks of the node.
InitialEncoders ==
    /\ proc = "encoder"
    /\ \/ /\ proc' = "failZero"
          /\ UNCHANGED <<cmdVars, sentAt, nextCall, odomVars>>
       \/ /\ proc' = "up"
          /\ lastEnc' = [w \in Wheels |-> Signed(Register(pos[w]))]
          /\ base' = pos /\ odom' = Stop
          /\ report' = NoReport(pos)
          /\ lastTime' = NodeClock /\ nextCall' = NodeClock + 1
          /\ lastCmd' = NodeClock /\ lastCmdAt' = time /\ sentAt' = time
          /\ UNCHANGED <<handled, cmd>>
    /\ UNCHANGED <<worldVars, navUp, queue, launches>>

-----------------------------------------------------------------------------
(***************************************************************************)
(* Shutdown, signals, relaunch.                                            *)
(***************************************************************************)
\* terminate(), first part: zero the goals.
TerminateZero ==
    /\ proc \in {"failZero", "exitZero"}
    /\ \E missed \in SUBSET Wheels : SyncWrite(Stop, missed)
    /\ proc' = IF proc = "failZero" THEN "failOff" ELSE "exitOff"
    /\ UNCHANGED <<time, setback, pos, commanderVars, queue, launches, cmdVars, nextCall, odomVars>>

MutantTorqueOffFirst(missed) == [motor EXCEPT !["l"].torque = @ /\ "l" \in missed]
TorqueOff(missed) ==
    [w \in Wheels |-> IF w \in missed THEN motor[w] ELSE [motor[w] EXCEPT !.torque = FALSE]]

\* terminate(), second part: torque off, motor by motor, and close the port.
TerminateOff ==
    /\ proc \in {"failOff", "exitOff"}
    /\ \E missed \in SUBSET Wheels :
          /\ faults' = faults + Cardinality(missed)
          /\ motor' = TorqueOff(missed)
    /\ faults' <= MaxFaults
    /\ proc' = IF proc = "failOff" THEN "failed" ELSE "exited"
    /\ UNCHANGED <<time, setback, pos, commanderVars, queue, launches, cmdVars, nextCall, odomVars>>

\* SIGINT ends the spin, and terminate() runs.  Anywhere else it ends the process:
\* in the constructor there is no node yet to terminate, not even where a failed
\* start is terminating; after one the port is closed and main raises; and a
\* second one breaks terminate() off.
Interrupt ==
    /\ proc \notin {"exited", "dead"}
    /\ proc' = IF proc = "up" THEN "exitZero" ELSE "dead"
    /\ queue' = <<>>
    /\ UNCHANGED <<worldVars, commanderVars, launches, cmdVars, nextCall, odomVars>>

\* The process is killed: the motors keep what they hold.
Kill ==
    /\ proc \notin {"dead", "exited"}
    /\ proc' = "dead"
    /\ queue' = <<>>
    /\ UNCHANGED <<worldVars, commanderVars, launches, cmdVars, nextCall, odomVars>>

Launch ==
    /\ proc \in {"dead", "exited"} /\ launches < MaxLaunches
    /\ proc' = "begin" /\ launches' = launches + 1
    /\ UNCHANGED <<worldVars, commanderVars, queue, cmdVars, nextCall, odomVars>>

-----------------------------------------------------------------------------
Environment == Tick \/ SetClock \/ Command \/ CommanderDies
Running == TwistCallback \/ UpdateAndPublish
StartUp == Begin \/ (\E w \in Wheels : InitMotor(w)) \/ InitialZero \/ InitialEncoders
ShutDown == TerminateZero \/ TerminateOff

Next == Environment \/ Running \/ StartUp \/ ShutDown \/ Interrupt \/ Kill \/ Launch

Spec == Init /\ [][Next]_vars

\* The process keeps running: every step that it can take, it takes.
FairSpec == Spec /\ WF_vars(Running) /\ WF_vars(StartUp) /\ WF_vars(ShutDown)

-----------------------------------------------------------------------------
(***************************************************************************)
(* Properties.                                                             *)
(***************************************************************************)
Times == 0..MaxTime
Goals == -MaxRpm..MaxRpm
PerWheel == [Wheels -> Int]

\* Every variable has the type its use in the node gives it.
TypeOK ==
    /\ time \in Times /\ setback \in 0..MaxSetback /\ setback <= time
    /\ faults \in 0..MaxFaults
    /\ motor \in [Wheels -> [goal : Goals, torque : BOOLEAN]]
    /\ pos \in PerWheel
    /\ navUp \in BOOLEAN /\ sentAt \in Times
    /\ queue \in Seq(Twists) /\ Len(queue) <= QueueDepth
    /\ proc \in {"begin", "motor_l", "motor_r", "zero", "encoder", "up", "failZero",
                 "failOff", "failed", "exitZero", "exitOff", "exited", "dead"}
    /\ launches \in Nat
    /\ lastCmd \in Times /\ lastCmdAt \in Times /\ lastTime \in Times
    /\ nextCall \in Nat /\ handled \in BOOLEAN
    /\ lastEnc \in PerWheel /\ odom \in PerWheel /\ base \in PerWheel
    /\ report \in [moved : PerWheel, dt : Nat \ {0}, read : PerWheel]
    /\ cmd \in [twist : Int \X Int, goal : [Wheels -> Goals]]

\* Real time from a command to the watchdog's effect, at most.  A call of the
\* timer comes within a tick, or later by what the system clock is set back, and
\* each call whose transmission is lost costs another such delay.
StopDelay == Timeout + (faults + 1) * (MaxSetback + 1)

\* The watchdog: wheels still turning were commanded within StopDelay.
StopsInTime ==
    proc = "up" /\ (\E w \in Wheels : Moving(w)) => time - lastCmdAt <= StopDelay

\* When the commander falls silent the robot stops, although commands it left in
\* the queue still move it and each one starts the watchdog's window again.
SilenceStops ==
    proc = "up" /\ (\E w \in Wheels : Moving(w)) => time - sentAt <= QueueDepth + StopDelay

\* terminate() stops every wheel twice over: one transmission lost on the way
\* out never leaves a wheel turning.
OrderlyExitStops == proc = "exited" /\ (\E w \in Wheels : Moving(w)) => faults >= 2

\* The pose integrates every pulse exactly once, whatever reads fail or are
\* skipped in between.
OdometryExact ==
    proc = "up" => \A w \in Wheels : odom[w] = Forward(w, report.read[w] - base[w])

\* Published velocities (distance over dt) stay within what a motor can do; a
\* clock set back shortens dt by what it was set back, and no more.
VelocityPlausible ==
    \A w \in Wheels : Abs(report.moved[w]) <= MaxRpm * (report.dt + MaxSetback)

\* Limiting a command to MaxRpm keeps the curve the commander asked for: the ratio
\* of the wheels is off by at most one unit of each, and no wheel turns about.
CurveKept ==
    LET l == cmd.twist[1] - cmd.twist[2]
        r == -(cmd.twist[1] + cmd.twist[2])
    IN  /\ Abs(cmd.goal["l"] * r - cmd.goal["r"] * l) <= Abs(l) + Abs(r)
        /\ cmd.goal["l"] * l >= 0 /\ cmd.goal["r"] * r >= 0

\* A failed start ends the process, as its messages ("... Shutting down.") say.
\* It fails: the constructor returns and main() spins the empty node.
FailedStartEnds == proc = "failed" ~> proc # "failed"

=============================================================================
