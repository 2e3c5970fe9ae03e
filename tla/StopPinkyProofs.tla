--------------------------- MODULE StopPinkyProofs ---------------------------
(***************************************************************************)
(* The stop script, for every value of the constants.                      *)
(*                                                                         *)
(* The script only does to the drive base what its environment may do      *)
(* anyway, so that the composition is a drive base (ScriptIsDriveBase) and *)
(* all that DriveBaseProofs shows holds of it.  What the script adds is an *)
(* order and its pauses (ScriptInv).                                       *)
(***************************************************************************)
EXTENDS StopPinky, DriveBaseProofs

\* Every step of the script is a step of DriveBase or leaves it alone: a signal
\* it sends is a signal DriveBase has a handler for.
LEMMA ScriptStep == [NextScript]_allVars => [Next]_vars
<1> SUFFICES ASSUME [NextScript]_allVars PROVE [Next]_vars
  OBVIOUS
<1>1. CASE ScriptTick
  BY <1>1 DEF ScriptTick, Next, Environment
<1>2. CASE RobotStep
  BY <1>2 DEF RobotStep, Next, Environment
<1>3. CASE StopNav
  BY <1>3 DEF StopNav, Next, Environment
<1>4. CASE StopBringup
  BY <1>4 DEF StopBringup, Next
<1>5. CASE KillStragglers
  BY <1>5 DEF KillStragglers, KillNav, KillBringup, StragglersGone, Next, Environment
<1>6. CASE UNCHANGED allVars
  BY <1>6 DEF allVars
<1> QED
  BY <1>1, <1>2, <1>3, <1>4, <1>5, <1>6 DEF NextScript

\* The script and the robot together implement the drive base (stop_pinky.sh
\* only sends signals).
THEOREM ScriptIsDriveBase == SpecScript => Spec
<1>1. InitScript => Init
  BY DEF InitScript
<1> QED
  BY <1>1, ScriptStep, PTL DEF SpecScript, Spec

\* So the invariants of the drive base hold while the script runs.
LEMMA Inherited ==
    SpecScript => [](TypeOK /\ SilenceInvariant /\ SilenceStops /\ OrderlyExitStops)
  BY ScriptIsDriveBase, TypeCorrect, SilenceInductive, SilentCommanderStops, OrderlyExit, PTL

-----------------------------------------------------------------------------
\* Wheels turn only from the node's first command on: before it, after a failed
\* start, and after a kill that came too late to hurt, no goal is set.
Still == \A w \in Wheels : motor[w].goal = 0
Ending == {"exitZero", "exitOff"}
ScriptInv ==
    /\ script \in 0..3 /\ waited \in 0..Pause
    /\ obeyed \subseteq {"nav", "bringup"} /\ ("nav" \in obeyed => ~navUp)
    /\ proc \in {"exitZero", "exitOff"} => script = 2
    /\ "bringup" \in obeyed => script >= 2 /\ proc \in Ending \union {"exited", "dead"}
    /\ script = 2 /\ proc \in Ending => waited < Pause
    /\ script = 3 => proc \in {"exited", "dead"}
    /\ proc \notin {"up", "exitZero", "exitOff", "exited", "dead"} => Still
    /\ proc = "dead" => Still \/ (script >= 2 /\ "bringup" \notin obeyed)

LEMMA ScriptInit == InitScript => ScriptInv
<1> SUFFICES ASSUME InitScript PROVE ScriptInv
  OBVIOUS
<1>1. Still
  BY DEF InitScript, Init, Still
<1>2. obeyed = {} /\ proc = "begin"
  BY DEF InitScript, Init
<1>3. script = 0 /\ waited = 0 /\ waited \in 0..Pause /\ script \in 0..3 /\ ~(script >= 2)
  BY PauseAssumption DEF InitScript
<1> QED
  BY <1>1, <1>2, <1>3 DEF ScriptInv

\* Zeroing transmissions, start-up and the end of it leave still wheels still.
LEMMA StillStays ==
    ASSUME TypeOK, Still,
           \/ \E missed \in SUBSET Wheels : SyncWrite(Stop, missed)
           \/ \E w \in Wheels : InitMotor(w)
           \/ TerminateOff
           \/ UNCHANGED motor
    PROVE  Still'
<1>0. motor \in [Wheels -> [goal : Goals, torque : BOOLEAN]]
  BY DEF TypeOK
<1>1. CASE \E missed \in SUBSET Wheels : SyncWrite(Stop, missed)
  BY <1>0, <1>1 DEF SyncWrite, Still, Stop
<1>2. CASE \E w \in Wheels : InitMotor(w)
  BY <1>0, <1>2 DEF InitMotor, Still
<1>3. CASE TerminateOff
  BY <1>0, <1>3 DEF TerminateOff, TorqueOff, Still
<1>4. CASE UNCHANGED motor
  BY <1>4 DEF Still
<1> QED
  BY <1>1, <1>2, <1>3, <1>4

\* The drive base's own steps, signals aside: a running node may command, any
\* other leaves still wheels still.
LEMMA RobotStill ==
    ASSUME TypeOK, RobotStep, proc # "up", Still
    PROVE  Still'
<1> USE DEF worldVars, commanderVars, cmdVars, odomVars
<1>1. CASE SetClock \/ Command \/ CommanderDies \/ Begin \/ InitialEncoders
  BY <1>1, StillStays DEF SetClock, Command, CommanderDies, Begin, InitialEncoders
<1>2. CASE InitialZero
  <2>1. \E missed \in SUBSET Wheels : SyncWrite(Stop, missed)
    BY <1>2 DEF InitialZero
  <2>2. QED
    BY <2>1, StillStays
<1>3. CASE TerminateZero
  BY <1>3, StillStays DEF TerminateZero
<1>4. CASE (\E w \in Wheels : InitMotor(w)) \/ TerminateOff
  BY <1>4, StillStays
<1>5. ~Running
  BY DEF Running, TwistCallback, UpdateAndPublish
<1> QED
  BY <1>1, <1>2, <1>3, <1>4, <1>5 DEF RobotStep, StartUp, ShutDown

\* Where the process goes by itself.
LEMMA RobotProc ==
    ASSUME RobotStep
    PROVE  /\ navUp' = navUp \/ ~navUp'
           /\ \/ proc' = proc
              \/ /\ proc \in {"begin", "motor_l", "motor_r", "zero", "encoder"}
                 /\ proc' \notin {"exitZero", "exitOff", "exited"}
              \/ proc = "failZero" /\ proc' = "failOff"
              \/ proc = "failOff" /\ proc' = "failed"
              \/ proc = "exitZero" /\ proc' = "exitOff"
              \/ proc = "exitOff" /\ proc' = "exited"
<1> USE DEF worldVars, commanderVars, cmdVars, odomVars
<1>1. CASE SetClock \/ Command \/ CommanderDies
  BY <1>1 DEF SetClock, Command, CommanderDies
<1>2. CASE Running
  BY <1>2 DEF Running, TwistCallback, UpdateAndPublish
<1>3. CASE \E w \in Wheels : InitMotor(w)
  BY <1>3 DEF InitMotor
<1>4. CASE Begin \/ InitialZero \/ InitialEncoders
  BY <1>4 DEF Begin, InitialZero, InitialEncoders
<1>5. CASE ShutDown
  BY <1>5 DEF ShutDown, TerminateZero, TerminateOff
<1> QED
  BY <1>1, <1>2, <1>3, <1>4, <1>5 DEF RobotStep, StartUp

LEMMA ScriptInvStep == TypeOK /\ ScriptInv /\ [NextScript]_allVars => ScriptInv'
<1> SUFFICES ASSUME TypeOK, ScriptInv, [NextScript]_allVars PROVE ScriptInv'
  OBVIOUS
<1> USE PauseAssumption DEF ScriptInv, Ending, worldVars, commanderVars, cmdVars, odomVars, scriptVars
<1>1. CASE ScriptTick
  <2>1. Still' = Still
    BY <1>1 DEF ScriptTick, Tick, Still
  <2>2. QED
    BY <1>1, <2>1 DEF ScriptTick, Tick
<1>2. CASE RobotStep
  <2>1. UNCHANGED scriptVars
    BY <1>2 DEF RobotStep
  <2>2. proc' \notin {"up", "exitZero", "exitOff", "exited", "dead"} => Still'
    BY <1>2, RobotStill, RobotProc
  <2>3. proc' = "dead" => Still' \/ (script >= 2 /\ "bringup" \notin obeyed)
    BY <1>2, RobotStill, RobotProc
  <2>4. QED
    BY <1>2, <2>1, <2>2, <2>3, RobotProc
<1>3. CASE StopNav
  <2>1. UNCHANGED <<proc, motor>> /\ (navUp' = navUp \/ ~navUp') /\ navUp' \in BOOLEAN
    BY <1>3 DEF StopNav, CommanderDies, vars, TypeOK
  <2>2. script = 0 /\ script' = 1 /\ waited' = 0 /\ Still' = Still
    BY <1>3, <2>1 DEF StopNav, Still
  <2>3. obeyed' \subseteq {"nav", "bringup"} /\ ("nav" \in obeyed' => ~navUp') /\ "bringup" \notin obeyed'
    <3>1. CASE obeyed' = {"nav"} /\ (CommanderDies \/ (~navUp /\ UNCHANGED vars))
      BY <3>1 DEF CommanderDies, vars
    <3>2. CASE UNCHANGED <<vars, obeyed>>
      <4>1. ("nav" \in obeyed => ~navUp) /\ "bringup" \notin obeyed /\ UNCHANGED <<navUp, obeyed>>
        BY <2>2, <3>2 DEF vars, commanderVars
      <4>2. obeyed' \subseteq {"nav", "bringup"}
        BY <4>1
      <4>3. QED
        BY <4>1, <4>2
    <3>3. QED
      BY <1>3, <3>1, <3>2 DEF StopNav
  <2>4. QED
    BY <2>1, <2>2, <2>3
<1>4. CASE StopBringup
  <2>1. UNCHANGED <<navUp, motor>>
    BY <1>4 DEF StopBringup, Interrupt, vars
  <2>2. Still' = Still
    BY <2>1 DEF Still
  <2>3. CASE Interrupt /\ obeyed' = obeyed \union {"bringup"}
    <3>1. proc' \in {"exitZero", "dead"} /\ (proc' = "dead" => Still)
      BY <1>4, <2>3 DEF StopBringup, Interrupt
    <3>2. QED
      BY <1>4, <2>1, <2>2, <2>3, <3>1 DEF StopBringup
  <2>4. CASE UNCHANGED <<vars, obeyed>>
    BY <1>4, <2>1, <2>2, <2>4 DEF StopBringup, vars
  <2>5. QED
    BY <1>4, <2>3, <2>4 DEF StopBringup
<1>5. CASE KillNav
  BY <1>5 DEF KillNav, CommanderDies, Still
<1>6. CASE KillBringup
  <2>1. proc \notin {"exitZero", "exitOff", "exited", "dead"} /\ script = 2
    BY <1>6 DEF KillBringup, Kill, Paused
  <2>2. QED
    BY <1>6, <2>1 DEF KillBringup, Kill, Still
<1>7. CASE StragglersGone
  BY <1>7 DEF StragglersGone, vars, Still
<1>8. CASE UNCHANGED allVars
  BY <1>8 DEF allVars, vars, Still
<1> QED
  BY <1>1, <1>2, <1>3, <1>4, <1>5, <1>6, <1>7, <1>8 DEF NextScript, KillStragglers

LEMMA ScriptInductive == SpecScript => []ScriptInv
  BY ScriptInit, ScriptInvStep, Inherited, PTL DEF SpecScript

-----------------------------------------------------------------------------
(***************************************************************************)
(* The first pause.  Once the navigation has obeyed, its last command is   *)
(* at least the pause so far old, or the node has only come up since, with *)
(* nothing to do (RestInv).  So it is safe to interrupt the bringup then,  *)
(* or even to kill it after the second pause (KilledStill).                *)
(***************************************************************************)
\* The script's pause outlasts the queue and the watchdog, its transmissions lost
\* and clock setbacks included; two seconds against half a second in the code.
LongPause == Pause > QueueDepth + Timeout + (MaxFaults + 1) * (MaxSetback + 1)

RestInv ==
    /\ sentAt <= time
    /\ script \in {1, 2} /\ "nav" \in obeyed => waited <= time - sentAt \/ (queue = <<>> /\ Still)

LEMMA RestStep ==
    TypeOK /\ SilenceInvariant /\ ScriptInv /\ RestInv /\ [NextScript]_allVars => RestInv'
<1> SUFFICES ASSUME TypeOK, SilenceInvariant, ScriptInv, RestInv, [NextScript]_allVars
             PROVE  RestInv'
  OBVIOUS
<1> USE DEF RestInv, worldVars, commanderVars, cmdVars, odomVars, scriptVars
<1>0. time \in Nat /\ sentAt \in Nat /\ waited \in Nat
  BY PauseAssumption, DriveAssumption DEF TypeOK, Times, ScriptInv
<1>1. CASE ScriptTick
  BY <1>0, <1>1 DEF ScriptTick, Tick, Still
<1>2. CASE RobotStep
  <2>0. UNCHANGED <<scriptVars, time>>
    BY <1>2 DEF RobotStep, SetClock, Command, CommanderDies, Running, TwistCallback, UpdateAndPublish,
                StartUp, Begin, InitMotor, InitialZero, InitialEncoders, ShutDown, TerminateZero, TerminateOff
  <2>1. CASE Command \/ InitialEncoders
    <3>1. CASE Command
      BY <1>0, <2>0, <3>1 DEF Command, ScriptInv
    <3>2. CASE InitialEncoders
      <4>1. queue = <<>> /\ Still
        BY <3>2 DEF InitialEncoders, SilenceInvariant, ScriptInv
      <4>2. queue' = <<>> /\ Still' /\ sentAt' \in {time, sentAt}
        BY <3>2, <4>1 DEF InitialEncoders, Still
      <4>3. QED
        BY <1>0, <2>0, <4>2
    <3>3. QED
      BY <2>1, <3>1, <3>2
  <2>2. CASE ~Command /\ ~InitialEncoders
    <3>1. UNCHANGED sentAt /\ (queue = <<>> => queue' = <<>>)
      BY <1>2, <2>2 DEF RobotStep, SetClock, CommanderDies, Running, TwistCallback, UpdateAndPublish,
                StartUp, Begin, InitMotor, InitialZero, ShutDown, TerminateZero, TerminateOff
    <3>2. queue = <<>> /\ Still => Still'
      <4> SUFFICES ASSUME queue = <<>>, Still PROVE Still'
        OBVIOUS
      <4>1. CASE proc # "up"
        BY <1>2, <4>1, RobotStill
      <4>2. CASE proc = "up"
        <5>1. UNCHANGED motor \/ \E missed \in SUBSET Wheels : SyncWrite(Stop, missed)
          BY <1>2, <2>2, <4>2 DEF RobotStep, SetClock, CommanderDies, Running, TwistCallback, UpdateAndPublish,
                StartUp, Begin, InitMotor, InitialZero, ShutDown, TerminateZero, TerminateOff, Wheels
        <5>2. QED
          BY <5>1, StillStays
      <4> QED
        BY <4>1, <4>2
    <3>3. QED
      BY <2>0, <3>1, <3>2
  <2>3. QED
    BY <2>1, <2>2
<1>3. CASE StopNav
  <2>1. UNCHANGED <<time, sentAt>>
    BY <1>3 DEF StopNav, CommanderDies, vars
  <2>2. waited' = 0
    BY <1>3 DEF StopNav
  <2>3. QED
    BY <1>0, <2>1, <2>2
<1>4. CASE StopBringup
  <2>1. UNCHANGED <<time, sentAt>> /\ waited' = 0
    BY <1>4 DEF StopBringup, Interrupt, vars
  <2>2. QED
    BY <1>0, <2>1
<1>5. CASE KillNav \/ KillBringup \/ StragglersGone
  BY <1>5 DEF KillNav, CommanderDies, KillBringup, Kill, StragglersGone, vars, Still
<1>6. CASE UNCHANGED allVars
  BY <1>6 DEF allVars, vars, Still
<1> QED
  BY <1>1, <1>2, <1>3, <1>4, <1>5, <1>6 DEF NextScript, KillStragglers

LEMMA RestInductive == SpecScript => []RestInv
<1>1. InitScript => RestInv
  BY DEF InitScript, Init, RestInv
<1> QED
  BY <1>1, RestStep, ScriptInductive, Inherited, PTL DEF SpecScript

LEMMA PausedLong ==
    ASSUME TypeOK, SilenceStops, ScriptInv, RestInv, LongPause,
           script \in {1, 2}, Paused, "nav" \in obeyed, proc = "up", NEW w \in Wheels
    PROVE  ~Moving(w)
<1> SUFFICES ASSUME Moving(w) PROVE FALSE
  OBVIOUS
<1>1. waited >= Pause
  BY DEF Paused
<1>2. waited <= time - sentAt
  BY DEF RestInv, Still, Moving
<1>3. time - sentAt <= QueueDepth + StopDelay
  BY DEF SilenceStops
<1>4. /\ time \in Nat /\ sentAt \in Nat /\ waited \in Int
      /\ faults \in Nat /\ faults <= MaxFaults
  BY DriveAssumption, PauseAssumption DEF TypeOK, Times, ScriptInv
<1>5. (faults + 1) * (MaxSetback + 1) <= (MaxFaults + 1) * (MaxSetback + 1)
  BY <1>4, DriveAssumption
<1>6. QED
  BY <1>1, <1>2, <1>3, <1>4, <1>5, DriveAssumption, PauseAssumption DEF StopDelay, LongPause

\* If the navigation obeyed, the watchdog has acted before bringup is interrupted,
\* as the script's comment says (stop_pinky.sh:6).
THEOREM WatchdogActsFirst == ASSUME LongPause PROVE SpecScript => WatchdogBeforeInterrupt
<1> DEFINE Rested == TypeOK /\ SilenceStops /\ ScriptInv /\ RestInv
<1>1. ASSUME Rested, script = 1, script' = 2, "nav" \in obeyed, proc = "up", [NextScript]_allVars,
             NEW w \in Wheels
      PROVE  ~Moving(w)
  <2>1. Paused
    BY <1>1 DEF NextScript, ScriptTick, RobotStep, StopNav, StopBringup, KillStragglers, KillNav,
                KillBringup, StragglersGone, allVars, scriptVars
  <2>2. QED
    BY <1>1, <2>1, PausedLong
<1>2. Rested /\ [NextScript]_allVars => [script = 1 /\ script' = 2 /\ "nav" \in obeyed /\ proc = "up"
                                        => \A w \in Wheels : ~Moving(w)]_allVars
  BY <1>1
<1> QED
  BY <1>2, RestInductive, ScriptInductive, Inherited, PTL DEF SpecScript, WatchdogBeforeInterrupt

-----------------------------------------------------------------------------
(***************************************************************************)
(* The end: a bringup that never got its SIGINT and was killed as it ran.  *)
(***************************************************************************)
KilledStill == LongPause /\ "nav" \in obeyed /\ proc = "dead" => \A w \in Wheels : ~Moving(w)

LEMMA KilledStillStep ==
    TypeOK /\ SilenceStops /\ ScriptInv /\ RestInv /\ KilledStill /\ [NextScript]_allVars
        => KilledStill'
<1> SUFFICES ASSUME TypeOK, SilenceStops, ScriptInv, RestInv, KilledStill, [NextScript]_allVars,
                    LongPause, "nav" \in obeyed', proc' = "dead"
             PROVE  \A w \in Wheels : ~Moving(w)'
  BY DEF KilledStill, LongPause
<1> USE DEF worldVars, commanderVars, cmdVars, odomVars, scriptVars
<1>1. ASSUME Still' PROVE \A w \in Wheels : ~Moving(w)'
  BY <1>1 DEF Still, Moving
<1>2. ScriptInv'
  BY ScriptInvStep
<1>3. CASE script' < 2
  BY <1>1, <1>2, <1>3 DEF ScriptInv
<1>4. CASE script' >= 2 /\ proc = "dead"
  <2>1. UNCHANGED motor
    BY <1>4 DEF NextScript, ScriptTick, Tick, RobotStep, SetClock, Command, CommanderDies, Running,
                TwistCallback, UpdateAndPublish, StartUp, Begin, InitMotor, InitialZero, InitialEncoders,
                ShutDown, TerminateZero, TerminateOff, StopNav, StopBringup, Interrupt, KillStragglers,
                KillNav, KillBringup, Kill, StragglersGone, allVars, vars
  <2>2. CASE "nav" \in obeyed
    BY <1>4, <2>1, <2>2 DEF KilledStill, Moving
  <2>3. CASE "nav" \notin obeyed
    <3>1. script' = 1
      BY <2>3 DEF NextScript, ScriptTick, RobotStep, StopNav, StopBringup, KillStragglers, KillNav,
                  KillBringup, StragglersGone, allVars
    <3>2. QED
      BY <1>3, <3>1
  <2>4. QED
    BY <2>2, <2>3
<1>5. CASE script' >= 2 /\ proc # "dead"
  <2>1. CASE KillBringup
    <3>1. UNCHANGED motor /\ "nav" \in obeyed /\ script = 2
      BY <2>1 DEF KillBringup, Kill
    <3>2. CASE proc = "up"
      <4>1. script \in {1, 2} /\ Paused
        BY <2>1, <3>1 DEF KillBringup
      <4>2. \A w \in Wheels : ~Moving(w)
        BY <3>1, <3>2, <4>1, PausedLong
      <4>3. QED
        BY <3>1, <4>2 DEF Moving
    <3>3. CASE proc # "up"
      <4>1. Still
        BY <2>1, <3>3, PauseAssumption DEF KillBringup, Kill, Paused, ScriptInv, Ending
      <4>2. QED
        BY <1>1, <3>1, <4>1 DEF Still
    <3>4. QED
      BY <3>2, <3>3
  <2>2. CASE ~KillBringup
    <3>1. Still
      BY <1>5, <2>2, RobotProc DEF NextScript, ScriptTick, Tick, StopNav, CommanderDies, StopBringup,
                Interrupt, KillStragglers, KillNav, StragglersGone, allVars, vars, ScriptInv
    <3>2. Still'
      BY <1>2, <1>5, <2>2, <3>1, RobotProc, RobotStill DEF NextScript, ScriptTick, Tick, StopNav,
                CommanderDies, StopBringup, Interrupt, KillStragglers, KillNav, StragglersGone,
                allVars, vars, ScriptInv, Still
    <3>3. QED
      BY <1>1, <3>2
  <2>3. QED
    BY <2>1, <2>2
<1> QED
  BY <1>2, <1>3, <1>4, <1>5 DEF ScriptInv

LEMMA KilledStillInductive == SpecScript => []KilledStill
<1>1. InitScript => KilledStill
  BY DEF InitScript, KilledStill
<1> QED
  BY <1>1, KilledStillStep, RestInductive, ScriptInductive, Inherited, PTL DEF SpecScript

\* When the script is done the wheels stand, unless two transmissions were lost, if
\* one of its two SIGINTs arrived: the bringup's, by which terminate() zeroes the
\* goals and takes the torque off, or the navigation's, by the watchdog.
THEOREM ScriptStopsSafely == ASSUME LongPause PROVE SpecScript => []SafeStop
<1>1. ScriptInv /\ OrderlyExitStops /\ KilledStill => SafeStop
  BY DEF ScriptInv, OrderlyExitStops, SafeStop, KilledStill, Still, Moving
<1> QED
  BY <1>1, ScriptInductive, KilledStillInductive, Inherited, PTL
=============================================================================
