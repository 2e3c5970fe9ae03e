------------------------------ MODULE StopPinky ------------------------------
(***************************************************************************)
(* stop_pinky.sh, the script that stops the whole stack, composed with the *)
(* drive base.  Its order is to be safe by design for the motors: SIGINT   *)
(* to the navigation, a pause, SIGINT to the bringup, a pause, SIGKILL to  *)
(* whatever is left.  The signals and the launch of DriveBase are the      *)
(* script's here; everything else of DriveBase goes on meanwhile.          *)
(***************************************************************************)
EXTENDS DriveBase

CONSTANT Pause   \* the script's sleep between two signals, in ticks

ASSUME PauseAssumption == Pause \in Nat \ {0}

VARIABLES
    script,   \* how far the script has come: 0 (not started) to 3 (done)
    waited,   \* ticks since its last signal, up to Pause
    obeyed    \* history: which of the two its SIGINT reached

scriptVars == <<script, waited, obeyed>>
allVars == <<vars, scriptVars>>

InitScript == Init /\ script = 0 /\ waited = 0 /\ obeyed = {}

MutantNoPause == TRUE
MutantShortPause == waited >= Timeout
Paused == waited >= Pause

\* pkill -INT names the launch of the navigation and that of the bringup.  A
\* launch hands the signal on to its nodes, or hangs (external).
StopNav ==
    /\ script = 0
    /\ script' = 1 /\ waited' = 0
    /\ \/ (CommanderDies \/ (~navUp /\ UNCHANGED vars)) /\ obeyed' = {"nav"}
       \/ UNCHANGED <<vars, obeyed>>

StopBringup ==
    /\ script = 1 /\ Paused
    /\ script' = 2 /\ waited' = 0
    /\ \/ Interrupt /\ obeyed' = obeyed \union {"bringup"}
       \/ UNCHANGED <<vars, obeyed>>

\* pkill -9 goes through the stragglers one by one, in any order, and the script
\* is done when none is left.
KillNav ==
    /\ script = 2 /\ Paused
    /\ CommanderDies
    /\ UNCHANGED scriptVars

KillBringup ==
    /\ script = 2 /\ Paused
    /\ Kill
    /\ UNCHANGED scriptVars

StragglersGone ==
    /\ script = 2 /\ Paused
    /\ ~navUp /\ proc \in {"exited", "dead"}
    /\ script' = 3 /\ waited' = 0
    /\ UNCHANGED <<vars, obeyed>>

\* terminate() takes a fraction of the script's pause.
ScriptTick ==
    /\ Tick
    /\ proc \in {"exitZero", "exitOff"} => waited + 1 < Pause
    /\ waited' = IF waited < Pause THEN waited + 1 ELSE waited
    /\ UNCHANGED <<script, obeyed>>

RobotStep ==
    /\ SetClock \/ Command \/ CommanderDies \/ Running \/ StartUp \/ ShutDown
    /\ UNCHANGED scriptVars

KillStragglers == KillNav \/ KillBringup \/ StragglersGone

NextScript == ScriptTick \/ RobotStep \/ StopNav \/ StopBringup \/ KillStragglers

SpecScript == InitScript /\ [][NextScript]_allVars

-----------------------------------------------------------------------------
\* When the script is done no wheel turns, unless two transmissions were lost, if
\* the SIGINT reached the navigation or the bringup: a navigation that hung and
\* commanded the robot to the end is no danger if the bringup obeyed, nor a
\* bringup that is killed as it runs if the navigation did.
SafeStop == script = 3 /\ obeyed # {} /\ (\E w \in Wheels : Moving(w)) => faults >= 2

\* The first pause is long enough: a navigation that obeyed its SIGINT leaves
\* nothing in the queue or in the motors, so that the watchdog has stopped the
\* wheels before the bringup is interrupted.
WatchdogBeforeInterrupt ==
    [][script = 1 /\ script' = 2 /\ "nav" \in obeyed /\ proc = "up"
           => \A w \in Wheels : ~Moving(w)]_allVars
=============================================================================
