--------------------------------- MODULE Lamp ---------------------------------
(***************************************************************************)
(* The lamp node, pinky_lamp_control: a service that sets colour, mode and *)
(* time, and a timer that turns the lamp on or off, blinks it or fades it  *)
(* up and down.  Both run on one thread: each is one step.                 *)
(*                                                                         *)
(* Of a colour only its brightness is kept, its largest component: fading  *)
(* goes through HSV and keeps the hue.  The fade counts in hundredths of   *)
(* full brightness, in a 16-bit integer to which a double is added: the    *)
(* truncation, and what the rounding of the double does to it, are kept.   *)
(***************************************************************************)
EXTENDS Integers

CONSTANTS
    Requests,    \* set_lamp requests: brightness, mode and time in ms
    Undefined    \* what a double beyond 16 bits may be converted to

Full == 255
Int16 == -32768 .. 32767
MaxTime == 65535
Request == [level : 0..Full, mode : 0..255, time : 0..MaxTime]

ASSUME RequestAssumption == Requests \subseteq Request
ASSUME UndefinedAssumption == Undefined \subseteq Int16 /\ Undefined # {}

VARIABLES
    mode,     \* current_mode_: 0 off, 1 on, 2 blink, 3 dimming, else nothing
    time,     \* current_time_
    level,    \* brightness of goal_r_, goal_g_, goal_b_
    fade,     \* goal_v_, in units of 1 / Full: set by requests of mode 3 only
    index,    \* time_index_
    dir,      \* current_dir_
    shown,    \* brightness of the lamp
    since     \* history: ticks of this phase of the blinking

vars == <<mode, time, level, fade, index, dir, shown, since>>

Init ==
    /\ mode = 3 /\ time = 1000 /\ level = Full /\ fade = Full
    /\ index = 0 /\ dir = 0 /\ shown = 0 /\ since = 0

-----------------------------------------------------------------------------
\* callback_set_lamp.  The lamp itself changes at the next tick.
SetLamp ==
    /\ \E r \in Requests :
          /\ mode' = r.mode /\ time' = r.time /\ level' = r.level
          /\ fade' = IF r.mode = 3 THEN r.level ELSE fade
    /\ index' = 0 /\ dir' = 0 /\ since' = 0
    /\ UNCHANGED shown

Steady ==
    /\ mode \in {0, 1}
    /\ shown' = IF mode = 1 THEN level ELSE 0
    /\ since' = 0
    /\ UNCHANGED <<index, dir>>

\* A mode nobody knows keeps what is shown.
Unknown == mode > 3 /\ since' = 0 /\ UNCHANGED <<index, dir, shown>>

\* The phase is over: the next one starts to count from the start.
MutantRestart == index + 1
Restart == 0

Blink ==
    /\ mode = 2
    /\ IF (index + 1) * 10 > time
       THEN /\ index' = Restart
            /\ dir' = 1 - dir
            /\ shown' = IF dir = 0 THEN level ELSE 0
            /\ since' = 0
       ELSE index' = index + 1 /\ since' = since + 1 /\ UNCHANGED <<dir, shown>>

\* One step of the fade is the fraction StepNum / StepDen of a hundredth.
StepNum == 1000 * fade
StepDen == Full * time
\* goal_v_ comes from a division of floats.  Where it matters, at the multiples
\* of a fifth below 1, it is rounded up: the step is then a little larger.
RoundedUp == IF fade \in {0, Full} THEN 0 ELSE 1
\* Conversion to an integer drops the fraction, toward zero.
Trunc(a, b) == IF a < 0 THEN -((-a) \div b) ELSE a \div b

Moved ==
    IF dir = 0 THEN Trunc(2 * (index * StepDen + StepNum) + RoundedUp, 2 * StepDen)
    ELSE Trunc(2 * (index * StepDen - StepNum) - RoundedUp, 2 * StepDen)

\* Dividing by a time of zero gives an infinity or no number at all.
MovedTo == IF time # 0 /\ Moved \in Int16 THEN {Moved} ELSE Undefined

Top == (fade * 100) \div Full
MutantTooBright(i) == i > 100
TooBright(i) == i * Full > fade * 100
MutantTurnsUp(i) == i = 0
TurnsUp(i) == i < 0

\* The brightness of the colour that HSVtoRGB makes of the index; the rounding of
\* its doubles can only take one from the result.
Brightness(i) == (i * Full) \div 100

Dim ==
    /\ mode = 3
    /\ \E i \in MovedTo :
          \/ /\ TurnsUp(i)
             /\ index' = 0 /\ dir' = 0
          \/ /\ ~TurnsUp(i) /\ TooBright(i)
             /\ index' = Top /\ dir' = 1
          \/ /\ ~TurnsUp(i) /\ ~TooBright(i)
             /\ index' = i /\ dir' = dir
    /\ shown' = Brightness(index')
    /\ since' = 0

\* timer_callback: the target colour, which is then sent to every lamp.
TimerCallback ==
    /\ Steady \/ Unknown \/ Blink \/ Dim
    /\ UNCHANGED <<mode, time, level, fade>>

Next == SetLamp \/ TimerCallback

Spec == Init /\ [][Next]_vars

\* The timer goes on; nobody has to send a request.
FairSpec == Spec /\ WF_vars(TimerCallback)

-----------------------------------------------------------------------------
(***************************************************************************)
(* Properties.                                                             *)
(***************************************************************************)
\* Every variable has the type its declaration gives it; the index stays where
\* ten times it is still a time.
TypeOK ==
    /\ mode \in 0..255 /\ time \in 0..MaxTime /\ level \in 0..Full
    /\ fade \in 0..Full /\ index \in Nat /\ index * 10 <= MaxTime /\ dir \in {0, 1}
    /\ shown \in 0..Full /\ since \in Nat

\* A fading lamp is never brighter than the colour that was asked for, whatever
\* it showed before and even while its step is undefined.
NeverBrighter == [][mode = 3 /\ TimerCallback => shown' <= fade]_vars

\* A blinking lamp is dark for as long as it is lit: a tick longer than the time
\* asked for, in whole ticks.
EvenBlink == [][mode = 2 /\ shown' # shown => since = time \div 10]_vars

\* A fade that is fast enough goes all the way up, and all the way down, over
\* and over, when no more requests come.
Fast == time > 0 /\ fade > 0 /\ StepNum >= StepDen
LeftAlone == <>[][TimerCallback]_vars
FadesUpAndDown ==
    LeftAlone /\ <>[](mode = 3 /\ Fast) => []<>(index = Top) /\ []<>(index = 0)
=============================================================================
