------------------------------ MODULE LampProofs ------------------------------
(***************************************************************************)
(* Proofs about the lamp node, for all requests.                           *)
(***************************************************************************)
EXTENDS Lamp, TLAPS

\* All that matters of the longest time is that it is long enough for a fade.
LEMMA MaxTimeNat == MaxTime \in Nat /\ MaxTime >= 1000
BY DEF MaxTime

\* What a step of the fade leads to: an index no brighter than the colour.
LEMMA DimBounds ==
    ASSUME TypeOK, Dim
    PROVE  /\ index' \in 0..100 /\ dir' \in {0, 1}
           /\ shown' \in 0..fade
<1>1. PICK i \in MovedTo :
          \/ TurnsUp(i) /\ index' = 0 /\ dir' = 0
          \/ ~TurnsUp(i) /\ TooBright(i) /\ index' = Top /\ dir' = 1
          \/ ~TurnsUp(i) /\ ~TooBright(i) /\ index' = i /\ dir' = dir
  BY DEF Dim
<1>2. i \in Int
  <2>1. i \in Int16
    BY UndefinedAssumption DEF MovedTo
  <2> QED
    BY <2>1 DEF Int16
<1>3. fade \in 0..255 /\ dir \in {0, 1}
  BY DEF TypeOK, Full
<1>4. Top \in 0..100 /\ Top * 255 <= fade * 100
  BY <1>3 DEF Top, Full
<1>5. index' \in 0..100 /\ index' * 255 <= fade * 100 /\ dir' \in {0, 1}
  BY <1>1, <1>2, <1>3, <1>4 DEF TurnsUp, TooBright, Full
<1>6. (index' * 255) \div 100 \in 0..fade
  <2>1. ASSUME NEW x \in Nat, NEW f \in Nat, x * 255 <= f * 100
        PROVE  (x * 255) \div 100 \in 0..f
    BY <2>1
  <2>2. index' \in Nat
    BY <1>5
  <2>3. fade \in Nat
    BY <1>3
  <2>4. index' * 255 <= fade * 100
    BY <1>5
  <2> HIDE <1>1, <1>2, <1>3, <1>4, <1>5
  <2> QED
    BY <2>1, <2>2, <2>3, <2>4
<1> QED
  BY <1>5, <1>6 DEF Dim, Brightness, Full

LEMMA TypeStep ==
    ASSUME TypeOK, [Next]_vars
    PROVE  TypeOK'
<1> USE DEF TypeOK, Full
<1>1. CASE SetLamp
  BY <1>1, RequestAssumption, MaxTimeNat DEF SetLamp, Request
<1>2. CASE TimerCallback
  <2>1. CASE Steady
    BY <1>2, <2>1 DEF TimerCallback, Steady
  <2>2. CASE Unknown
    BY <1>2, <2>2 DEF TimerCallback, Unknown
  <2>3. CASE Blink
    <3>1. CASE (index + 1) * 10 > time
      BY <1>2, <2>3, <3>1, MaxTimeNat DEF TimerCallback, Blink, Restart
    <3>2. CASE ~((index + 1) * 10 > time)
      <4>1. (index + 1) * 10 <= MaxTime
        BY <3>2, MaxTimeNat
      <4>2. index + 1 \in Nat
        OBVIOUS
      <4> QED
        BY <1>2, <2>3, <3>2, <4>1, <4>2 DEF TimerCallback, Blink
    <3> QED
      BY <3>1, <3>2
  <2>4. CASE Dim
    <3>1. index' \in 0..100 /\ dir' \in {0, 1} /\ shown' \in 0..fade
      BY <2>4, DimBounds
    <3>2. shown' \in 0..Full
      BY <3>1
    <3>3. index' \in Nat /\ index' * 10 <= MaxTime
      <4> HIDE DEF TypeOK
      <4>1. ASSUME NEW x \in 0..100, NEW most \in Nat, most >= 1000
            PROVE  x \in Nat /\ x * 10 <= most
        BY <4>1
      <4>2. index' \in 0..100
        BY <3>1
      <4> QED
        BY <4>1, <4>2, MaxTimeNat
    <3> QED
      BY <1>2, <2>4, <3>1, <3>2, <3>3 DEF TimerCallback, Dim
  <2> QED
    BY <1>2, <2>1, <2>2, <2>3, <2>4 DEF TimerCallback
<1>3. CASE UNCHANGED vars
  BY <1>3 DEF vars
<1> QED
  BY <1>1, <1>2, <1>3 DEF Next

\* The variables keep their types; in particular the index never grows to where
\* ten times it no longer is a time.
THEOREM TypeCorrect == Spec => []TypeOK
<1>1. Init => TypeOK
  BY MaxTimeNat DEF Init, TypeOK, Full
<1> QED
  BY <1>1, TypeStep, PTL DEF Spec

\* A fading lamp is never brighter than the colour asked for.
THEOREM FadeBounded == Spec => NeverBrighter
<1>1. TypeOK /\ [Next]_vars => [mode = 3 /\ TimerCallback => shown' <= fade]_vars
  <2> SUFFICES ASSUME TypeOK, mode = 3, TimerCallback
               PROVE  shown' <= fade
    OBVIOUS
  <2>1. Dim
    BY DEF TimerCallback, Steady, Unknown, Blink
  <2> QED
    BY <2>1, DimBounds DEF TypeOK, Full
<1> QED
  BY <1>1, TypeCorrect, PTL DEF Spec, NeverBrighter

\* While the lamp blinks the index counts the ticks of the phase, and a phase
\* that is not over is no longer than the time asked for.
PhaseCounted == mode = 2 => since = index /\ index * 10 <= time

LEMMA PhaseStep ==
    ASSUME TypeOK, PhaseCounted, [Next]_vars
    PROVE  PhaseCounted'
<1> USE DEF PhaseCounted, TypeOK
<1>1. CASE SetLamp
  BY <1>1, RequestAssumption DEF SetLamp, Request
<1>2. CASE TimerCallback
  <2>1. CASE Blink
    BY <1>2, <2>1 DEF TimerCallback, Blink, Restart
  <2>2. CASE mode # 2
    BY <1>2, <2>2 DEF TimerCallback
  <2> QED
    BY <1>2, <2>1, <2>2 DEF TimerCallback, Steady, Unknown, Dim
<1>3. CASE UNCHANGED vars
  BY <1>3 DEF vars
<1> QED
  BY <1>1, <1>2, <1>3 DEF Next

\* A blinking lamp is dark for as long as it is lit.
THEOREM BlinkEven == Spec => EvenBlink
<1>1. Init => PhaseCounted
  BY DEF Init, PhaseCounted
<1>2. TypeOK /\ PhaseCounted /\ [Next]_vars
          => [mode = 2 /\ shown' # shown => since = time \div 10]_vars
  <2> SUFFICES ASSUME TypeOK, PhaseCounted, Next, mode = 2, shown' # shown
               PROVE  since = time \div 10
    BY DEF vars
  <2>1. Blink
    BY DEF Next, SetLamp, TimerCallback, Steady, Unknown, Dim
  <2>2. (index + 1) * 10 > time
    BY <2>1 DEF Blink
  <2> QED
    BY <2>2 DEF PhaseCounted, TypeOK
<1> QED
  BY <1>1, <1>2, TypeCorrect, PhaseStep, PTL DEF Spec, EvenBlink
=============================================================================
