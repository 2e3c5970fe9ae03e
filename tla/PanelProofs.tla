------------------------------ MODULE PanelProofs ------------------------------
(***************************************************************************)
(* What holds of the two halves of the web panel for every value of their  *)
(* constants.                                                              *)
(*                                                                         *)
(* Gestures on the map (MapClick): DragSent rests on what holds from the   *)
(* press on the map to the release: the drag is under way and its start is *)
(* that press, as long as nothing awaited has come back (HeldInv).         *)
(*                                                                         *)
(* The server's copy of "is it navigating" (NavPanel): the message waiting *)
(* for it or else its flag agrees with the robot, because guesses come of  *)
(* clicks only and every change is followed by a message (ToldInv).        *)
(***************************************************************************)
EXTENDS MapClick, TLAPS

CONSTANTS WebGoals, OtherGoals, Threads, Polls, MaxStops, MaxCrashes
VARIABLES up, goal, cancels, topic, flag, thread, poll, shown, stops, crashes
Nav == INSTANCE NavPanel

-----------------------------------------------------------------------------
\* The answer to a pose takes the page back to the goal mode, so a second pose
\* needs the mode picked again (clickMode after the await).
THEOREM PoseOnce == Spec => []SinglePose
<1>1. Init => SinglePose
  BY DEF Init, SinglePose
<1>2. SinglePose /\ [Next]_vars => SinglePose'
  BY DEF SinglePose, Next, vars, pageVars, historyVars, FetchState, SetClickMode, PointerDown, PointerUp,
         ReleaseElsewhere, PointerCancel, Answered, ModeAfter
<1> QED
  BY <1>1, <1>2, PTL DEF Spec

-----------------------------------------------------------------------------
HeldInv ==
    /\ drags \in 0..MaxDrags /\ pressed \in Drags \union {None}
    /\ DOMAIN request = Drags
    /\ pressed # None /\ aimed /\ ~cut => dragging /\ start = pressed

LEMMA HeldInit == Init => HeldInv
  BY BoundAssumption DEF Init, HeldInv

LEMMA HeldStep == HeldInv /\ [Next]_vars => HeldInv'
<1> SUFFICES ASSUME HeldInv, [Next]_vars PROVE HeldInv'
  OBVIOUS
<1> USE DEF HeldInv, pageVars, historyVars
<1>1. CASE FetchState
  BY <1>1 DEF FetchState
<1>2. CASE \E m \in Modes : SetClickMode(m)
  BY <1>2 DEF SetClickMode
<1>3. CASE PointerDown
  BY <1>3, BoundAssumption DEF PointerDown, Starts, Drags, None
<1>4. CASE PointerUp
  BY <1>4 DEF PointerUp
<1>5. CASE ReleaseElsewhere \/ PointerCancel
  BY <1>5 DEF ReleaseElsewhere, PointerCancel
<1>6. CASE \E d \in Drags : Answered(d)
  BY <1>6 DEF Answered
<1>7. CASE UNCHANGED vars
  BY <1>7 DEF vars
<1> QED
  BY <1>1, <1>2, <1>3, <1>4, <1>5, <1>6, <1>7 DEF Next

\* A drag on the map is sent from its own press in the mode that shows at its
\* release (the pointerup handler), unless an answer comes while it is held.
THEOREM DragIsSent == Spec => DragSent
<1>1. ASSUME HeldInv, PointerUp, aimed, map, ~cut
      PROVE request'[pressed] = [state |-> "sent", endpoint |-> mode, start |-> pressed]
  <2>1. dragging /\ start = pressed /\ pressed # None /\ pressed \in Drags
    BY <1>1 DEF PointerUp, HeldInv
  <2> QED
    BY <1>1, <2>1 DEF PointerUp, HeldInv, Sends
<1>2. HeldInv /\ [Next]_vars =>
        [PointerUp /\ aimed /\ map /\ ~cut =>
            request'[pressed] = [state |-> "sent", endpoint |-> mode, start |-> pressed]]_vars
  BY <1>1
<1> QED
  BY <1>2, HeldInit, HeldStep, PTL DEF Spec, DragSent

-----------------------------------------------------------------------------
(***************************************************************************)
(* The server's flag.                                                      *)
(***************************************************************************)
\* Where a goal can be in its life, and what a Flask thread can be doing.
GoalStates == {"new", "clicked", "sent", "executing", "canceling", "ended", "gone"}
Jobs ==
    [op : {"idle", "stop"}] \cup [op : {"goal"}, goal : WebGoals] \cup [op : {"mark"}, value : BOOLEAN]
PanelTypes ==
    /\ goal \in [Nav!Goals -> GoalStates] /\ thread \in [Threads -> Jobs]
    /\ cancels \in Nat /\ stops \in Nat /\ crashes \in Nat

\* A guess that the robot rests, and a cancel request, come of a click on Stop; a guess
\* that it drives comes of a goal sent from the page.
Guesses ==
    /\ stops = 0 => cancels = 0 /\ \A t \in Threads :
          thread[t].op # "stop" /\ (thread[t].op = "mark" => thread[t].value)
    /\ (\A g \in WebGoals : goal[g] = "new") => \A t \in Threads :
          thread[t].op # "goal" /\ (thread[t].op = "mark" => ~thread[t].value)

\* The topic keeps the last status message only.
Latest == \A m1, m2 \in topic : m1 = m2

ToldInv == PanelTypes /\ Guesses /\ Latest /\ Nav!DrivingTold /\ Nav!RestTold

\* A status message just published says whether the robot drives.
LEMMA PublishedIsTrue ==
    ASSUME Nav!Publish
    PROVE  Latest' /\ (Nav!Told' <=> Nav!Driving')
<1> DEFINE listed == {h \in Nav!Goals : goal'[h] \notin {"new", "sent", "gone"}}
           m == [g \in listed |-> goal'[g]]
<1>1. topic' = {m}
  BY DEF Nav!Publish
<1>2. DOMAIN m = listed /\ \A g \in listed : m[g] = goal'[g]
  OBVIOUS
<1>3. Nav!Navigating(m) <=> \E g \in listed : goal'[g] = "executing"
  BY <1>2 DEF Nav!Navigating
<1>4. Nav!Driving' <=> \E g \in listed : goal'[g] = "executing"
  BY DEF Nav!Driving
<1> HIDE DEF m, listed
<1>5. topic' # Nav!NoMsg
  BY <1>1 DEF Nav!NoMsg
<1>6. QED
  BY <1>1, <1>3, <1>4, <1>5 DEF Latest, Nav!Told, Nav!Navigating

\* What the server was told stays when no message comes or goes and no flag is written.
LEMMA ToldKept ==
    ASSUME UNCHANGED <<topic, flag>>
    PROVE  (Latest => Latest') /\ (Nav!Told' <=> Nav!Told)
BY DEF Latest, Nav!Told, Nav!Navigating, Nav!NoMsg

LEMMA ToldInitially == Nav!Init => ToldInv
BY DEF Nav!Init, ToldInv, PanelTypes, Guesses, Latest, Nav!DrivingTold, Nav!RestTold, Nav!Told, Nav!Driving,
       Nav!NoMsg, Nav!Idle, GoalStates, Jobs

LEMMA TypesKept == PanelTypes /\ [Nav!Next]_Nav!vars => PanelTypes'
<1> SUFFICES ASSUME PanelTypes, [Nav!Next]_Nav!vars PROVE PanelTypes'
  OBVIOUS
<1> USE DEF PanelTypes, GoalStates, Jobs
<1>1. CASE Nav!Server
  <2>1. cancels' \in Nat /\ crashes' \in Nat /\ UNCHANGED <<stops, thread>>
    BY <1>1 DEF Nav!Server, Nav!OtherGoal, Nav!Accept, Nav!Reject, Nav!Finish, Nav!NavDies, Nav!NavStarts,
                Nav!ProcessCancel
  <2>2. goal' \in [Nav!Goals -> GoalStates]
    <3>1. ASSUME NEW g \in Nav!Goals, NEW st \in GoalStates, goal' = [goal EXCEPT ![g] = st]
          PROVE  goal' \in [Nav!Goals -> GoalStates]
      BY <3>1
    <3>2. CASE \/ \E g \in OtherGoals : Nav!OtherGoal(g)
               \/ \E g \in Nav!Goals : Nav!Accept(g) \/ Nav!Reject(g) \/ Nav!Finish(g)
      BY <3>1, <3>2 DEF Nav!OtherGoal, Nav!Accept, Nav!Reject, Nav!Finish, Nav!Goals
    <3>3. CASE Nav!NavDies
      BY <3>3 DEF Nav!NavDies
    <3>4. CASE Nav!NavStarts
      BY <3>4 DEF Nav!NavStarts
    <3>5. CASE Nav!ProcessCancel
      BY <3>5 DEF Nav!ProcessCancel
    <3>6. QED
      BY <1>1, <3>2, <3>3, <3>4, <3>5 DEF Nav!Server
  <2>3. QED
    BY <2>1, <2>2
<1>2. ASSUME NEW t \in Threads, Nav!SendGoal(t) \/ Nav!CancelGoal(t) \/ Nav!Mark(t)
      PROVE  PanelTypes'
  <2>1. /\ Nav!Idle \in Jobs
        /\ [op |-> "mark", value |-> TRUE] \in Jobs /\ [op |-> "mark", value |-> FALSE] \in Jobs
    BY DEF Nav!Idle
  <2>2. thread[t] \in Jobs
    OBVIOUS
  <2>3. CASE Nav!SendGoal(t)
    <3>1. thread[t].goal \in Nav!Goals
      <4>1. thread[t].op = "goal"
        BY <2>3 DEF Nav!SendGoal
      <4>2. QED
        BY <2>2, <4>1 DEF Nav!Goals
    <3> HIDE DEF Jobs, GoalStates
    <3>2. thread' \in [Threads -> Jobs]
      BY <2>1, <2>3 DEF Nav!SendGoal
    <3>3. goal' \in [Nav!Goals -> GoalStates]
      BY <2>3, <3>1 DEF Nav!SendGoal, GoalStates
    <3>4. QED
      BY <2>3, <3>2, <3>3 DEF Nav!SendGoal
  <2>4. CASE Nav!CancelGoal(t) \/ Nav!Mark(t)
    <3>1. UNCHANGED <<goal, stops, crashes>> /\ (cancels' = cancels \/ cancels' = cancels + 1)
      BY <2>4 DEF Nav!CancelGoal, Nav!Mark, Nav!CancelRequests, Nav!serverVars
    <3>2. \E job \in Jobs : thread' = [thread EXCEPT ![t] = job]
      <4> HIDE DEF Jobs
      <4>1. QED
        BY <2>1, <2>4 DEF Nav!CancelGoal, Nav!Mark
    <3> HIDE DEF Jobs, GoalStates
    <3>3. QED
      BY <3>1, <3>2
  <2>5. QED
    BY <1>2, <2>3, <2>4
<1>3. CASE Nav!Browser
  BY <1>3 DEF Nav!Browser, Nav!ClickGoal, Nav!ClickStop, Nav!Poll, Nav!serverVars, Nav!Goals
<1>4. CASE Nav!Answer \/ Nav!NavStatusCallback
  BY <1>4 DEF Nav!Answer, Nav!Snapshot, Nav!Answered, Nav!NavStatusCallback, Nav!serverVars
<1>5. CASE UNCHANGED Nav!vars
  BY <1>5 DEF Nav!vars, Nav!serverVars
<1>6. QED
  BY <1>1, <1>2, <1>3, <1>4, <1>5 DEF Nav!Next, Nav!Flask

\* The histories only grow, and a goal that was sent is never new again.
LEMMA HistoryGrows ==
    ASSUME PanelTypes, [Nav!Next]_Nav!vars
    PROVE  /\ stops' = 0 => stops = 0
           /\ crashes' = 0 => crashes = 0
           /\ (\A g \in WebGoals : goal'[g] = "new") => \A g \in WebGoals : goal[g] = "new"
<1>1. stops' = 0 => stops = 0
  BY DEF PanelTypes, Nav!Next, Nav!vars, Nav!serverVars, Nav!Server, Nav!OtherGoal, Nav!Accept, Nav!Reject,
         Nav!Finish, Nav!NavDies, Nav!NavStarts, Nav!ProcessCancel, Nav!Flask, Nav!SendGoal, Nav!CancelGoal,
         Nav!Mark, Nav!Browser, Nav!ClickGoal, Nav!ClickStop, Nav!Poll, Nav!Answer, Nav!Snapshot,
         Nav!Answered, Nav!NavStatusCallback
<1>2. crashes' = 0 => crashes = 0
  BY DEF PanelTypes, Nav!Next, Nav!vars, Nav!serverVars, Nav!Server, Nav!OtherGoal, Nav!Accept, Nav!Reject,
         Nav!Finish, Nav!NavDies, Nav!NavStarts, Nav!ProcessCancel, Nav!Flask, Nav!SendGoal, Nav!CancelGoal,
         Nav!Mark, Nav!Browser, Nav!ClickGoal, Nav!ClickStop, Nav!Poll, Nav!Answer, Nav!Snapshot,
         Nav!Answered, Nav!NavStatusCallback
<1>3. ASSUME NEW g \in Nav!Goals, goal'[g] = "new"
      PROVE  goal[g] = "new"
  <2>1. goal \in [Nav!Goals -> GoalStates]
    BY DEF PanelTypes
  <2>2. ASSUME NEW h \in Nav!Goals, NEW st, st # "new", goal' = [goal EXCEPT ![h] = st]
        PROVE  goal[g] = "new"
    BY <1>3, <2>1, <2>2
  <2>3. CASE \/ \E h \in OtherGoals : Nav!OtherGoal(h)
             \/ \E h \in Nav!Goals : Nav!Accept(h) \/ Nav!Reject(h) \/ Nav!Finish(h)
             \/ \E h \in WebGoals : Nav!ClickGoal(h)
    BY <2>2, <2>3 DEF Nav!OtherGoal, Nav!Accept, Nav!Reject, Nav!Finish, Nav!ClickGoal, Nav!Goals
  <2>4. CASE \E t \in Threads : Nav!SendGoal(t)
    <3>1. PICK t \in Threads : Nav!SendGoal(t)
      BY <2>4
    <3>2. thread[t].goal \in Nav!Goals
      BY <3>1 DEF PanelTypes, Jobs, Nav!SendGoal, Nav!Goals
    <3>3. QED
      BY <2>2, <3>1, <3>2 DEF Nav!SendGoal
  <2>5. CASE Nav!NavDies \/ Nav!ProcessCancel
    BY <1>3, <2>1, <2>5 DEF Nav!NavDies, Nav!ProcessCancel
  <2>6. CASE \/ Nav!NavStarts \/ Nav!NavStatusCallback \/ Nav!ClickStop \/ Nav!Poll \/ Nav!Answer
             \/ \E t \in Threads : Nav!CancelGoal(t) \/ Nav!Mark(t)
             \/ UNCHANGED Nav!vars
    BY <1>3, <2>6 DEF Nav!NavStarts, Nav!NavStatusCallback, Nav!ClickStop, Nav!Poll, Nav!Answer, Nav!Snapshot,
          Nav!Answered, Nav!CancelGoal, Nav!Mark, Nav!vars, Nav!serverVars
  <2>7. QED
    BY <2>3, <2>4, <2>5, <2>6 DEF Nav!Next, Nav!Server, Nav!Flask, Nav!Browser
<1>4. QED
  BY <1>1, <1>2, <1>3 DEF Nav!Goals

LEMMA GuessesKept == PanelTypes /\ Guesses /\ [Nav!Next]_Nav!vars => Guesses'
<1> SUFFICES ASSUME PanelTypes, Guesses, [Nav!Next]_Nav!vars PROVE Guesses'
  OBVIOUS
<1> DEFINE Drives(job) == job.op # "stop" /\ (job.op = "mark" => job.value)
           Rests(job) == job.op # "goal" /\ (job.op = "mark" => ~job.value)
           AllNew == \A g \in WebGoals : goal[g] = "new"
<1>1. thread \in [Threads -> Jobs] /\ cancels \in Nat /\ stops \in Nat
  BY DEF PanelTypes
<1>2. /\ stops = 0 => cancels = 0 /\ \A t \in Threads : Drives(thread[t])
      /\ AllNew => \A t \in Threads : Rests(thread[t])
  BY DEF Guesses
<1>3. (stops' = 0 => stops = 0) /\ (AllNew' => AllNew)
  BY HistoryGrows
<1>4. /\ Drives([op |-> "mark", value |-> TRUE]) /\ Rests([op |-> "mark", value |-> FALSE])
      /\ Drives(Nav!Idle) /\ Rests(Nav!Idle) /\ Rests([op |-> "stop"])
      /\ \A g \in WebGoals : Drives([op |-> "goal", goal |-> g])
      /\ \A job : (job.op = "stop" => ~Drives(job)) /\ (job.op = "goal" => ~Rests(job))
  BY DEF Nav!Idle
<1> DEFINE Kept == /\ stops' = 0 => cancels' = 0 /\ \A t \in Threads : Drives(thread'[t])
                   /\ AllNew' => \A t \in Threads : Rests(thread'[t])
<1> SUFFICES Kept
  BY DEF Guesses
<1>5. ASSUME NEW t \in Threads, NEW job, thread' = [thread EXCEPT ![t] = job],
             stops' = 0 => cancels' = cancels /\ Drives(job), AllNew' => Rests(job)
      PROVE  Kept
  <2> HIDE DEF Drives, Rests, AllNew
  <2>1. thread'[t] = job /\ \A u \in Threads \ {t} : thread'[u] = thread[u]
    BY <1>1, <1>5
  <2>2. QED
    BY <1>2, <1>3, <1>5, <2>1
<1>6. CASE thread' = thread /\ (cancels > 0 \/ cancels' = cancels \/ cancels' = 0)
  <2>1. stops = 0 => cancels' = 0
    BY <1>1, <1>2, <1>6
  <2>2. QED
    BY <1>2, <1>3, <1>6, <2>1
<1>7. CASE \/ Nav!Server \/ Nav!Poll \/ Nav!Answer \/ Nav!NavStatusCallback \/ UNCHANGED Nav!vars
  <2>1. thread' = thread /\ (cancels > 0 \/ cancels' = cancels \/ cancels' = 0)
    BY <1>7 DEF Nav!Server, Nav!OtherGoal, Nav!Accept, Nav!Reject, Nav!Finish, Nav!NavDies, Nav!NavStarts,
                Nav!ProcessCancel, Nav!Poll, Nav!Answer, Nav!Snapshot, Nav!Answered, Nav!NavStatusCallback,
                Nav!vars, Nav!serverVars
  <2>2. QED
    BY <1>6, <2>1
<1> HIDE DEF Drives, Rests, AllNew
<1>8. ASSUME NEW t \in Threads, Nav!SendGoal(t)
      PROVE  Kept
  <2>1. thread[t].op = "goal" /\ UNCHANGED cancels
        /\ \E job \in {Nav!Idle, [op |-> "mark", value |-> TRUE]} : thread' = [thread EXCEPT ![t] = job]
    BY <1>8 DEF Nav!SendGoal
  <2>2. ~AllNew'
    BY <1>2, <1>3, <1>4, <2>1
  <2>3. QED
    BY <1>4, <1>5, <2>1, <2>2
<1>9. ASSUME NEW t \in Threads, Nav!CancelGoal(t)
      PROVE  Kept
  <2>1. thread[t].op = "stop"
        /\ \E job \in {Nav!Idle, [op |-> "mark", value |-> FALSE]} : thread' = [thread EXCEPT ![t] = job]
    BY <1>9 DEF Nav!CancelGoal
  <2>2. stops' # 0
    BY <1>2, <1>3, <1>4, <2>1
  <2>3. QED
    BY <1>4, <1>5, <2>1, <2>2
<1>10. ASSUME NEW t \in Threads, Nav!Mark(t)
       PROVE  Kept
  BY <1>4, <1>5, <1>10 DEF Nav!Mark, Nav!serverVars
<1>11. ASSUME NEW g \in WebGoals, Nav!ClickGoal(g)
       PROVE  Kept
  <2>1. PICK t \in Threads : thread' = [thread EXCEPT ![t] = [op |-> "goal", goal |-> g]]
    BY <1>11 DEF Nav!ClickGoal
  <2>2. goal'[g] = "clicked" /\ cancels' = cancels
    BY <1>11 DEF Nav!ClickGoal, Nav!Goals, PanelTypes
  <2>3. ~AllNew'
    BY <2>2 DEF AllNew
  <2>4. QED
    BY <1>4, <1>5, <2>1, <2>2, <2>3
<1>12. CASE Nav!ClickStop
  <2>1. PICK t \in Threads : thread' = [thread EXCEPT ![t] = [op |-> "stop"]]
    BY <1>12 DEF Nav!ClickStop
  <2>2. stops' # 0
    BY <1>1, <1>12 DEF Nav!ClickStop
  <2>3. Rests([op |-> "stop"])
    BY <1>4
  <2>4. QED
    BY <1>5, <2>1, <2>2, <2>3
<1>13. QED
  BY <1>7, <1>8, <1>9, <1>10, <1>11, <1>12 DEF Nav!Next, Nav!Flask, Nav!Browser


\* A step that publishes and learns nothing.
LEMMA ToldCarries ==
    ASSUME PanelTypes, [Nav!Next]_Nav!vars, ToldInv, UNCHANGED <<topic, flag>>,
           Nav!Driving' <=> Nav!Driving
    PROVE  Latest' /\ Nav!DrivingTold' /\ Nav!RestTold'
<1>1. (Latest => Latest') /\ (Nav!Told' <=> Nav!Told)
  BY ToldKept
<1>2. QED
  BY <1>1, HistoryGrows DEF ToldInv, Nav!DrivingTold, Nav!RestTold

\* A goal that neither is nor becomes one being executed.
LEMMA NotDriving ==
    ASSUME PanelTypes, NEW g \in Nav!Goals, NEW st, goal[g] # "executing", st # "executing",
           goal' = [goal EXCEPT ![g] = st]
    PROVE  Nav!Driving' <=> Nav!Driving
<1>1. goal'[g] = st /\ \A h \in Nav!Goals \ {g} : goal'[h] = goal[h]
  BY DEF PanelTypes
<1>2. QED
  BY <1>1 DEF Nav!Driving

LEMMA ToldStep == ToldInv /\ [Nav!Next]_Nav!vars => ToldInv'
<1> SUFFICES ASSUME ToldInv, [Nav!Next]_Nav!vars PROVE ToldInv'
  OBVIOUS
<1>1. PanelTypes /\ Guesses /\ PanelTypes' /\ Guesses'
  BY TypesKept, GuessesKept DEF ToldInv
<1> DEFINE Kept == Latest' /\ Nav!DrivingTold' /\ Nav!RestTold'
<1> SUFFICES Kept
  BY <1>1 DEF ToldInv
<1>2. CASE Nav!Publish
  BY <1>2, PublishedIsTrue DEF Nav!DrivingTold, Nav!RestTold
<1>3. CASE UNCHANGED <<topic, flag, goal>>
  BY <1>1, <1>3, ToldCarries DEF Nav!Driving
<1>4. ASSUME NEW g \in Nav!Goals, NEW st, goal[g] # "executing", st # "executing",
             goal' = [goal EXCEPT ![g] = st], UNCHANGED <<topic, flag>>
      PROVE  Kept
  BY <1>1, <1>4, NotDriving, ToldCarries
<1>5. CASE (\E g \in OtherGoals : Nav!OtherGoal(g)) \/ (\E g \in Nav!Goals : Nav!Reject(g))
           \/ (\E g \in WebGoals : Nav!ClickGoal(g))
  <2>1. \E g \in Nav!Goals : \E st \in {"sent", "gone", "clicked"} :
           goal[g] # "executing" /\ goal' = [goal EXCEPT ![g] = st] /\ UNCHANGED <<topic, flag>>
    BY <1>5 DEF Nav!OtherGoal, Nav!Reject, Nav!ClickGoal, Nav!Goals
  <2>2. QED
    BY <1>4, <2>1
<1>6. CASE \E g \in Nav!Goals : Nav!Accept(g) \/ Nav!Finish(g)
  BY <1>2, <1>6 DEF Nav!Accept, Nav!Finish
<1>7. CASE Nav!ProcessCancel
  <2> DEFINE hit == {g \in Nav!CancelTargets : goal[g] = "executing"}
  <2>1. CASE hit = {}
    <3>1. goal' = goal
      BY <1>1, <1>7, <2>1 DEF Nav!ProcessCancel, PanelTypes
    <3>2. QED
      BY <1>3, <1>7, <2>1, <3>1 DEF Nav!ProcessCancel
  <2>2. CASE hit # {}
    BY <1>2, <1>7, <2>2 DEF Nav!ProcessCancel
  <2>3. QED
    BY <2>1, <2>2
<1>8. CASE Nav!NavDies
  <2>1. crashes' # 0 /\ ~Nav!Driving' /\ topic' = topic
    BY <1>1, <1>8 DEF Nav!NavDies, PanelTypes, Nav!Driving
  <2>2. QED
    BY <2>1 DEF ToldInv, Latest, Nav!DrivingTold, Nav!RestTold
<1>9. CASE Nav!NavStatusCallback
  <2>1. PICK msg \in topic : flag' = Nav!Navigating(msg)
    BY <1>9 DEF Nav!NavStatusCallback
  <2>2. topic' = {} /\ UNCHANGED <<goal, stops, crashes>>
    BY <1>9 DEF Nav!NavStatusCallback, Nav!NoMsg
  <2>3. Nav!Told' <=> Nav!Told
    <3>1. Nav!Told <=> Nav!Navigating(msg)
      BY <2>1 DEF ToldInv, Latest, Nav!Told, Nav!NoMsg
    <3>2. Nav!Told' <=> flag'
      BY <2>2 DEF Nav!Told, Nav!NoMsg
    <3>3. QED
      BY <2>1, <3>1, <3>2
  <2>4. QED
    BY <2>2, <2>3 DEF ToldInv, Latest, Nav!DrivingTold, Nav!RestTold, Nav!Driving
<1>10. ASSUME NEW t \in Threads, Nav!Mark(t)
       PROVE  Kept
  <2>1. /\ UNCHANGED <<goal, topic, stops, crashes>>
        /\ thread[t].op = "mark" /\ flag' = thread[t].value
    BY <1>10 DEF Nav!Mark, Nav!serverVars
  <2>2. /\ topic # {} => (Nav!Told' <=> Nav!Told)
        /\ topic = {} => (Nav!Told' <=> flag')
    BY <2>1 DEF Nav!Told, Nav!NoMsg, Nav!Navigating
  <2>3. /\ stops = 0 => flag'
        /\ (\A g \in WebGoals : goal[g] = "new") => ~flag'
    BY <1>1, <2>1 DEF Guesses
  <2>4. QED
    BY <2>1, <2>2, <2>3 DEF ToldInv, Latest, Nav!DrivingTold, Nav!RestTold, Nav!Driving
<1>11. ASSUME NEW t \in Threads, Nav!SendGoal(t)
       PROVE  Kept
  <2>1. UNCHANGED <<topic, flag, stops>> /\ thread[t].op = "goal"
    BY <1>11 DEF Nav!SendGoal
  <2>2. Nav!Driving' => Nav!Driving
    <3>1. thread[t].goal \in Nav!Goals
      BY <1>1, <2>1 DEF PanelTypes, Jobs, Nav!Goals
    <3>2. \E st \in {"sent", "gone"} : goal' = [goal EXCEPT ![thread[t].goal] = st]
      BY <1>11 DEF Nav!SendGoal
    <3>3. QED
      BY <1>1, <3>1, <3>2 DEF PanelTypes, Nav!Driving
  <2>3. ~\A g \in WebGoals : goal'[g] = "new"
    BY <1>1, <2>1, HistoryGrows DEF Guesses
  <2>4. (Latest => Latest') /\ (Nav!Told' <=> Nav!Told)
    BY <2>1, ToldKept
  <2>5. QED
    BY <2>1, <2>2, <2>3, <2>4 DEF ToldInv, Nav!DrivingTold, Nav!RestTold
<1>12. CASE \/ Nav!NavStarts \/ Nav!ClickStop \/ Nav!Poll \/ Nav!Answer \/ UNCHANGED Nav!vars
            \/ \E t \in Threads : Nav!CancelGoal(t)
  BY <1>3, <1>12 DEF Nav!NavStarts, Nav!ClickStop, Nav!Poll, Nav!Answer, Nav!Snapshot, Nav!Answered,
        Nav!CancelGoal, Nav!vars, Nav!serverVars
<1>13. QED
  BY <1>5, <1>6, <1>7, <1>8, <1>9, <1>10, <1>11, <1>12
     DEF Nav!Next, Nav!Server, Nav!Flask, Nav!Browser

\* While no Stop is clicked the server (nav_status_callback and the two handlers that write
\* the flag) knows that the robot drives, or is about to learn it.
THEOREM ServerSeesDriving == Nav!Spec => []Nav!DrivingTold
<1>1. ToldInv => Nav!DrivingTold
  BY DEF ToldInv
<1>2. QED
  BY <1>1, ToldInitially, ToldStep, PTL DEF Nav!Spec

\* While the page sends no goal and the navigation does not crash, the server knows that
\* the robot rests, or is about to learn it.
THEOREM ServerSeesRest == Nav!Spec => []Nav!RestTold
<1>1. ToldInv => Nav!RestTold
  BY DEF ToldInv
<1>2. QED
  BY <1>1, ToldInitially, ToldStep, PTL DEF Nav!Spec
=============================================================================
