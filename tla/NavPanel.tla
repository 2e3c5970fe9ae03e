------------------------------ MODULE NavPanel ------------------------------
(***************************************************************************)
(* The web panel of the navigation: nav2_web_server.py, which bridges      *)
(* browsers to Nav2's navigate_to_pose action, and the part of index.html  *)
(* that shows whether the robot drives and offers the Stop button.         *)
(*                                                                         *)
(* What interleaves: the Flask thread of each request, the ROS spin        *)
(* thread, the action server, and the browser with its polls, whose        *)
(* responses may overtake each other.  The server's own copy of "is it     *)
(* navigating" (flag) has three writers: the status callback, and          *)
(* send_goal and cancel_goal, which guess what the status will be.         *)
(*                                                                         *)
(* The action server, its status topic and the other clients of the action *)
(* (RViz) are external.                                                    *)
(***************************************************************************)
EXTENDS Naturals

CONSTANTS
    WebGoals,     \* goals sent from a browser
    OtherGoals,   \* goals sent by other clients of the action
    Threads,      \* bound: Flask threads serving clicks at one time
    Polls,        \* bound: polls of the browser in flight at one time
    MaxStops,     \* bound: clicks on Stop
    MaxCrashes    \* bound: crashes of the navigation

Goals == WebGoals \union OtherGoals

ASSUME PanelAssumption ==
    /\ WebGoals \intersect OtherGoals = {}
    /\ MaxStops \in Nat /\ MaxCrashes \in Nat

VARIABLES
    up,        \* the action server is there
    goal,      \* per goal: where it is in its life
    cancels,   \* cancel requests on their way to the action server
    topic,     \* the status message waiting for the bridge (the latest only)
    flag,      \* _is_navigating
    thread,    \* per Flask thread: what it is doing
    poll,      \* per poll: where it is, and the answer on its way back
    shown,     \* what the browser shows: navigating, and Stop enabled
    stops, crashes \* history: what happened so far

serverVars == <<up, goal, cancels, topic, crashes>>
vars == <<serverVars, flag, thread, poll, shown, stops>>

NoMsg == {}
Idle == [op |-> "idle"]

Init ==
    /\ up \in BOOLEAN
    /\ goal = [g \in Goals |-> "new"]
    /\ cancels = 0 /\ topic = NoMsg /\ flag = FALSE
    /\ thread = [t \in Threads |-> Idle]
    /\ poll = [p \in Polls |-> "free"]
    /\ shown = FALSE
    /\ stops = 0 /\ crashes = 0

-----------------------------------------------------------------------------
(***************************************************************************)
(* The action server (external).  It publishes its status list when a goal *)
(* it has accepted changes; the topic keeps the last message.              *)
(***************************************************************************)
Publish == topic' = {[g \in {h \in Goals : goal'[h] \notin {"new", "sent", "gone"}} |-> goal'[g]]}

OtherGoal(g) ==
    /\ up /\ goal[g] = "new"
    /\ goal' = [goal EXCEPT ![g] = "sent"]
    /\ UNCHANGED <<up, cancels, topic, crashes, flag, thread, poll, shown, stops>>

Accept(g) ==
    /\ up /\ goal[g] = "sent"
    /\ goal' = [goal EXCEPT ![g] = "executing"]
    /\ Publish
    /\ UNCHANGED <<up, cancels, crashes, flag, thread, poll, shown, stops>>

\* A goal that is rejected never appears in the status list.
Reject(g) ==
    /\ up /\ goal[g] = "sent"
    /\ goal' = [goal EXCEPT ![g] = "gone"]
    /\ UNCHANGED <<up, cancels, topic, crashes, flag, thread, poll, shown, stops>>

\* A goal ends: by itself, or because it is being canceled.
Finish(g) ==
    /\ up /\ goal[g] \in {"executing", "canceling"}
    /\ goal' = [goal EXCEPT ![g] = "ended"]
    /\ Publish
    /\ UNCHANGED <<up, cancels, crashes, flag, thread, poll, shown, stops>>

NavDies ==
    /\ up /\ crashes < MaxCrashes
    /\ up' = FALSE /\ crashes' = crashes + 1
    /\ goal' = [g \in Goals |-> IF goal[g] = "new" THEN "new" ELSE "gone"]
    /\ cancels' = 0
    /\ UNCHANGED <<topic, flag, thread, poll, shown, stops>>

NavStarts ==
    /\ ~up /\ up' = TRUE
    /\ UNCHANGED <<goal, cancels, topic, crashes, flag, thread, poll, shown, stops>>

-----------------------------------------------------------------------------
(***************************************************************************)
(* The ROS spin thread.                                                    *)
(***************************************************************************)
MutantEveryGoal(msg) == DOMAIN msg # {} /\ \A g \in DOMAIN msg : msg[g] = "executing"
MutantAnyListed(msg) == DOMAIN msg # {}
Navigating(msg) == \E g \in DOMAIN msg : msg[g] = "executing"

NavStatusCallback ==
    /\ \E msg \in topic : flag' = Navigating(msg)
    /\ topic' = NoMsg
    /\ UNCHANGED <<up, goal, cancels, crashes, thread, poll, shown, stops>>

-----------------------------------------------------------------------------
(***************************************************************************)
(* Flask threads.  Each handler first waits up to a second for the action  *)
(* server, and answers False if it is not there.  It writes the flag after *)
(* its request has gone out.                                               *)
(***************************************************************************)
SendGoal(t) ==
    /\ thread[t].op = "goal"
    /\ \/ /\ ~up
          /\ thread' = [thread EXCEPT ![t] = Idle]
          /\ goal' = [goal EXCEPT ![thread[t].goal] = "gone"]
       \/ /\ up
          /\ thread' = [thread EXCEPT ![t] = [op |-> "mark", value |-> TRUE]]
          /\ goal' = [goal EXCEPT ![thread[t].goal] = "sent"]
    /\ UNCHANGED <<up, cancels, topic, crashes, flag, poll, shown, stops>>

\* One request for all goals, whatever the number of them.
CancelRequests == 1

CancelGoal(t) ==
    /\ thread[t].op = "stop"
    /\ \/ /\ ~up
          /\ thread' = [thread EXCEPT ![t] = Idle]
          /\ UNCHANGED cancels
       \/ /\ up
          /\ thread' = [thread EXCEPT ![t] = [op |-> "mark", value |-> FALSE]]
          /\ cancels' = cancels + CancelRequests
    /\ UNCHANGED <<up, goal, topic, crashes, flag, poll, shown, stops>>

\* The guess: True after a goal is sent, False after a cancel.
Mark(t) ==
    /\ thread[t].op = "mark"
    /\ flag' = thread[t].value
    /\ thread' = [thread EXCEPT ![t] = Idle]
    /\ UNCHANGED <<serverVars, poll, shown, stops>>

\* What a cancel request names: no goal in particular, which means all of them.
MutantOwnGoals == WebGoals
CancelTargets == Goals

\* The action server handles a cancel request: what is not active stays as it is.
ProcessCancel ==
    /\ up /\ cancels > 0 /\ cancels' = cancels - 1
    /\ LET hit == {g \in CancelTargets : goal[g] = "executing"}
       IN  /\ goal' = [g \in Goals |-> IF g \in hit THEN "canceling" ELSE goal[g]]
           /\ IF hit = {} THEN UNCHANGED topic ELSE Publish
    /\ UNCHANGED <<up, crashes, flag, thread, poll, shown, stops>>

\* get_state_snapshot: the flag is read under the lock, the rest of the answer is
\* put together, and sent, later.
Snapshot(p) ==
    /\ poll[p] = "asked"
    /\ poll' = [poll EXCEPT ![p] = IF flag THEN "true" ELSE "false"]
    /\ UNCHANGED <<serverVars, flag, thread, shown, stops>>

-----------------------------------------------------------------------------
(***************************************************************************)
(* The browser.                                                            *)
(***************************************************************************)
ClickGoal(g) ==
    /\ goal[g] = "new"
    /\ \E t \in Threads :
          /\ thread[t] = Idle
          /\ thread' = [thread EXCEPT ![t] = [op |-> "goal", goal |-> g]]
    /\ goal' = [goal EXCEPT ![g] = "clicked"]
    /\ UNCHANGED <<up, cancels, topic, crashes, flag, poll, shown, stops>>

ClickStop ==
    /\ shown
    /\ stops < MaxStops /\ stops' = stops + 1
    /\ \E t \in Threads :
          /\ thread[t] = Idle
          /\ thread' = [thread EXCEPT ![t] = [op |-> "stop"]]
    /\ UNCHANGED <<serverVars, flag, poll, shown>>

\* The interval timer asks again whether or not the last answer has come.
Poll ==
    /\ \E p \in Polls : poll[p] = "free" /\ poll' = [poll EXCEPT ![p] = "asked"]
    /\ UNCHANGED <<serverVars, flag, thread, shown, stops>>

\* updateNavStatus, on an answer.
MutantOnlyTurnsOn(p) == shown \/ poll[p] = "true"
Shows(p) == poll[p] = "true"

Answered(p) ==
    /\ poll[p] \in {"true", "false"}
    /\ shown' = Shows(p)
    /\ poll' = [poll EXCEPT ![p] = "free"]
    /\ UNCHANGED <<serverVars, flag, thread, stops>>

-----------------------------------------------------------------------------
Server ==
    \/ \E g \in OtherGoals : OtherGoal(g)
    \/ \E g \in Goals : Accept(g) \/ Reject(g) \/ Finish(g)
    \/ NavDies \/ NavStarts \/ ProcessCancel
Flask == \E t \in Threads : SendGoal(t) \/ CancelGoal(t) \/ Mark(t)
Browser == (\E g \in WebGoals : ClickGoal(g)) \/ ClickStop \/ Poll
Answer == \E p \in Polls : Snapshot(p) \/ Answered(p)

Next == Server \/ NavStatusCallback \/ Flask \/ Browser \/ Answer

Spec == Init /\ [][Next]_vars

\* Threads run, the browser polls, its polls are answered, and the action
\* server handles what it is sent.  Nobody has to click, and a goal that is not
\* canceled need not end.
FairSpec ==
    /\ Spec
    /\ WF_vars(NavStatusCallback) /\ WF_vars(Poll) /\ WF_vars(ProcessCancel)
    /\ \A t \in Threads : WF_vars(SendGoal(t) \/ CancelGoal(t) \/ Mark(t))
    /\ \A p \in Polls : WF_vars(Snapshot(p) \/ Answered(p))
    /\ \A g \in Goals : /\ WF_vars(Accept(g) \/ Reject(g))
                        /\ WF_vars(goal[g] = "canceling" /\ Finish(g))

-----------------------------------------------------------------------------
(***************************************************************************)
(* Properties.                                                             *)
(***************************************************************************)
Driving == \E g \in Goals : goal[g] = "executing"

\* Whoever sent the goal, a driving robot is shown as driving, with Stop enabled,
\* unless it stops first.
DrivingShown == Driving ~> (shown \/ ~Driving)

\* A robot that has come to rest is shown as idle, unless it drives again first.
RestShown == (~Driving) ~> (~shown \/ Driving)

\* The two hold as long as the panel does not guess: a robot is shown as driving
\* while no Stop is pressed, whatever else the page and others send, and at rest
\* while no goal comes from the page and the navigation does not crash.
DrivingShownUnlessStopped == [](stops = 0) => DrivingShown
RestShownUnlessSent ==
    [](crashes = 0 /\ \A g \in WebGoals : goal[g] = "new") => RestShown

\* The safety they rest on.  What the server knows, or is about to learn from the
\* status message waiting for it (nav2_web_server.py:180-185), does not lag behind the robot.
Told == IF topic = NoMsg THEN flag ELSE \E msg \in topic : Navigating(msg)
DrivingTold == stops = 0 /\ Driving => Told
RestTold == crashes = 0 /\ (\A g \in WebGoals : goal[g] = "new") /\ ~Driving => ~Told

\* Once the server's flag is settled the browser shows it for good, however its
\* polls overtake each other.
PanelSettles == (<>[]flag => <>[]shown) /\ (<>[]~flag => <>[]~shown)

\* A Stop that went out stops every goal that was being executed, whoever sent it.
StopEndsAll == \A g \in Goals : (cancels > 0 /\ goal[g] = "executing") ~> (goal[g] # "executing")
=============================================================================
