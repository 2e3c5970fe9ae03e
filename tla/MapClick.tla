------------------------------- MODULE MapClick -------------------------------
(***************************************************************************)
(* The gestures on the web panel's map, in index.html: a press and a drag  *)
(* set a goal for the navigation or, in the other mode, the robot's        *)
(* initial pose.  The release sends a request and awaits its answer; while *)
(* it waits, the page goes on to handle events, and what follows the await *)
(* finds the page's variables as they are by then.                         *)
(*                                                                         *)
(* Gestures are numbered; a position on the map is the number of the       *)
(* gesture it belongs to.  There is one pointer: presses and releases      *)
(* alternate.  A press may land beside the map, and so may its release     *)
(* unless the page has captured the pointer.                               *)
(***************************************************************************)
EXTENDS Naturals

CONSTANTS
    MaxDrags,      \* bound: gestures
    MaxRestarts    \* bound: restarts of the web server

ASSUME BoundAssumption == MaxDrags \in Nat /\ MaxRestarts \in Nat

Drags == 1..MaxDrags
None == 0
Modes == {"goal", "initialpose"}

VARIABLES
    mode,       \* clickMode
    dragging,   \* isDraggingGoal
    start,      \* goalStartWorld: the gesture whose press it is, or None
    map,        \* does latestState have a map?
    pressed,    \* the gesture under way, or None
    drags,      \* gestures so far
    request,    \* per gesture: the request its release has sent
    restarts,   \* restarts of the server so far
    aimed,      \* was the press on a map, and the pointer captured by it?
    cut,        \* history: has a request come back since the press?
    picked      \* history: has the pose mode been picked since a pose was set?

pageVars == <<mode, dragging, start>>
historyVars == <<cut, picked>>
vars == <<pageVars, map, pressed, aimed, drags, request, restarts, historyVars>>

NotSent == [state |-> "none", endpoint |-> "goal", start |-> None]

Init ==
    /\ mode = "goal" /\ dragging = FALSE /\ start = None
    /\ map = FALSE /\ pressed = None /\ drags = 0
    /\ request = [d \in Drags |-> NotSent]
    /\ restarts = 0 /\ aimed = FALSE /\ cut = FALSE /\ picked = FALSE

-----------------------------------------------------------------------------
\* fetchState: the server has a map for good once it has received one, and
\* starts without one.
FetchState ==
    /\ \/ map' = TRUE /\ UNCHANGED restarts
       \/ map' = FALSE /\ restarts < MaxRestarts /\ restarts' = restarts + 1
    /\ UNCHANGED <<pageVars, pressed, aimed, drags, request, historyVars>>

\* setClickMode, from its two buttons.
SetClickMode(m) ==
    /\ mode' = m
    /\ picked' = (picked \/ m = "initialpose")
    /\ UNCHANGED <<dragging, start, map, pressed, drags, request, restarts, aimed, cut>>

\* pointerdown.  A press on the map starts a drag, whatever is left of the one
\* before; one on the empty canvas or beside it leaves the page as it is.
MutantStarts == ~dragging
Starts == TRUE

PointerDown ==
    /\ pressed = None /\ drags < MaxDrags
    /\ pressed' = drags + 1 /\ drags' = drags + 1
    /\ \/ map /\ aimed' = TRUE
       \/ aimed' = FALSE
    /\ IF aimed' /\ Starts THEN dragging' = TRUE /\ start' = drags + 1
                           ELSE UNCHANGED <<dragging, start>>
    /\ cut' = FALSE
    /\ UNCHANGED <<mode, map, request, restarts, picked>>

\* What each way out of a drag resets.
Cleared == dragging' = FALSE /\ start' = None

\* pointerup, up to its await: the request, or nothing left of the drag.
Sends == dragging /\ start # None /\ map

PointerUp ==
    /\ pressed # None /\ pressed' = None
    /\ \/ /\ Sends
          /\ request' = [request EXCEPT ![pressed] =
                            [state |-> "sent", endpoint |-> mode, start |-> start]]
          /\ UNCHANGED <<dragging, start>>
       \/ ~Sends /\ Cleared /\ UNCHANGED request
    /\ UNCHANGED <<mode, map, aimed, drags, restarts, historyVars>>

\* A release beside the canvas: without a capture the page does not see it.
ReleaseElsewhere ==
    /\ pressed # None /\ ~aimed /\ pressed' = None
    /\ UNCHANGED <<pageVars, map, aimed, drags, request, restarts, historyVars>>

\* pointerup, after its await: an answer takes the page back to the goal mode,
\* an exception does not; both end the drag.
MutantModeAfter == mode
ModeAfter == "goal"
MutantEnds(ok) == IF ok THEN Cleared ELSE UNCHANGED <<dragging, start>>
Ends(ok) == Cleared

Answered(d) ==
    /\ request[d].state = "sent"
    /\ request' = [request EXCEPT ![d].state = "over"]
    /\ \E ok \in BOOLEAN :
          /\ mode' = IF ok THEN ModeAfter ELSE mode
          /\ picked' = (picked /\ ~(ok /\ request[d].endpoint = "initialpose"))
          /\ Ends(ok)
    /\ cut' = (cut \/ pressed # None)
    /\ UNCHANGED <<map, pressed, aimed, drags, restarts>>

PointerCancel ==
    /\ pressed # None /\ pressed' = None
    /\ Cleared
    /\ UNCHANGED <<mode, map, aimed, drags, request, restarts, historyVars>>

Next ==
    \/ FetchState
    \/ \E m \in Modes : SetClickMode(m)
    \/ PointerDown \/ PointerUp \/ ReleaseElsewhere \/ PointerCancel
    \/ \E d \in Drags : Answered(d)

Spec == Init /\ [][Next]_vars

\* A request is answered in the end, or fails: the browser sees to that.
FairSpec == Spec /\ \A d \in Drags : WF_vars(Answered(d))

-----------------------------------------------------------------------------
(***************************************************************************)
(* Properties.                                                             *)
(***************************************************************************)
\* A drag on the map is sent from its own press, in the mode that shows at its
\* release, however many requests are awaited meanwhile, unless the answer to one
\* comes while it is held: what follows the await then clears it.
DragSent ==
    [][PointerUp /\ aimed /\ map /\ ~cut =>
          request'[pressed] = [state |-> "sent", endpoint |-> mode, start |-> pressed]]_vars

\* The pose mode serves for one pose: another one is not sent after an answer
\* unless the mode has been picked again.
SinglePose == mode = "initialpose" => picked

\* A drag that was released does not stay on the screen.
PreviewEnds == (dragging /\ pressed = None) ~> (~dragging \/ pressed # None)
=============================================================================
