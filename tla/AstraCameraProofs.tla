------------------------- MODULE AstraCameraProofs -------------------------
(***************************************************************************)
(* The camera has one user, for any number of plugs and failures.          *)
(*                                                                         *)
(* OneUser is not inductive.  That no node is there when a start begins    *)
(* rests on device_connected_, which is cleared only after the node has    *)
(* gone; and that the listener destroys none meanwhile on the list's lock  *)
(* having been free when the start began (OneUserInv).                     *)
(***************************************************************************)
EXTENDS AstraCamera, TLAPS

Threads == {"listener", "query"}
Pending == {"list", "open"} \cup {"start", "reset", "clean", "setup", "stream", "poll", "mark"}

\* A destructor runs only where its thread is in it.
DyingWhere ==
    /\ DOMAIN dying = Threads
    /\ lpc # "clean" => dying["listener"] = None

\* The query thread goes past its look around only when nothing is connected,
\* and nothing becomes connected until it is done.
StartsUnconnected == qpc \in Pending => ~connected

\* In a history without an unplug heard during a start: a node is there only
\* while connected, or about to be; the listener takes it down before it does
\* anything else; a start has the listener idle, and finds no node to destroy.
Unraced ==
    /\ node = None \/ connected \/ qpc = "mark"
    /\ lpc # "idle" => node = None
    /\ Starting => lpc = "idle"
    /\ dying["query"] = None

OneUserInv == DyingWhere /\ StartsUnconnected /\ (~raced => Unraced)

Nodes == [session : Nat, streams : BOOLEAN, open : BOOLEAN, running : BOOLEAN, tf : BOOLEAN, poll : {"none", "top", "reading", "ended"}]

\* Writing to a field what it holds changes nothing.
LEMMA Rewritten ==
    ASSUME NEW n \in Nodes
    PROVE /\ n.running = FALSE => [n EXCEPT !.running = FALSE] = n
          /\ n.open = FALSE => [n EXCEPT !.open = FALSE] = n
          /\ n.poll = "none" => [n EXCEPT !.poll = "none"] = n
  BY DEF Nodes

\* Once there is no node there is no thread of it either, and nothing to close.
LEMMA NothingLeft ==
    /\ [None EXCEPT !.running = FALSE] = None
    /\ [None EXCEPT !.open = FALSE] = None
    /\ [None EXCEPT !.poll = NextPoll(None)] = None
<1>1. None \in Nodes /\ None.running = FALSE /\ None.open = FALSE /\ None.poll = "none"
  BY DEF None, Nodes
<1>2. NextPoll(None) = "none"
  BY DEF None, NextPoll
<1> QED
  BY <1>1, <1>2, Rewritten

LEMMA OneUserInit == Init => OneUserInv
  BY DEF Init, OneUserInv, DyingWhere, StartsUnconnected, Unraced, Threads, Pending, Starting

LEMMA OneUserStep == OneUserInv /\ [Next]_vars => OneUserInv'
<1> SUFFICES ASSUME OneUserInv, [Next]_vars PROVE OneUserInv'
  OBVIOUS
<1> USE NothingLeft DEF OneUserInv, DyingWhere, StartsUnconnected, Unraced, Threads, Pending, Starting,
        cameraVars, listVars, factoryVars, nodeVars, historyVars
<1>1. CASE Usb
  BY <1>1 DEF Usb, PlugIn, Unplug
<1>2. CASE HearIn
  BY <1>2 DEF HearIn
<1>3. CASE HearOut
  BY <1>3 DEF HearOut, Takes
<1>4. CASE Clean
  BY <1>4 DEF Clean, Cleaned
<1>5. CASE CloseDevice
  BY <1>5 DEF CloseDevice
<1>6. CASE Forget
  BY <1>6 DEF Forget, Disconnects
<1>7. CASE Enumerate \/ EnumerationListed \/ ReadList
  <2>1. CASE Enumerate
    BY <2>1 DEF Enumerate, Looks
  <2>2. CASE EnumerationListed
    BY <2>2 DEF EnumerationListed
  <2>3. CASE ReadList
    BY <2>3 DEF ReadList, Looks
  <2> QED
    BY <1>7, <2>1, <2>2, <2>3
<1>8. CASE Open \/ OpenFails \/ StartDevice
  <2>1. CASE Open
    BY <2>1 DEF Open
  <2>2. CASE OpenFails
    BY <2>2 DEF OpenFails
  <2>3. CASE StartDevice
    BY <2>3 DEF StartDevice
  <2> QED
    BY <1>8, <2>1, <2>2, <2>3
<1>9. CASE ResetNode
  <2>1. /\ DOMAIN dying' = Threads /\ dying'["listener"] = dying["listener"]
        /\ node = None => dying'["query"] = None
    BY <1>9 DEF ResetNode, Takes
  <2> QED
    BY <1>9, <2>1 DEF ResetNode, Takes
<1>10. CASE NodeReset
  BY <1>10 DEF NodeReset, Cleaned
<1>11. CASE Setup \/ SetupFails \/ StartStreams \/ StartStreamsFails
  BY <1>11 DEF Setup, SetupFails, StartStreams, StartStreamsFails
<1>12. CASE StartPolling \/ MarkConnected
  BY <1>12 DEF StartPolling, MarkConnected
<1>13. CASE Check
  BY <1>13 DEF Check
<1>14. CASE PollFrame
  <2>1. CASE node' = [node EXCEPT !.poll = NextPoll(node)] /\ UNCHANGED dying
    BY <1>14, <2>1 DEF PollFrame
  <2>2. CASE /\ \E t \in DOMAIN dying : dying' = [dying EXCEPT ![t].poll = NextPoll(dying[t])]
             /\ UNCHANGED node
    <3>1. PICK t \in Threads : dying' = [dying EXCEPT ![t] = [dying[t] EXCEPT !.poll = NextPoll(dying[t])]]
      BY <2>2
    <3>2. DOMAIN dying' = Threads /\ \A u \in Threads : dying[u] = None => dying'[u] = None
      BY <3>1
    <3> QED
      BY <1>14, <2>2, <3>2 DEF PollFrame
  <2> QED
    BY <1>14, <2>1, <2>2 DEF PollFrame
<1>15. CASE TransformsEnd
  <2>1. PICK t \in Threads : dying[t].tf /\ dying' = [dying EXCEPT ![t] = [dying[t] EXCEPT !.tf = FALSE]]
    BY <1>15 DEF TransformsEnd
  <2>2. dying[t] # None
    BY <2>1 DEF None
  <2>3. DOMAIN dying' = Threads /\ \A u \in Threads : dying[u] = None => dying'[u] = None
    BY <2>1, <2>2
  <2> QED
    BY <1>15, <2>3 DEF TransformsEnd
<1>16. CASE UNCHANGED vars
  BY <1>16 DEF vars
<1> QED
  BY <1>1, <1>2, <1>3, <1>4, <1>5, <1>6, <1>7, <1>8, <1>9, <1>10, <1>11, <1>12, <1>13, <1>14, <1>15, <1>16
     DEF Next, Listener, Query, NodeThreads

LEMMA OneUserFollows == OneUserInv => OneUser
  BY DEF OneUserInv, DyingWhere, StartsUnconnected, Unraced, OneUser, Pending, Starting, None

\* While a start has the camera open no node, in use or still being destroyed by
\* the listener or by the query thread, holds streams on it, unless an unplug was
\* heard during a start (onDeviceDisconnected against startDevice).
THEOREM OneUserOfCamera == Spec => []OneUser
<1>1. OneUserInv /\ [Next]_vars => OneUserInv'
  BY OneUserStep
<1> QED
  BY OneUserInit, <1>1, OneUserFollows, PTL DEF Spec

-----------------------------------------------------------------------------
(***************************************************************************)
(* What the driver believes is so.  A belief that is out of date has an    *)
(* unplug not yet heard behind it (Unheard), from the opening on; and a    *)
(* device that is not connected is closed by whichever thread comes to it, *)
(* the query thread its own one, the listener the one device_ holds.       *)
(***************************************************************************)
CameraTypes ==
    /\ opened \in Nat /\ session \in Nat /\ events \in Seq({"in", "out"})
    /\ lpc # "idle" => events # <<>>
    /\ made \in Nodes /\ node \in Nodes

Unheard == \E i \in 1..Len(events) : events[i] = "out"
UpToDate == (plugged /\ opened = session) \/ Unheard

\* During a start, step by step.
StartTrue ==
    /\ Starting => UpToDate
    /\ qpc \in {"reset", "clean", "setup", "stream", "poll", "mark"} => uri
    /\ ~(qpc \in {"start", "reset"}) => opened = 0 \/ held
    /\ qpc \in {"stream", "poll"} => made.session = opened
    /\ qpc = "mark" => node.session = opened

\* Once it is done, and while the listener takes the camera away.
OutcomeTrue ==
    /\ connected /\ lpc = "idle" => UpToDate /\ uri /\ node.session = opened
    /\ qpc \in {"look", "list", "open"} /\ ~connected /\ lpc = "idle" => opened = 0
    /\ lpc = "forget" => opened = 0

BeliefInv == OneUserInv /\ CameraTypes /\ (~raced => StartTrue /\ OutcomeTrue)

LEMMA Appended ==
    ASSUME events \in Seq({"in", "out"}), NEW e \in {"in", "out"}, events' = Append(events, e)
    PROVE /\ events' \in Seq({"in", "out"}) /\ events' # <<>>
          /\ Unheard \/ e = "out" => Unheard'
  BY DEF Unheard

LEMMA Heard ==
    ASSUME events \in Seq({"in", "out"}), events # <<>>, events' = Tail(events)
    PROVE /\ events' \in Seq({"in", "out"})
          /\ Unheard /\ Head(events) = "in" => Unheard'
<1>1. events' \in Seq({"in", "out"}) /\ Len(events) # 0
  OBVIOUS
<1>2. ASSUME NEW i \in 1..Len(events), events[i] = "out", Head(events) = "in" PROVE Unheard'
  <2>1. i # 1
    BY <1>2
  <2>2. i - 1 \in 1..Len(events') /\ events'[i - 1] = "out"
    BY <1>1, <1>2, <2>1
  <2> QED
    BY <2>2 DEF Unheard
<1> QED
  BY <1>1, <1>2 DEF Unheard

LEMMA BeliefInit == Init => BeliefInv
<1> SUFFICES ASSUME Init PROVE BeliefInv
  OBVIOUS
<1>1. OneUserInv
  BY OneUserInit
<1>2. CameraTypes
  BY DEF Init, CameraTypes, Nodes, None
<1>3. StartTrue /\ OutcomeTrue
  BY DEF Init, StartTrue, OutcomeTrue, Starting
<1> QED
  BY <1>1, <1>2, <1>3 DEF BeliefInv

LEMMA TypesStep == BeliefInv /\ [Next]_vars => CameraTypes'
<1> SUFFICES ASSUME BeliefInv, [Next]_vars PROVE CameraTypes'
  OBVIOUS
<1> USE DEF BeliefInv, CameraTypes, cameraVars, listVars, factoryVars, nodeVars, historyVars
<1>1. CASE PlugIn
  BY <1>1, Appended DEF PlugIn
<1>2. CASE Unplug
  BY <1>2, Appended DEF Unplug
<1>3. CASE HearIn
  BY <1>3, Heard DEF HearIn
<1>4. CASE HearOut
  <2>1. None \in Nodes
    BY DEF None, Nodes
  <2> QED
    BY <1>4, <2>1, Heard DEF HearOut, Takes
<1>5. CASE Clean
  BY <1>5 DEF Clean
<1>6. CASE CloseDevice
  <2>1. ASSUME NEW n \in Nodes PROVE [n EXCEPT !.open = FALSE] \in Nodes
    BY <2>1 DEF Nodes
  <2>2. CASE held
    BY <1>6, <2>1, <2>2 DEF CloseDevice
  <2>3. CASE ~held
    BY <1>6, <2>1, <2>3 DEF CloseDevice
  <2> QED
    BY <2>2, <2>3
<1>7. CASE Forget
  BY <1>7, Heard DEF Forget, Disconnects
<1>8. CASE Enumerate \/ EnumerationListed \/ ReadList
  BY <1>8 DEF Enumerate, EnumerationListed, ReadList
<1>9. CASE Open \/ OpenFails \/ StartDevice
  BY <1>9 DEF Open, OpenFails, StartDevice
<1>10. CASE ResetNode \/ NodeReset
  <2>1. None \in Nodes
    BY DEF None, Nodes
  <2> QED
    BY <1>10, <2>1 DEF ResetNode, NodeReset, Takes
<1>11. CASE Setup
  BY <1>11 DEF Setup, Nodes
<1>12. CASE SetupFails \/ StartStreams \/ StartStreamsFails
  BY <1>12 DEF SetupFails, StartStreams, StartStreamsFails
<1>13. CASE StartPolling
  BY <1>13 DEF StartPolling, Nodes, None
<1>14. CASE MarkConnected
  BY <1>14 DEF MarkConnected
<1>15. CASE Check
  BY <1>15 DEF Check, Nodes
<1>16. CASE PollFrame
  <2>1. NextPoll(node) \in {"none", "top", "reading", "ended"}
    BY DEF NextPoll, Nodes
  <2>2. [node EXCEPT !.poll = NextPoll(node)] \in Nodes
    BY <2>1 DEF Nodes
  <2> QED
    BY <1>16, <2>2 DEF PollFrame
<1>17. CASE TransformsEnd
  BY <1>17 DEF TransformsEnd
<1>18. CASE UNCHANGED vars
  BY <1>18 DEF vars
<1> QED
  BY <1>1, <1>2, <1>3, <1>4, <1>5, <1>6, <1>7, <1>8, <1>9, <1>10, <1>11, <1>12, <1>13, <1>14, <1>15,
     <1>16, <1>17, <1>18 DEF Next, Usb, Listener, Query, NodeThreads

LEMMA TruthStep == BeliefInv /\ OneUserInv' /\ [Next]_vars => (~raced' => StartTrue' /\ OutcomeTrue')
<1> SUFFICES ASSUME BeliefInv, OneUserInv', [Next]_vars, ~raced' PROVE StartTrue' /\ OutcomeTrue'
  OBVIOUS
<1>0. ~raced
  BY DEF Next, Usb, Listener, Query, NodeThreads, vars, cameraVars, listVars, factoryVars, nodeVars, historyVars,
         PlugIn, Unplug, HearIn, HearOut, Clean, CloseDevice, Forget, Enumerate, EnumerationListed, ReadList,
         Open, OpenFails, StartDevice, ResetNode, NodeReset, Setup, SetupFails, StartStreams, StartStreamsFails,
         StartPolling, MarkConnected, Check, PollFrame, TransformsEnd
<1> USE <1>0 DEF BeliefInv, OneUserInv, Unraced, StartsUnconnected, CameraTypes, StartTrue, OutcomeTrue, Starting,
        Pending, UpToDate, cameraVars, listVars, factoryVars, nodeVars, historyVars
<1>1. CASE PlugIn
  <2>1. Unheard => Unheard'
    BY <1>1, Appended DEF PlugIn
  <2> QED
    BY <1>1, <2>1 DEF PlugIn
<1>2. CASE Unplug
  <2>1. Unheard'
    BY <1>2, Appended DEF Unplug
  <2> QED
    BY <1>2, <2>1 DEF Unplug
<1>3. CASE HearIn
  <2>1. Unheard => Unheard'
    BY <1>3, Heard DEF HearIn
  <2> QED
    BY <1>3, <2>1 DEF HearIn
<1>4. CASE HearOut
  BY <1>4 DEF HearOut
<1>5. CASE Clean
  BY <1>5 DEF Clean, Unheard
<1>6. CASE CloseDevice
  BY <1>6 DEF CloseDevice
<1>7. CASE Forget
  BY <1>7 DEF Forget, Disconnects
<1>8. CASE Enumerate
  BY <1>8 DEF Enumerate, Looks, Unheard
<1>9. CASE EnumerationListed
  BY <1>9 DEF EnumerationListed, Unheard
<1>10. CASE ReadList
  BY <1>10 DEF ReadList, Looks, Unheard
<1>11. CASE Open
  BY <1>11 DEF Open, Unheard
<1>12. CASE OpenFails
  BY <1>12 DEF OpenFails, Unheard
<1>13. CASE StartDevice
  BY <1>13 DEF StartDevice, Unheard
<1>14. CASE ResetNode
  BY <1>14 DEF ResetNode, Unheard
<1>15. CASE NodeReset
  BY <1>15 DEF NodeReset, Unheard
<1>16. CASE Setup
  BY <1>16 DEF Setup, Unheard
<1>17. CASE SetupFails
  BY <1>17 DEF SetupFails, Unheard
<1>18. CASE StartStreams \/ StartStreamsFails
  BY <1>18 DEF StartStreams, StartStreamsFails, Unheard
<1>19. CASE StartPolling
  BY <1>19 DEF StartPolling, Unheard, Nodes
<1>20. CASE MarkConnected
  BY <1>20 DEF MarkConnected, Unheard
<1>21. CASE Check
  BY <1>21 DEF Check, Unheard
<1>22. CASE PollFrame
  <2>1. node'.session = node.session
    BY <1>22 DEF PollFrame, Nodes
  <2> QED
    BY <1>22, <2>1 DEF PollFrame, Unheard
<1>23. CASE TransformsEnd
  BY <1>23 DEF TransformsEnd, Unheard
<1>24. CASE UNCHANGED vars
  BY <1>24 DEF vars, Unheard
<1> QED
  BY <1>1, <1>2, <1>3, <1>4, <1>5, <1>6, <1>7, <1>8, <1>9, <1>10, <1>11, <1>12, <1>13, <1>14, <1>15, <1>16,
     <1>17, <1>18, <1>19, <1>20, <1>21, <1>22, <1>23, <1>24 DEF Next, Usb, Listener, Query, NodeThreads

LEMMA BeliefFollows == BeliefInv => BeliefTrue
<1> SUFFICES ASSUME BeliefInv, Settled, ~raced, ~died
             PROVE IF connected THEN plugged /\ uri /\ opened = session /\ node.session = session
                                ELSE opened = 0 /\ node = None /\ \A t \in DOMAIN dying : dying[t] = None
  BY DEF BeliefTrue
<1>1. ~Unheard
  BY DEF Settled, Unheard
<1> QED
  BY <1>1 DEF BeliefInv, OneUserInv, DyingWhere, Threads, Unraced, OutcomeTrue, UpToDate, Settled

\* When everything has been heard, a connected camera is plugged in, opened and
\* streamed from in the session it was plugged in last, and without one nothing
\* is left over (queryDeviceThread and onDeviceDisconnected), as long as no unplug
\* was heard during a start.
THEOREM BeliefIsTrue == Spec => []BeliefTrue
<1>1. BeliefInv /\ [Next]_vars => BeliefInv'
  BY OneUserStep, TypesStep, TruthStep DEF BeliefInv
<1> QED
  BY BeliefInit, <1>1, BeliefFollows, PTL DEF Spec

-----------------------------------------------------------------------------
(***************************************************************************)
(* A plugged camera is listed.  Plugs and unplugs alternate in what is     *)
(* still to be heard, and the last of them is how the camera is now; the   *)
(* listener takes the camera off the list at the end of an unplug's call,  *)
(* so what it has not heard yet is what must put it on the list again.     *)
(***************************************************************************)
ListInv ==
    /\ events \in Seq({"in", "out"})
    /\ events # <<>> => events[Len(events)] = IF plugged THEN "in" ELSE "out"
    /\ lpc # "idle" => events # <<>> /\ Head(events) = "out"
    /\ CameraListed

LEMMA Added ==
    ASSUME ListInv, NEW e \in {"in", "out"}, events' = Append(events, e), lpc' = lpc
    PROVE  /\ events' \in Seq({"in", "out"}) /\ events' # <<>> /\ events'[Len(events')] = e
           /\ lpc' # "idle" => Head(events') = "out"
BY DEF ListInv

LEMMA Removed ==
    ASSUME ListInv, events # <<>>, events' = Tail(events)
    PROVE  /\ events' \in Seq({"in", "out"})
           /\ events' # <<>> => events'[Len(events')] = events[Len(events)]
           /\ events' = <<>> => events[Len(events)] = Head(events)
<1>1. events \in Seq({"in", "out"}) /\ Len(events) \in Nat /\ Len(events) # 0
  BY DEF ListInv
<1>2. events' \in Seq({"in", "out"}) /\ Len(events') = Len(events) - 1
  BY <1>1
<1>3. ASSUME events' # <<>>
      PROVE  events'[Len(events')] = events[Len(events)]
  <2>1. Len(events') \in 1 .. Len(events')
    BY <1>2, <1>3
  <2>2. events'[Len(events')] = events[Len(events') + 1]
    BY <1>1, <1>2, <2>1
  <2>3. Len(events') + 1 = Len(events)
    BY <1>1, <1>2
  <2>4. QED
    BY <2>2, <2>3
<1>4. ASSUME events' = <<>>
      PROVE  events[Len(events)] = Head(events)
  <2>1. Len(events') = 0
    BY <1>2, <1>4
  <2>2. Len(events) = 1
    BY <1>1, <1>2, <2>1
  <2>3. Head(events) = events[1]
    BY <1>1
  <2>4. QED
    BY <2>2, <2>3
<1>5. QED
  BY <1>2, <1>3, <1>4

LEMMA ListInit == Init => ListInv
BY DEF Init, ListInv, CameraListed

LEMMA ListStep == ListInv /\ [Next]_vars => ListInv'
<1> SUFFICES ASSUME ListInv, [Next]_vars PROVE ListInv'
  OBVIOUS
<1> USE DEF CameraListed, cameraVars, listVars, factoryVars, nodeVars, historyVars
<1>1. CASE PlugIn
  BY <1>1, Added DEF PlugIn, ListInv
<1>2. CASE Unplug
  BY <1>2, Added DEF Unplug, ListInv
<1>3. CASE HearIn
  BY <1>3, Removed DEF HearIn, ListInv
<1>4. CASE HearOut
  <2>1. CASE uri
    BY <1>4, <2>1 DEF HearOut, ListInv
  <2>2. CASE ~uri
    BY <1>4, <2>2, Removed DEF HearOut, ListInv
  <2>3. QED
    BY <2>1, <2>2
<1>5. CASE Clean \/ CloseDevice
  BY <1>5 DEF Clean, CloseDevice, ListInv
<1>6. CASE Forget
  <2>1. events # <<>> /\ Head(events) = "out" /\ events' = Tail(events) /\ lpc' = "idle" /\ UNCHANGED plugged
    BY <1>6 DEF Forget, ListInv
  <2>2. /\ events' \in Seq({"in", "out"})
        /\ events' # <<>> => events'[Len(events')] = events[Len(events)]
        /\ events' = <<>> => events[Len(events)] = "out"
    BY <2>1, Removed
  <2>3. events' = <<>> => ~plugged'
    BY <2>1, <2>2 DEF ListInv
  <2>4. QED
    BY <2>1, <2>2, <2>3 DEF ListInv
<1>7. CASE Enumerate \/ ReadList
  BY <1>7 DEF Enumerate, ReadList, ListInv
<1>8. CASE EnumerationListed
  <2>1. UNCHANGED <<plugged, events, lpc>> /\ (list \/ found => list') /\ qpc = "list"
    BY <1>8 DEF EnumerationListed
  <2>2. QED
    BY <2>1 DEF ListInv
<1>9. CASE Open \/ OpenFails \/ StartDevice \/ ResetNode \/ NodeReset \/ Setup \/ SetupFails
  BY <1>9 DEF Open, OpenFails, StartDevice, ResetNode, NodeReset, Setup, SetupFails, ListInv
<1>10. CASE StartStreams \/ StartStreamsFails \/ StartPolling \/ MarkConnected \/ Check
  BY <1>10 DEF StartStreams, StartStreamsFails, StartPolling, MarkConnected, Check, ListInv
<1>11. CASE NodeThreads \/ UNCHANGED vars
  BY <1>11 DEF NodeThreads, PollFrame, TransformsEnd, vars, ListInv
<1>12. QED
  BY <1>1, <1>2, <1>3, <1>4, <1>5, <1>6, <1>7, <1>8, <1>9, <1>10, <1>11
     DEF Next, Usb, Listener, Query

\* A camera that is plugged in is on the list once the listener has caught up, or the first
\* query is still to list it, whatever came and went meanwhile and whatever failed.
THEOREM NeverOverlooked == Spec => []CameraListed
<1>1. ListInv => CameraListed
  BY DEF ListInv
<1>2. QED
  BY <1>1, ListInit, ListStep, PTL DEF Spec
=============================================================================
