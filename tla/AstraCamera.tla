---------------------------- MODULE AstraCamera ----------------------------
(***************************************************************************)
(* The depth camera driver (ros2_astra_camera): how it finds the camera,   *)
(* builds the node that streams from it, takes that node down when the     *)
(* camera is unplugged, and finds the camera again.                        *)
(*                                                                         *)
(* Three threads meet.  The query thread looks for a camera while none is  *)
(* connected, opens it and builds the OBCameraNode.  OpenNI's thread calls *)
(* the listener, which keeps the list of devices and, on an unplug, takes  *)
(* the node down.  The node's own threads publish transforms and poll the  *)
(* streams; they are joined before the node is gone.  Only the list has a  *)
(* lock (OBContext::mutex_), held by the listener for the whole of a call. *)
(*                                                                         *)
(* There is one camera, with one URI; session numbers tell its plugs       *)
(* apart.  The services and the frames' contents are left out.             *)
(***************************************************************************)
EXTENDS Integers, Sequences

CONSTANTS
    MaxSessions,  \* bound: how often the camera is plugged in
    MaxFails      \* bound: operations that fail on a camera that is there

ASSUME CameraAssumption == MaxSessions \in Nat \ {0} /\ MaxFails \in Nat

VARIABLES
    plugged, session,  \* the camera: is it plugged in, and for which time
    events,     \* OpenNI's calls of the listener still to come
    list,       \* is the camera in device_info_list_
    first,      \* first_query_
    lpc,        \* the listener's call on its way
    qpc, found, \* the query thread, and what its enumeration found
    opened,     \* the session its openni::Device was opened in (0: closed)
    held,       \* device_ is that openni::Device
    uri,        \* device_uri_ is the camera's
    connected,  \* device_connected_
    made,       \* the OBCameraNode being constructed
    node,       \* ob_camera_node_
    dying,      \* per thread: the OBCameraNode it is destroying
    fails,
    died,       \* std::terminate was called
    raced       \* history: the listener's call for an unplug overlapped with a start

cameraVars == <<plugged, session, events>>
listVars == <<list, first>>
factoryVars == <<opened, held, uri, connected>>
nodeVars == <<made, node, dying>>
historyVars == <<fails, died, raced>>
vars == <<cameraVars, listVars, lpc, qpc, found, factoryVars, nodeVars, historyVars>>

None == [session |-> 0, streams |-> FALSE, open |-> FALSE, running |-> FALSE, tf |-> FALSE, poll |-> "none"]

Init ==
    /\ plugged \in BOOLEAN /\ session = (IF plugged THEN 1 ELSE 0) /\ events = <<>>
    /\ list = FALSE /\ first = TRUE
    /\ lpc = "idle" /\ qpc = "look" /\ found = FALSE /\ opened = 0 /\ held = FALSE
    /\ uri = FALSE /\ connected = FALSE
    /\ made = None /\ node = None /\ dying = [t \in {"listener", "query"} |-> None]
    /\ fails = 0 /\ died = FALSE /\ raced = FALSE

-----------------------------------------------------------------------------
(***************************************************************************)
(* The camera and its USB port.                                            *)
(***************************************************************************)
PlugIn ==
    /\ ~plugged /\ session < MaxSessions
    /\ plugged' = TRUE /\ session' = session + 1
    /\ events' = Append(events, "in")
    /\ UNCHANGED <<listVars, lpc, qpc, found, factoryVars, nodeVars, historyVars>>

Unplug ==
    /\ plugged
    /\ plugged' = FALSE
    /\ events' = Append(events, "out")
    /\ UNCHANGED <<session, listVars, lpc, qpc, found, factoryVars, nodeVars, historyVars>>

-----------------------------------------------------------------------------
(***************************************************************************)
(* The listener.                                                           *)
(***************************************************************************)
HearIn ==
    /\ lpc = "idle" /\ events # <<>> /\ Head(events) = "in"
    /\ events' = Tail(events)
    /\ list' = TRUE
    /\ UNCHANGED <<plugged, session, first, lpc, qpc, found, factoryVars, nodeVars, historyVars>>

\* From the opening of the camera until device_connected_ is set.
Starting == qpc \in {"start", "reset", "clean", "setup", "stream", "poll", "mark"}

\* A thread t that resets the pointer to the node has the node to itself from
\* then on; clean begins with is_running_, and joins the node's threads before
\* the streams are stopped and destroyed.
Takes(t) ==
    /\ node' = None
    /\ dying' = [dying EXCEPT ![t] = [node EXCEPT !.running = FALSE]]
Cleaned(t) ==
    /\ ~dying[t].tf /\ dying[t].poll \in {"none", "ended"}
    /\ dying' = [dying EXCEPT ![t] = None]

\* onDeviceDisconnected takes the node down if the camera is the one in use.
HearOut ==
    /\ lpc = "idle" /\ events # <<>> /\ Head(events) = "out"
    /\ raced' = (raced \/ Starting)
    /\ \/ /\ uri
          /\ uri' = FALSE
          /\ Takes("listener")
          /\ lpc' = "clean"
          /\ UNCHANGED <<list, events>>
       \/ /\ ~uri
          /\ events' = Tail(events)
          /\ list' = FALSE
          /\ UNCHANGED <<lpc, uri, node, dying>>
    /\ UNCHANGED <<plugged, session, first, qpc, found, opened, held, connected, made, fails, died>>

Clean ==
    /\ lpc = "clean"
    /\ Cleaned("listener")
    /\ lpc' = "close"
    /\ UNCHANGED <<cameraVars, listVars, qpc, found, factoryVars, made, node, historyVars>>

\* The device is closed, under a node that was built meanwhile too.
CloseDevice ==
    /\ lpc = "close"
    /\ node' = [node EXCEPT !.open = FALSE]
    /\ IF held
       THEN opened' = 0 /\ held' = FALSE /\ made' = [made EXCEPT !.open = FALSE]
       ELSE UNCHANGED <<opened, held, made>>
    /\ lpc' = "forget"
    /\ UNCHANGED <<cameraVars, listVars, qpc, found, uri, connected, dying, historyVars>>

\* The lock is released when the camera is off the list too.
MutantStaysConnected == UNCHANGED connected
Disconnects == connected' = FALSE
Forget ==
    /\ lpc = "forget"
    /\ Disconnects
    /\ events' = Tail(events)
    /\ list' = FALSE
    /\ lpc' = "idle"
    /\ UNCHANGED <<plugged, session, first, qpc, found, opened, held, uri, nodeVars, historyVars>>

-----------------------------------------------------------------------------
(***************************************************************************)
(* The query thread.                                                       *)
(***************************************************************************)
\* It looks for a camera as long as none is connected.
MutantLooks == TRUE
Looks == ~connected

\* The first query asks OpenNI and puts the answer on the list; there is no
\* lock between the two.
Enumerate ==
    /\ qpc = "look" /\ Looks /\ first
    /\ found' = plugged
    /\ qpc' = "list"
    /\ UNCHANGED <<cameraVars, listVars, lpc, factoryVars, nodeVars, historyVars>>

EnumerationListed ==
    /\ qpc = "list" /\ lpc = "idle"
    /\ list' = (list \/ found)
    /\ first' = FALSE
    /\ qpc' = IF found THEN "open" ELSE "look"
    /\ UNCHANGED <<cameraVars, lpc, found, factoryVars, nodeVars, historyVars>>

ReadList ==
    /\ qpc = "look" /\ Looks /\ ~first
    /\ lpc = "idle" /\ list
    /\ qpc' = "open"
    /\ UNCHANGED <<cameraVars, listVars, lpc, found, factoryVars, nodeVars, historyVars>>

\* An operation on the camera fails if the camera has gone, and it may fail
\* while it is there.
Live == plugged /\ opened = session
MayFail(there) == IF there THEN fails < MaxFails /\ fails' = fails + 1 ELSE UNCHANGED fails

Open ==
    /\ qpc = "open" /\ plugged
    /\ opened' = session /\ held' = FALSE
    /\ qpc' = "start"
    /\ raced' = (raced \/ lpc # "idle")
    /\ UNCHANGED <<cameraVars, listVars, lpc, found, uri, connected, nodeVars, fails, died>>

OpenFails ==
    /\ qpc = "open"
    /\ MayFail(plugged)
    /\ qpc' = "check"
    /\ UNCHANGED <<cameraVars, listVars, lpc, found, factoryVars, nodeVars, died, raced>>

\* startDevice, up to the construction of the node: what an earlier start may
\* have left behind is destroyed first.
StartDevice ==
    /\ qpc = "start"
    /\ uri' = TRUE
    /\ qpc' = "reset"
    /\ UNCHANGED <<cameraVars, listVars, lpc, found, opened, held, connected, nodeVars, historyVars>>

ResetNode ==
    /\ qpc = "reset"
    /\ held' = TRUE
    /\ Takes("query")
    /\ qpc' = "clean"
    /\ UNCHANGED <<cameraVars, listVars, lpc, found, opened, uri, connected, made, historyVars>>

NodeReset ==
    /\ qpc = "clean"
    /\ Cleaned("query")
    /\ qpc' = "setup"
    /\ UNCHANGED <<cameraVars, listVars, lpc, found, factoryVars, made, node, historyVars>>

\* The streams are created and the transforms' thread is started.  On a device
\* closed meanwhile there is no sensor, hence no stream, and nothing fails.
Setup ==
    /\ qpc = "setup"
    /\ opened = 0 \/ Live
    /\ made' = [session |-> opened, streams |-> opened # 0, open |-> opened # 0,
                running |-> TRUE, tf |-> TRUE, poll |-> "none"]
    /\ qpc' = "stream"
    /\ UNCHANGED <<cameraVars, listVars, lpc, found, factoryVars, node, dying, historyVars>>

\* Creating a stream throws; the exception is caught and the device closed.
SetupFails ==
    /\ qpc = "setup" /\ opened # 0
    /\ MayFail(Live)
    /\ qpc' = "check"
    /\ UNCHANGED <<cameraVars, listVars, lpc, found, factoryVars, nodeVars, died, raced>>

StartStreams ==
    /\ qpc = "stream"
    /\ made.streams => Live
    /\ qpc' = "poll"
    /\ UNCHANGED <<cameraVars, listVars, lpc, found, factoryVars, nodeVars, historyVars>>

\* Starting a stream throws while the transforms' thread runs: destroying the
\* unfinished node destroys a joinable thread, which ends the process.
StartStreamsFails ==
    /\ qpc = "stream" /\ made.streams
    /\ MayFail(Live)
    /\ died' = TRUE
    /\ UNCHANGED <<cameraVars, listVars, lpc, qpc, found, factoryVars, nodeVars, raced>>

StartPolling ==
    /\ qpc = "poll"
    /\ node' = [made EXCEPT !.poll = "top"]
    /\ made' = None
    /\ qpc' = "mark"
    /\ UNCHANGED <<cameraVars, listVars, lpc, found, factoryVars, dying, historyVars>>

MarkConnected ==
    /\ qpc = "mark"
    /\ connected' = TRUE
    /\ qpc' = "check"
    /\ UNCHANGED <<cameraVars, listVars, lpc, found, opened, held, uri, nodeVars, historyVars>>

\* A device that did not become connected is closed.
Check ==
    /\ qpc = "check"
    /\ opened' = IF connected THEN opened ELSE 0
    /\ node' = IF connected THEN node ELSE [node EXCEPT !.open = FALSE]
    /\ qpc' = "look"
    /\ UNCHANGED <<cameraVars, listVars, lpc, found, held, uri, connected, made, dying, historyVars>>

-----------------------------------------------------------------------------
(***************************************************************************)
(* The threads of a node: pollFrame holds the streams while it waits for a *)
(* frame, and both look at is_running_ once around their loops.            *)
(***************************************************************************)
NextPoll(n) ==
    CASE n.poll = "reading" -> "top"
      [] n.poll = "top" /\ n.running /\ n.streams -> "reading"
      [] n.poll = "top" /\ ~n.running -> "ended"
      [] OTHER -> n.poll
PollFrame ==
    /\ \/ /\ node' = [node EXCEPT !.poll = NextPoll(node)]
          /\ UNCHANGED dying
       \/ /\ \E t \in DOMAIN dying : dying' = [dying EXCEPT ![t].poll = NextPoll(dying[t])]
          /\ UNCHANGED node
    /\ UNCHANGED <<cameraVars, listVars, lpc, qpc, found, factoryVars, made, historyVars>>

TransformsEnd ==
    /\ \E t \in DOMAIN dying :
          dying[t].tf /\ dying' = [dying EXCEPT ![t].tf = FALSE]
    /\ UNCHANGED <<cameraVars, listVars, lpc, qpc, found, factoryVars, made, node, historyVars>>

-----------------------------------------------------------------------------
Usb == PlugIn \/ Unplug
Listener == HearIn \/ HearOut \/ Clean \/ CloseDevice \/ Forget
Query ==
    \/ Enumerate \/ EnumerationListed \/ ReadList \/ Open \/ OpenFails \/ StartDevice
    \/ ResetNode \/ NodeReset \/ Setup \/ SetupFails \/ StartStreams \/ StartStreamsFails \/ StartPolling
    \/ MarkConnected \/ Check
NodeThreads == PollFrame \/ TransformsEnd

Next == ~died /\ (Usb \/ Listener \/ Query \/ NodeThreads)

Spec == Init /\ [][Next]_vars

\* Threads run.  That operations on a camera that is there do not fail for ever
\* is the bound MaxFails.
FairSpec ==
    Spec /\ WF_vars(~died /\ Listener) /\ WF_vars(~died /\ Query)
         /\ WF_vars(~died /\ PollFrame) /\ WF_vars(~died /\ TransformsEnd)

-----------------------------------------------------------------------------
(***************************************************************************)
(* Properties.                                                             *)
(***************************************************************************)
\* The camera has one user: while a start has it open no node, in use or still
\* being taken down by either thread, holds streams on it, however often the
\* camera is unplugged; device_connected_ is cleared only when the node has gone,
\* and the query thread does not look before.  Only an unplug heard during a start
\* breaks this: it clears device_uri_ under the node being built.
OneUser ==
    ~raced /\ qpc \in {"start", "reset", "clean", "setup", "stream", "poll"} =>
        \A n \in {node, dying["listener"], dying["query"]} : ~(n.streams /\ n.open)

\* When all has been heard and the query thread looks around, what the driver
\* believes is so: a connected camera is plugged in, opened and streamed from in
\* the session it was plugged in last, and without one nothing is left over.  An
\* unplug heard during a start is excluded: it resets the flag that the start
\* sets afterwards.
Settled == qpc = "look" /\ lpc = "idle" /\ events = <<>>
BeliefTrue ==
    Settled /\ ~raced /\ ~died =>
        IF connected
        THEN plugged /\ uri /\ opened = session /\ node.session = session
        ELSE opened = 0 /\ node = None /\ \A t \in DOMAIN dying : dying[t] = None

\* A camera that is plugged in again is streamed from again, unless starting a
\* stream ended the process or an unplug was heard during a start.
CameraComesBack ==
    [](~raced /\ ~died) /\ <>[]plugged => <>[](connected /\ node.session = session)

\* The safety it rests on: a camera that is plugged in is never overlooked.  When the
\* listener has caught up it is on the list, or the first enumeration is still to put it
\* there, which may overlap with plugs and unplugs (ob_context.cpp:29-41).
CameraListed ==
    plugged /\ events = <<>> => list \/ (first /\ (qpc = "look" \/ (qpc = "list" /\ found)))
=============================================================================
