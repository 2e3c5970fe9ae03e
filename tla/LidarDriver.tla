---------------------------- MODULE LidarDriver ----------------------------
(***************************************************************************)
(* The LiDAR driver (sllidar_ros2): the node's loop, the SDK it calls, the *)
(* SDK's decoder thread, and the device at the end of two byte streams.    *)
(*                                                                         *)
(* The node's thread asks the device questions, starts it, and then grabs  *)
(* completed scans and publishes them; between two grabs it serves         *)
(* start_motor and stop_motor.  The decoder thread takes what the device   *)
(* sends apart: answers to questions, and, once the header of a scanning   *)
(* session has come (loop mode), capsules of measurements.  The robot      *)
(* scans in DenseBoost mode, whose handler is modelled.                    *)
(*                                                                         *)
(* A capsule's measurements are known when the next capsule has come, so   *)
(* they are published one capsule late.  They are one node here; position  *)
(* p of a session is bearing p % Capsules, and bearing 0 has the sync bit  *)
(* that ends a scan and begins another.                                    *)
(***************************************************************************)
EXTENDS Integers, Sequences

CONSTANTS
    Capsules,    \* capsules in a revolution
    BufferSize,  \* the nodes a scan's buffer holds
    MaxPos,      \* bound: the last capsule of a session
    MaxLine,     \* bound: messages on their way to the host
    MaxFaults,   \* bound: capsules and commands spoiled on the line
    MaxLate,     \* bound: answers that come after their question's timeout
    MaxCalls     \* bound: calls of start_motor and stop_motor

ASSUME LidarAssumption ==
    /\ Capsules \in Nat /\ Capsules > 1
    /\ BufferSize \in Nat /\ BufferSize >= Capsules
    /\ MaxPos \in Nat /\ MaxLine \in Nat /\ MaxFaults \in Nat /\ MaxLate \in Nat
    /\ MaxCalls \in Nat

VARIABLES
    dev,       \* the device: does it scan and spin, its session and next capsule,
               \* and is that capsule the session's first (fresh)
    toDev,     \* commands on their way
    line,      \* answers, headers and capsules on their way
    looping,   \* the codec's STATUS_LOOP_MODE_FLAG
    torn,      \* in loop mode: are foreign bytes waiting before the next capsule's?
    cb,        \* the decoded message whose callback runs, if any
    enabled,   \* the unpacker's _enabled
    prev,      \* the handler's cached capsule (None: _is_previous_capsuledataRdy false)
    buf,       \* the scan being collected
    avail,     \* the completed scan (None: _scan_node_available_id is -1)
    ready,     \* the event _data_waiter
    waiting,   \* _waiting_packet_type
    answer,    \* _lastAnsPkt
    replied,   \* the event _response_waiter
    pc, todo,  \* the node's thread, and what its call has left to do
    working,   \* the transceiver's _isWorking
    req,       \* the number of the last question
    calls,     \* service calls made
    faults, late, spoiled,  \* history: what went wrong on the line
    mistaken,  \* history: a question took an earlier one's answer
    scans,     \* history: scans completed
    grabbed    \* history: the scan last published, and how often running

deviceVars == <<dev, toDev, line>>
decoderVars == <<looping, torn, cb, enabled, prev>>
holderVars == <<buf, avail, ready, scans>>
answerVars == <<waiting, answer, replied>>
nodeVars == <<pc, todo, working, req, calls>>
faultVars == <<faults, late, spoiled, mistaken>>
vars == <<deviceVars, decoderVars, holderVars, answerVars, nodeVars, faultVars, grabbed>>

None == [kind |-> "none"]
Node(c) == [session |-> c.session, pos |-> c.pos]
Sync(n) == n.pos % Capsules = 0

\* What a call of the node does, step by step: questions (with what a failure
\* leads to: go on, to the loop, or out of the process) and commands.
\* Questions in a row with the same outcome are one.
Ask(type, fail) == [do |-> "ask", type |-> type, fail |-> fail]
Send(cmd) == [do |-> cmd]
SetMotorSpeed == <<Ask("conf", "next"), Send("spin")>>
StopAndAsk == <<Send("stop"), Ask("info", "loop"), Ask("conf", "loop")>>
StartScanExpress == StopAndAsk \o SetMotorSpeed \o <<Send("scan")>>
StartScan == StopAndAsk \o StartScanExpress
Connect == <<Ask("info", "next"), Ask("info", "exit")>>
ScanModes == <<Ask("info", "loop"), Ask("conf", "loop")>>
StartUp == Connect \o SetMotorSpeed \o ScanModes \o StartScanExpress
StartMotor == SetMotorSpeed \o StartScan
StopMotor == <<Send("rest")>>
ShutDown == <<Send("rest"), Send("stop"), Send("exit")>>

\* The device may still scan for a process that was killed.
Init ==
    /\ dev \in [scans : BOOLEAN, spins : {TRUE}, fresh : {FALSE}, session : {0}, next : {0}]
    /\ toDev = <<>> /\ line = <<>>
    /\ looping = FALSE /\ torn = FALSE /\ cb = None /\ enabled = FALSE /\ prev = None
    /\ buf = <<>> /\ avail = None /\ ready = FALSE /\ scans = 0
    /\ waiting = "none" /\ answer = None /\ replied = FALSE
    /\ pc = "open" /\ todo = <<>> /\ working = FALSE /\ req = 0 /\ calls = 0
    /\ faults = 0 /\ late = 0 /\ spoiled = {} /\ mistaken = FALSE
    /\ grabbed = None

-----------------------------------------------------------------------------
(***************************************************************************)
(* The device.                                                             *)
(***************************************************************************)
DeviceObeys ==
    /\ toDev # <<>> /\ Len(line) < MaxLine
    /\ toDev' = Tail(toDev)
    /\ LET c == Head(toDev) IN
       \/ /\ c.do = "ask"
          /\ line' = Append(line, [kind |-> "answer", type |-> c.type, req |-> c.req])
          /\ UNCHANGED dev
       \/ /\ c.do = "scan"
          /\ \E p \in 0 .. Capsules - 1 :
                dev' = [dev EXCEPT !.scans = TRUE, !.fresh = TRUE,
                                   !.session = @ + 1, !.next = p]
          /\ line' = Append(line, [kind |-> "header"])
       \/ /\ c.do = "stop"
          /\ dev' = [dev EXCEPT !.scans = FALSE]
          /\ UNCHANGED line
       \/ /\ c.do \in {"spin", "rest"}
          /\ dev' = [dev EXCEPT !.spins = (c.do = "spin")]
          /\ UNCHANGED line
    /\ UNCHANGED <<decoderVars, holderVars, answerVars, nodeVars, faultVars, grabbed>>

\* A capsule goes out.  The first of a session says so (the mark of an encoder
\* reset); one spoiled on the line fails its checksum.
DeviceMeasures ==
    /\ dev.scans /\ dev.spins
    /\ dev.next <= MaxPos /\ Len(line) < MaxLine
    /\ \E good \in BOOLEAN :
          /\ good \/ faults < MaxFaults
          /\ line' = Append(line, [kind |-> "capsule", session |-> dev.session,
                                   pos |-> dev.next, first |-> dev.fresh,
                                   good |-> good])
          /\ faults' = IF good THEN faults ELSE faults + 1
          /\ spoiled' = IF good THEN spoiled
                        ELSE spoiled \cup {[session |-> dev.session, pos |-> dev.next]}
    /\ dev' = [dev EXCEPT !.next = @ + 1, !.fresh = FALSE]
    /\ UNCHANGED <<toDev, decoderVars, holderVars, answerVars, nodeVars, late, mistaken, grabbed>>

-----------------------------------------------------------------------------
(***************************************************************************)
(* The decoder thread.                                                     *)
(***************************************************************************)
\* onDecodeData takes one message apart.  Without a header a capsule's bytes
\* are skipped; in loop mode everything is taken for a capsule's.  The bytes
\* that head an answer or a header pass for a capsule's own, so its bytes and
\* the next capsule's are taken for one, which fails its checksum, and what is
\* left over of that capsule may do the same to the next.  Enough of such
\* messages fill a capsule themselves.
Filled == [kind |-> "capsule", session |-> -1, pos |-> 0, first |-> FALSE, good |-> FALSE]
Decode ==
    /\ cb = None /\ line # <<>>
    /\ line' = Tail(line)
    /\ LET m == Head(line) IN
       \/ /\ ~looping
          /\ looping' = (m.kind = "header")
          /\ cb' = IF m.kind = "answer" THEN m ELSE None
          /\ UNCHANGED torn
       \/ /\ looping /\ m.kind = "capsule"
          /\ cb' = [m EXCEPT !.good = @ /\ ~torn]
          /\ \E again \in BOOLEAN : torn' = (torn /\ again)
          /\ UNCHANGED looping
       \/ /\ looping /\ m.kind # "capsule"
          /\ \/ torn' = TRUE /\ cb' = None
             \/ torn /\ torn' = FALSE /\ cb' = Filled
          /\ UNCHANGED looping
    /\ UNCHANGED <<dev, toDev, enabled, prev, holderVars, answerVars, nodeVars, faultVars, grabbed>>

\* pushScanNodeData: what a node does to the scan b being collected.
Stored(b, n) ==
    IF Sync(n) THEN <<n>>
    ELSE IF b = <<>> THEN <<>>
    ELSE IF Len(b) >= BufferSize THEN [b EXCEPT ![Len(b)] = n] ELSE Append(b, n)

\* A scan ends with the node that begins the next one; every scan is signalled.
MutantSignalled == avail = None
Signalled == TRUE
Push(b, n) ==
    /\ buf' = Stored(b, n)
    /\ IF Sync(n) /\ b # <<>>
       THEN /\ avail' = [kind |-> "scan", id |-> scans + 1, nodes |-> b, end |-> n]
            /\ scans' = scans + 1
            /\ ready' = (ready \/ Signalled)
       ELSE UNCHANGED <<avail, scans, ready>>

\* The dense capsule handler: a session's first capsule drops what was cached
\* and collected, a spoiled one what was cached.
MutantDropsCached(c) == ~c.good
DropsCached(c) == c.first \/ ~c.good
OnCapsule ==
    /\ cb.kind = "capsule" /\ enabled
    /\ cb' = None
    /\ LET cached == IF DropsCached(cb) THEN None ELSE prev
           collected == IF cb.first /\ cb.good THEN <<>> ELSE buf
       IN  /\ prev' = IF cb.good THEN cb ELSE cached
           /\ IF cb.good /\ cached # None
              THEN Push(collected, Node(cached))
              ELSE buf' = collected /\ UNCHANGED <<avail, ready, scans>>
    /\ UNCHANGED <<deviceVars, looping, torn, enabled, answerVars, nodeVars, faultVars, grabbed>>

\* onProtocolMessageDecoded: what the unpacker does not take may be the answer.
\* _waiting_packet_type is read before the lock is taken under which the answer
\* is stored and signalled.
Type(m) == IF m.kind = "answer" THEN m.type ELSE "capsule"
MutantMatches(m) == TRUE
Matches(m) == Type(m) = waiting
MatchAnswer ==
    /\ cb.kind = "answer" \/ (cb.kind = "capsule" /\ ~enabled)
    /\ cb' = IF Matches(cb)
             THEN [kind |-> "match", type |-> Type(cb),
                   req |-> IF cb.kind = "answer" THEN cb.req ELSE 0]
             ELSE None
    /\ UNCHANGED <<deviceVars, looping, torn, enabled, prev, holderVars, answerVars, nodeVars, faultVars, grabbed>>

StoreAnswer ==
    /\ cb.kind = "match"
    /\ cb' = None
    /\ answer' = cb
    /\ replied' = TRUE
    /\ UNCHANGED <<deviceVars, looping, torn, enabled, prev, holderVars, waiting, nodeVars, faultVars, grabbed>>

\* reset of the scan holder, before another session.
MutantResetScans == buf' = <<>> /\ avail' = None /\ UNCHANGED <<ready, scans>>
ResetScans == buf' = <<>> /\ avail' = None /\ ready' = FALSE /\ UNCHANGED scans

-----------------------------------------------------------------------------
(***************************************************************************)
(* The node's thread.                                                      *)
(***************************************************************************)
\* openChannelAndBind returns success whether or not the channel opened.
Open ==
    /\ pc = "open"
    /\ working' \in BOOLEAN
    /\ pc' = "run" /\ todo' = StartUp
    /\ UNCHANGED <<deviceVars, decoderVars, holderVars, answerVars, req, calls, faultVars, grabbed>>

\* _disableDataGrabbing: the unpacker is disabled and loop mode left, and both
\* drop the bytes they hold.
DisableGrabbing == enabled' = FALSE /\ looping' = FALSE /\ torn' = FALSE

\* After a failed question.
Failed ==
    LET fail == Head(todo).fail IN
    /\ pc' = IF fail = "exit" THEN "exit" ELSE "run"
    /\ todo' = IF fail = "next" THEN Tail(todo) ELSE <<>>

\* _sendCommandWithResponse: under the lock, what the last answer left is
\* reset; then the question is written.  A closed channel fails it.
AskDevice ==
    /\ pc = "run" /\ todo # <<>> /\ Head(todo).do = "ask"
    /\ DisableGrabbing
    /\ waiting' = Head(todo).type
    /\ replied' = FALSE
    /\ req' = req + 1
    /\ IF working
       THEN /\ toDev' = Append(toDev, [do |-> "ask", type |-> Head(todo).type, req |-> req + 1])
            /\ pc' = "wait" /\ UNCHANGED todo
       ELSE Failed /\ UNCHANGED toDev
    /\ UNCHANGED <<dev, line, cb, prev, holderVars, answer, working, calls, faultVars, grabbed>>

Wake ==
    /\ pc = "wait" /\ replied
    /\ replied' = FALSE
    /\ pc' = "woken"
    /\ UNCHANGED <<deviceVars, decoderVars, holderVars, waiting, answer, todo, working, req, calls, faultVars, grabbed>>

\* An answer of another type is too short or carries the wrong tag, and fails
\* the question; a longer one passes for device information.
TakeAnswer ==
    /\ pc = "woken"
    /\ \/ /\ answer.type = waiting \/ waiting = "info"
          /\ pc' = "run" /\ todo' = Tail(todo)
       \/ /\ answer.type # waiting
          /\ Failed
    /\ mistaken' = (mistaken \/ answer.req # req)
    /\ UNCHANGED <<deviceVars, decoderVars, holderVars, answerVars, working, req, calls, faults, late, spoiled, grabbed>>

\* The wait for an answer may end before it comes.
Coming ==
    \/ cb.kind \in {"answer", "match"}
    \/ \E i \in 1 .. Len(line) : line[i].kind = "answer"
    \/ \E i \in 1 .. Len(toDev) : toDev[i].do = "ask"
TimeOut ==
    /\ pc = "wait" /\ ~replied
    /\ IF Coming THEN late < MaxLate /\ late' = late + 1 ELSE UNCHANGED late
    /\ Failed
    /\ UNCHANGED <<deviceVars, decoderVars, holderVars, answerVars, working, req, calls, faults, spoiled, mistaken, grabbed>>

\* A command without an answer.  stop leaves loop mode; before the scan command
\* the buffers of scans are reset and the unpacker is enabled.  The results of
\* stop and of motor commands are dropped; a command may be lost on the line.
SendCommand ==
    /\ pc = "run" /\ todo # <<>> /\ Head(todo).do \in {"spin", "rest", "stop", "scan"}
    /\ LET cmd == Head(todo).do IN
       /\ IF cmd = "stop" THEN DisableGrabbing
          ELSE enabled' = (enabled \/ cmd = "scan") /\ UNCHANGED <<looping, torn>>
       /\ IF cmd = "scan" THEN ResetScans ELSE UNCHANGED holderVars
       /\ \/ toDev' = Append(toDev, [do |-> cmd]) /\ UNCHANGED faults
          \/ UNCHANGED toDev /\ faults < MaxFaults /\ faults' = faults + 1
    /\ replied' = FALSE
    /\ todo' = Tail(todo)
    /\ UNCHANGED <<dev, line, cb, prev, waiting, answer, pc, working, req, calls, late, spoiled, mistaken, grabbed>>

\* A call is over: back to the loop, which start-up enters even when the scan
\* could not be started, or out of the process.
CallEnds ==
    /\ pc = "run"
    /\ \/ todo = <<>> /\ pc' = "loop"
       \/ todo # <<>> /\ Head(todo).do = "exit" /\ pc' = "exit"
    /\ UNCHANGED <<deviceVars, decoderVars, holderVars, answerVars, todo, working, req, calls, faultVars, grabbed>>

\* grabScanDataHq waits for the event first and locks the buffers then: a scan
\* completed in between takes the other's place and leaves the event set.
MutantAfterWait == ready
AfterWait == FALSE
GrabWake ==
    /\ pc = "loop" /\ ready
    /\ ready' = AfterWait
    /\ pc' = "grab"
    /\ UNCHANGED <<deviceVars, decoderVars, buf, avail, scans, answerVars, todo, working, req, calls, faultVars, grabbed>>

GrabTimeOut ==
    /\ pc = "loop" /\ ~ready
    /\ pc' = "spin"
    /\ UNCHANGED <<deviceVars, decoderVars, holderVars, answerVars, todo, working, req, calls, faultVars, grabbed>>

\* The scan is copied under the lock and published.
Newest == grabbed # None /\ grabbed.scan = avail
GrabScan ==
    /\ pc = "grab" /\ avail # None
    /\ grabbed' = [scan |-> avail, times |-> IF Newest THEN grabbed.times + 1 ELSE 1]
    /\ pc' = "spin"
    /\ UNCHANGED <<deviceVars, decoderVars, holderVars, answerVars, todo, working, req, calls, faultVars>>

\* spin_some, once around the loop: nothing, a service call, or SIGINT, which
\* ends the loop.
SpinSome ==
    /\ pc = "spin"
    /\ \/ pc' = "loop" /\ UNCHANGED <<todo, calls>>
       \/ /\ calls < MaxCalls /\ calls' = calls + 1
          /\ pc' = "run" /\ todo' \in {StartMotor, StopMotor}
       \/ pc' = "run" /\ todo' = ShutDown /\ UNCHANGED calls
    /\ UNCHANGED <<deviceVars, decoderVars, holderVars, answerVars, working, req, faultVars, grabbed>>

-----------------------------------------------------------------------------
Device == DeviceObeys \/ DeviceMeasures
Decoder == Decode \/ OnCapsule \/ MatchAnswer \/ StoreAnswer
NodeThread ==
    \/ Open \/ AskDevice \/ Wake \/ TakeAnswer \/ TimeOut \/ SendCommand \/ CallEnds
    \/ GrabWake \/ GrabTimeOut \/ GrabScan \/ SpinSome

Next == Device \/ Decoder \/ NodeThread

Spec == Init /\ [][Next]_vars

\* The node's thread runs, the decoder runs, the device obeys.  That it
\* measures is not assumed.
FairSpec ==
    Spec /\ WF_vars(NodeThread) /\ WF_vars(Decoder) /\ WF_vars(DeviceObeys)

-----------------------------------------------------------------------------
(***************************************************************************)
(* Properties.                                                             *)
(***************************************************************************)
Types == {"info", "conf"}
Steps == [do : {"ask"}, type : Types, fail : {"next", "loop", "exit"}]
            \cup [do : {"spin", "rest", "stop", "scan", "exit"}]
Commands == [do : {"ask"}, type : Types, req : Nat] \cup [do : {"spin", "rest", "stop", "scan"}]
Answers == [kind : {"answer"}, type : Types, req : Nat]
Matched == [kind : {"match"}, type : Types, req : Nat]
CapsuleData == [kind : {"capsule"}, session : Int, pos : Nat, first : BOOLEAN, good : BOOLEAN]
Messages == Answers \cup [kind : {"header"}] \cup CapsuleData
Nodes == [session : Int, pos : Nat]
Scan == [kind : {"scan"}, id : Nat, nodes : Seq(Nodes), end : Nodes]

\* Every variable has the type its use gives it, and no buffer grows beyond its
\* size; what is taken for an answer is one; foreign bytes wait in loop mode only.
TypeOK ==
    /\ dev \in [scans : BOOLEAN, spins : BOOLEAN, fresh : BOOLEAN, session : Nat, next : Nat]
    /\ toDev \in Seq(Commands) /\ line \in Seq(Messages)
    /\ looping \in BOOLEAN /\ torn \in BOOLEAN /\ (torn => looping)
    /\ cb \in {None} \cup Answers \cup Matched \cup CapsuleData
    /\ enabled \in BOOLEAN /\ prev \in {None} \cup CapsuleData
    /\ buf \in Seq(Nodes) /\ Len(buf) <= BufferSize
    /\ avail \in {None} \cup Scan /\ ready \in BOOLEAN /\ scans \in Nat
    /\ waiting \in {"none"} \cup Types /\ answer \in {None} \cup Matched /\ replied \in BOOLEAN
    /\ pc \in {"open", "run", "wait", "woken", "loop", "grab", "spin", "exit"}
    /\ todo \in Seq(Steps) /\ (pc \in {"wait", "woken"} => todo # <<>> /\ Head(todo).do = "ask")
    /\ working \in BOOLEAN /\ req \in Nat /\ calls \in 0..MaxCalls
    /\ faults \in 0..MaxFaults /\ late \in 0..MaxLate
    /\ spoiled \subseteq Nodes /\ mistaken \in BOOLEAN
    /\ grabbed = None \/ grabbed \in [scan : Scan, times : Nat]

\* Whenever the event lets a grab through there is a scan to grab (the assertion
\* at sl_lidar_driver.cpp:322), although the event and the buffers are two
\* things, the decoder completes scans at any time and a restart resets both.
ScanBehindEvent == ready \/ pc = "grab" => avail # None

\* A published scan is of one session, nothing collected before a restart gets
\* into it, and the sync bit is on its first node and on the one that ended it,
\* nowhere else.  Its nodes follow each other with gaps only where a capsule was
\* spoiled; so an undisturbed scan is one whole revolution
\* (sl_lidar_driver.h:421-422).  When a spoiled sync bit merged two revolutions
\* they may overflow the buffer, whose last entry is then overwritten.  All this
\* unless a question took an earlier one's answer: that does not end the old
\* session's data, and a header of that session may be taken for the new one's.
InOrder(n, m) == n.session = m.session /\ n.pos < m.pos
Disturbed(n, m) == \E c \in spoiled : c.session = n.session /\ n.pos < c.pos /\ c.pos < m.pos
Follows(n, m) == InOrder(n, m) /\ (m.pos = n.pos + 1 \/ Disturbed(n, m))
Whole(scan) ==
    LET all == Append(scan.nodes, scan.end)
        overflown == Len(scan.nodes) = BufferSize /\ Disturbed(all[1], scan.end)
    IN  /\ \A i \in 1 .. Len(all) : Sync(all[i]) <=> i \in {1, Len(all)}
        /\ \A i \in 1 .. Len(scan.nodes) :
              \/ Follows(all[i], all[i + 1])
              \/ overflown /\ i + 1 = BufferSize /\ InOrder(all[i], all[i + 1])
ScansWhole == grabbed # None /\ ~mistaken => Whole(grabbed.scan)

\* The answer a question is about to take is its own; it is an earlier one's only
\* if some questions were given up before their answers came, and then it is behind
\* by no more than there were of them.
AnswersMatch ==
    pc = "woken" => /\ answer.req <= req /\ req - answer.req <= late
                    /\ late = 0 => answer.type = waiting

\* Scans are published in the order they were made, each at most twice: the
\* second time when it took the place of one that was being grabbed.
ScansInOrder ==
    [][grabbed' # grabbed /\ grabbed # None =>
          /\ grabbed'.scan.id >= grabbed.scan.id
          /\ grabbed'.times <= 2]_vars

\* A completed scan does not wait for ever: it, or the one that took its place, is
\* published, unless the scanning is restarted or the process ends first.
ScansDelivered == avail # None ~> (Newest \/ avail = None \/ pc = "exit")

\* The safety it rests on, no wake-up is lost: a scan that was not published has
\* its event set, or the node is on its way to it (sl_lidar_driver.cpp:317-331).
ScanSignalled == avail # None /\ ~Newest => ready \/ pc = "grab"
=============================================================================
