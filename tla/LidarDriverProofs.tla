-------------------------- MODULE LidarDriverProofs --------------------------
(***************************************************************************)
(* What holds of LidarDriver for every value of its constants.             *)
(***************************************************************************)
EXTENDS LidarDriver, SequenceTheorems, TLAPS

USE DEF deviceVars, decoderVars, holderVars, answerVars, nodeVars, faultVars

-----------------------------------------------------------------------------
(***************************************************************************)
(* Types.                                                                  *)
(***************************************************************************)
\* Every call of the node is made of the steps a call can have.
LEMMA CallsAreSteps ==
    /\ SetMotorSpeed \in Seq(Steps) /\ StopAndAsk \in Seq(Steps) /\ StartScanExpress \in Seq(Steps)
    /\ StartScan \in Seq(Steps) /\ Connect \in Seq(Steps)
    /\ ScanModes \in Seq(Steps) /\ StartUp \in Seq(Steps) /\ StartMotor \in Seq(Steps)
    /\ StopMotor \in Seq(Steps) /\ ShutDown \in Seq(Steps)
<1>1. /\ \A type \in Types : \A fail \in {"next", "loop", "exit"} : Ask(type, fail) \in Steps
      /\ \A cmd \in {"spin", "rest", "stop", "scan", "exit"} : Send(cmd) \in Steps
  BY DEF Ask, Send, Steps
<1>2. "info" \in Types /\ "conf" \in Types
  BY DEF Types
<1>. HIDE DEF Steps, Types
<1>3. SetMotorSpeed \in Seq(Steps)
  BY <1>1, <1>2 DEF SetMotorSpeed
<1>4. Connect \in Seq(Steps) /\ ScanModes \in Seq(Steps)
  BY <1>1, <1>2 DEF Connect, ScanModes
<1>5. StopMotor \in Seq(Steps) /\ ShutDown \in Seq(Steps)
  BY <1>1 DEF StopMotor, ShutDown
<1>6. StopAndAsk \in Seq(Steps) /\ StartScanExpress \in Seq(Steps) /\ StartScan \in Seq(Steps)
  <2>1. StopAndAsk \in Seq(Steps)
    BY <1>1, <1>2 DEF StopAndAsk
  <2>2. <<Send("scan")>> \in Seq(Steps)
    BY <1>1
  <2>3. QED
    BY <1>3, <2>1, <2>2, ConcatProperties DEF StartScan, StartScanExpress
<1>7. StartUp \in Seq(Steps) /\ StartMotor \in Seq(Steps)
  BY <1>3, <1>4, <1>6, ConcatProperties DEF StartUp, StartMotor
<1>8. QED
  BY <1>3, <1>4, <1>5, <1>6, <1>7

\* What a node does to a scan's buffer keeps it a buffer of its size.
LEMMA StoredType ==
    ASSUME NEW b \in Seq(Nodes), Len(b) <= BufferSize, NEW n \in Nodes
    PROVE  Stored(b, n) \in Seq(Nodes) /\ Len(Stored(b, n)) <= BufferSize
<1>0. BufferSize \in Nat /\ BufferSize >= 1
  BY LidarAssumption
<1>1. CASE Sync(n) \/ b = <<>>
  BY <1>0, <1>1 DEF Stored
<1>2. CASE ~Sync(n) /\ b # <<>> /\ Len(b) >= BufferSize
  <2>1. Len(b) \in 1..Len(b)
    BY <1>2
  <2>2. [b EXCEPT ![Len(b)] = n] \in Seq(Nodes) /\ Len([b EXCEPT ![Len(b)] = n]) = Len(b)
    BY <2>1, ExceptSeq
  <2>3. QED
    BY <1>2, <2>2 DEF Stored
<1>3. CASE ~Sync(n) /\ b # <<>> /\ ~(Len(b) >= BufferSize)
  <2>1. Stored(b, n) = Append(b, n)
    BY <1>3 DEF Stored
  <2>2. QED
    BY <1>0, <1>3, <2>1, AppendProperties
<1>4. QED
  BY <1>1, <1>2, <1>3

\* The record of the device keeps its type.
Devices(B) == [scans : B, spins : B, fresh : B, session : Nat, next : Nat]
LEMMA DeviceType ==
    ASSUME NEW B, NEW d \in Devices(B), NEW x \in B, NEW y \in B, NEW k \in Nat, NEW p \in Nat
    PROVE  /\ [d EXCEPT !.scans = x, !.fresh = y, !.session = k, !.next = p] \in Devices(B)
           /\ [d EXCEPT !.scans = x] \in Devices(B)
           /\ [d EXCEPT !.spins = x] \in Devices(B)
           /\ [d EXCEPT !.next = p, !.fresh = x] \in Devices(B)
           /\ d.session \in Nat /\ d.next \in Nat
BY DEF Devices

LEMMA DeviceIdle ==
    ASSUME NEW B, NEW S \in SUBSET B, NEW F \in SUBSET B,
           NEW d \in [scans : B, spins : S, fresh : F, session : {0}, next : {0}]
    PROVE  d \in Devices(B)
BY DEF Devices

\* What the decoder takes from the line.  In loop mode a capsule that no foreign
\* bytes precede comes as it was sent.
LEMMA DecodeTakes ==
    ASSUME TypeOK, Decode
    PROVE  /\ cb = None /\ line # <<>> /\ line' = Tail(line) /\ Head(line) \in Messages
           /\ cb' \in {None} \cup Answers \cup CapsuleData
           /\ looping' \in BOOLEAN /\ torn' \in BOOLEAN /\ (torn' => looping')
           /\ cb'.kind = "answer" => ~looping /\ cb' = Head(line)
           /\ ~looping => /\ looping' = (Head(line).kind = "header") /\ torn' = FALSE
                          /\ cb' = IF Head(line).kind = "answer" THEN Head(line) ELSE None
                          /\ cb'.kind # "capsule"
           /\ looping /\ ~torn /\ Head(line).kind = "capsule" =>
                  looping' = TRUE /\ torn' = FALSE /\ cb' = Head(line)
<1>1. /\ cb = None /\ line # <<>> /\ line' = Tail(line) /\ line \in Seq(Messages)
      /\ looping \in BOOLEAN /\ torn \in BOOLEAN /\ (torn => looping)
  BY DEF Decode, TypeOK
<1>2. Head(line) \in Messages
  BY <1>1
<1>3. CASE ~looping
  <2>1. /\ looping' = (Head(line).kind = "header") /\ torn' = torn
        /\ cb' = IF Head(line).kind = "answer" THEN Head(line) ELSE None
    BY <1>3 DEF Decode
  <2>2. Head(line).kind = "answer" => Head(line) \in Answers
    BY <1>2 DEF Messages, CapsuleData
  <2>3. cb'.kind # "capsule" /\ (cb'.kind = "answer" => cb' = Head(line))
    BY <2>1 DEF None
  <2>4. cb' \in {None} \cup Answers \cup CapsuleData
    BY <2>1, <2>2
  <2>5. looping' \in BOOLEAN /\ torn' = FALSE
    BY <1>1, <1>3, <2>1
  <2>6. QED
    BY <1>1, <1>2, <1>3, <2>1, <2>3, <2>4, <2>5
<1>4. CASE looping /\ Head(line).kind = "capsule"
  <2>1. /\ cb' = [Head(line) EXCEPT !.good = @ /\ ~torn] /\ looping' = looping
        /\ \E again \in BOOLEAN : torn' = (torn /\ again)
    BY <1>4 DEF Decode
  <2>2. Head(line) \in CapsuleData
    BY <1>2, <1>4 DEF Messages, Answers
  <2>3. cb' \in CapsuleData
    <3>1. Head(line).good \in BOOLEAN /\ (Head(line).good /\ ~torn) \in BOOLEAN
      BY <2>2 DEF CapsuleData
    <3>2. \A g \in BOOLEAN : [Head(line) EXCEPT !.good = g] \in CapsuleData
      BY <2>2 DEF CapsuleData
    <3>3. QED
      BY <2>1, <3>1, <3>2, Zenon
  <2>4. cb'.kind = "capsule"
    BY <2>3 DEF CapsuleData
  <2>5. ~torn => cb' = Head(line)
    <3>1. Head(line).good \in BOOLEAN
      BY <2>2 DEF CapsuleData
    <3>2. ~torn => (Head(line).good /\ ~torn) = Head(line).good
      BY <3>1
    <3>3. [Head(line) EXCEPT !.good = Head(line).good] = Head(line)
      BY <2>2 DEF CapsuleData
    <3>4. QED
      BY <2>1, <3>2, <3>3, Zenon
  <2>6. torn' \in BOOLEAN /\ (~torn => torn' = FALSE)
    BY <1>1, <2>1
  <2>7. QED
    BY <1>1, <1>2, <1>4, <2>1, <2>3, <2>4, <2>5, <2>6
<1>5. CASE looping /\ Head(line).kind # "capsule"
  <2>1. looping' = looping /\ torn' \in BOOLEAN /\ cb' \in {None, Filled}
    BY <1>5 DEF Decode
  <2>2. Filled \in CapsuleData
    BY DEF Filled, CapsuleData
  <2>3. cb'.kind # "answer"
    BY <2>1 DEF None, Filled
  <2>4. QED
    BY <1>1, <1>2, <1>5, <2>1, <2>2, <2>3
<1>6. QED
  BY <1>3, <1>4, <1>5

\* Every step keeps the types.
LEMMA StepTypes == TypeOK /\ [Next]_vars => TypeOK'
<1> SUFFICES ASSUME TypeOK, [Next]_vars
             PROVE  TypeOK'
  OBVIOUS
<1>c. MaxCalls \in Nat /\ MaxFaults \in Nat /\ MaxLate \in Nat /\ Capsules \in Nat
  BY LidarAssumption
<1>d. /\ toDev # <<>> => Head(toDev) \in Commands /\ Tail(toDev) \in Seq(Commands)
      /\ line # <<>> => Head(line) \in Messages /\ Tail(line) \in Seq(Messages)
      /\ todo # <<>> => Head(todo) \in Steps /\ Tail(todo) \in Seq(Steps)
      /\ \A c \in Commands : Append(toDev, c) \in Seq(Commands)
      /\ \A m \in Messages : Append(line, m) \in Seq(Messages)
  BY DEF TypeOK
<1>1. CASE DeviceObeys
  <2>1. toDev' \in Seq(Commands) /\ Head(toDev) \in Commands
    BY <1>1, <1>d DEF DeviceObeys
  <2>d. dev' \in Devices(BOOLEAN)
    <3>1. dev \in Devices(BOOLEAN)
      BY DEF TypeOK, Devices
    <3>2. \/ dev' = dev
          \/ \E p \in 0 .. Capsules - 1 :
                dev' = [dev EXCEPT !.scans = TRUE, !.fresh = TRUE,
                                   !.session = @ + 1, !.next = p]
          \/ dev' = [dev EXCEPT !.scans = FALSE]
          \/ \E b \in BOOLEAN : dev' = [dev EXCEPT !.spins = b]
      BY <1>1 DEF DeviceObeys
    <3>3. ASSUME NEW p \in 0 .. Capsules - 1
          PROVE  [dev EXCEPT !.scans = TRUE, !.fresh = TRUE, !.session = @ + 1, !.next = p]
                   \in Devices(BOOLEAN)
      <4>0. dev.session \in Nat
        BY <3>1 DEF Devices
      <4>1. p \in Nat /\ dev.session + 1 \in Nat
        BY <1>c, <4>0
      <4>2. TRUE \in BOOLEAN
        OBVIOUS
      <4>3. QED
        BY <3>1, <4>1, <4>2, DeviceType, Zenon
    <3>4. /\ [dev EXCEPT !.scans = FALSE] \in Devices(BOOLEAN)
          /\ \A b \in BOOLEAN : [dev EXCEPT !.spins = b] \in Devices(BOOLEAN)
      <4>1. FALSE \in BOOLEAN /\ 0 \in Nat
        OBVIOUS
      <4>2. QED
        BY <3>1, <4>1, DeviceType, Zenon
    <3>5. QED
      BY <3>1, <3>2, <3>3, <3>4, Zenon
  <2>2. line' \in Seq(Messages)
    <3>1. CASE Head(toDev).do = "ask"
      <4>1. [kind |-> "answer", type |-> Head(toDev).type, req |-> Head(toDev).req] \in Messages
        BY <2>1, <3>1 DEF Commands, Messages, Answers
      <4>2. QED
        BY <1>1, <1>d, <3>1, <4>1 DEF DeviceObeys
    <3>2. CASE Head(toDev).do = "scan"
      <4>1. [kind |-> "header"] \in Messages
        BY DEF Messages
      <4>2. QED
        BY <1>1, <1>d, <3>2, <4>1 DEF DeviceObeys
    <3>3. CASE Head(toDev).do \notin {"ask", "scan"}
      BY <1>1, <3>3 DEF DeviceObeys, TypeOK
    <3>4. QED
      BY <3>1, <3>2, <3>3
  <2>3. UNCHANGED <<decoderVars, holderVars, answerVars, nodeVars, faultVars, grabbed>>
    BY <1>1 DEF DeviceObeys
  <2>4. QED
    BY <2>1, <2>d, <2>2, <2>3 DEF TypeOK, Devices
<1>2. CASE DeviceMeasures
  <2>1. PICK good \in BOOLEAN :
          /\ good \/ faults < MaxFaults
          /\ line' = Append(line, [kind |-> "capsule", session |-> dev.session,
                                   pos |-> dev.next, first |-> dev.fresh, good |-> good])
          /\ faults' = IF good THEN faults ELSE faults + 1
          /\ spoiled' = IF good THEN spoiled
                        ELSE spoiled \cup {[session |-> dev.session, pos |-> dev.next]}
    BY <1>2 DEF DeviceMeasures
  <2>2. [kind |-> "capsule", session |-> dev.session,
         pos |-> dev.next, first |-> dev.fresh, good |-> good] \in Messages
    BY DEF TypeOK, Messages, CapsuleData
  <2>3. line' \in Seq(Messages)
    BY <1>d, <2>1, <2>2
  <2>4. faults' \in 0..MaxFaults /\ spoiled' \subseteq Nodes
    BY <1>c, <2>1 DEF TypeOK, Nodes
  <2>5. dev' \in Devices(BOOLEAN)
    <3>1. dev \in Devices(BOOLEAN)
      BY DEF TypeOK, Devices
    <3>2. dev' = [dev EXCEPT !.next = dev.next + 1, !.fresh = FALSE]
      BY <1>2 DEF DeviceMeasures
    <3>0. dev.next \in Nat
      BY <3>1 DEF Devices
    <3>3. dev.next + 1 \in Nat /\ FALSE \in BOOLEAN
      BY <3>0
    <3>4. QED
      BY <3>1, <3>2, <3>3, DeviceType, Zenon
  <2>6. QED
    BY <1>2, <2>3, <2>4, <2>5 DEF DeviceMeasures, TypeOK, Devices
<1>3. CASE Decode
  <2>1. Head(line) \in Messages /\ line' \in Seq(Messages)
    BY <1>3, <1>d DEF Decode
  <2>2. /\ cb' \in {None} \cup Answers \cup Matched \cup CapsuleData
        /\ looping' \in BOOLEAN /\ torn' \in BOOLEAN /\ (torn' => looping')
    BY <1>3, DecodeTakes DEF TypeOK
  <2>3. QED
    BY <1>3, <2>1, <2>2 DEF Decode, TypeOK
<1>4. CASE OnCapsule
  <2> DEFINE cached == IF DropsCached(cb) THEN None ELSE prev
             collected == IF cb.first /\ cb.good THEN <<>> ELSE buf
  <2>1. cb \in CapsuleData
    BY <1>4 DEF OnCapsule, TypeOK, None, Answers, Matched, CapsuleData
  <2>2. prev' \in {None} \cup CapsuleData
    BY <1>4, <2>1 DEF OnCapsule, TypeOK
  <2>3. collected \in Seq(Nodes) /\ Len(collected) <= BufferSize
    BY LidarAssumption DEF TypeOK
  <2>4. /\ buf' \in Seq(Nodes) /\ Len(buf') <= BufferSize
        /\ avail' \in {None} \cup Scan /\ ready' \in BOOLEAN /\ scans' \in Nat
    <3>1. CASE cb.good /\ cached # None
      <4>1. Push(collected, Node(cached))
        BY <1>4, <3>1 DEF OnCapsule
      <4>2. Node(cached) \in Nodes
        BY <3>1 DEF TypeOK, Node, CapsuleData, Nodes
      <4>3. buf' \in Seq(Nodes) /\ Len(buf') <= BufferSize
        BY <2>3, <4>1, <4>2, StoredType DEF Push
      <4>4. [kind |-> "scan", id |-> scans + 1, nodes |-> collected, end |-> Node(cached)] \in Scan
        <5>. HIDE DEF collected, cached
        <5>. QED
          BY <2>3, <4>2 DEF TypeOK, Scan
      <4>5. avail' \in {None} \cup Scan /\ ready' \in BOOLEAN /\ scans' \in Nat
        <5>. HIDE DEF collected, cached
        <5>1. scans \in Nat /\ avail \in {None} \cup Scan /\ ready \in BOOLEAN
          BY DEF TypeOK
        <5>2. CASE Sync(Node(cached)) /\ collected # <<>>
          <6>1. ready' = TRUE
            BY <4>1, <5>2, Zenon DEF Push, Signalled
          <6>2. QED
            BY <4>1, <4>4, <5>1, <5>2, <6>1 DEF Push
        <5>3. CASE ~(Sync(Node(cached)) /\ collected # <<>>)
          BY <4>1, <5>1, <5>3 DEF Push
        <5>4. QED
          BY <5>2, <5>3
      <4>6. QED
        BY <4>3, <4>5
    <3>2. CASE ~(cb.good /\ cached # None)
      BY <1>4, <2>3, <3>2 DEF OnCapsule, TypeOK
    <3>3. QED
      BY <3>1, <3>2
  <2>5. QED
    BY <1>4, <2>2, <2>4 DEF OnCapsule, TypeOK
<1>5. CASE MatchAnswer
  <2>1. cb \in Answers \cup CapsuleData
    BY <1>5 DEF MatchAnswer, TypeOK, None, Matched
  <2>2. Matches(cb) => cb \in Answers
    BY <2>1 DEF TypeOK, Matches, Type, Types, CapsuleData
  <2>3. cb' \in {None} \cup Matched
    BY <1>5, <2>2 DEF MatchAnswer, Answers, Matched, Type
  <2>4. QED
    BY <1>5, <2>3 DEF MatchAnswer, TypeOK
<1>6. CASE StoreAnswer
  <2>1. cb \in Matched
    BY <1>6 DEF StoreAnswer, TypeOK, None, Answers, CapsuleData
  <2>2. QED
    BY <1>6, <2>1 DEF StoreAnswer, TypeOK
<1>7. CASE Open
  BY <1>7, CallsAreSteps DEF Open, TypeOK
<1>8. CASE AskDevice
  <2>1. Head(todo) \in Steps /\ Tail(todo) \in Seq(Steps) /\ Head(todo).type \in Types
    BY <1>8, <1>d DEF AskDevice, Steps
  <2>2. [do |-> "ask", type |-> Head(todo).type, req |-> req + 1] \in Commands
    BY <2>1 DEF Commands, TypeOK
  <2>3. toDev' \in Seq(Commands)
    BY <1>8, <1>d, <2>2 DEF AskDevice, TypeOK
  <2>4. /\ pc' \in {"run", "wait", "exit"} /\ todo' \in Seq(Steps)
        /\ pc' = "wait" => todo' # <<>> /\ Head(todo').do = "ask"
    <3>1. todo \in Seq(Steps) /\ todo # <<>> /\ Head(todo).do = "ask" /\ pc = "run"
      BY <1>8 DEF AskDevice, TypeOK
    <3>2. CASE working
      <4>1. pc' = "wait" /\ todo' = todo
        BY <1>8, <3>2 DEF AskDevice
      <4>2. QED
        BY <3>1, <4>1
    <3>3. CASE ~working
      <4>1. pc' \in {"run", "exit"} /\ todo' \in {<<>>, Tail(todo)}
        BY <1>8, <3>3 DEF AskDevice, Failed
      <4>2. todo' \in Seq(Steps)
        <5>1. CASE todo' = <<>>
          BY <5>1
        <5>2. CASE todo' = Tail(todo)
          BY <2>1, <5>2
        <5>3. QED
          BY <4>1, <5>1, <5>2
      <4>3. QED
        BY <4>1, <4>2
    <3>4. QED
      BY <3>2, <3>3
  <2>5. enabled' \in BOOLEAN /\ looping' \in BOOLEAN /\ replied' \in BOOLEAN /\ torn' \in BOOLEAN
        /\ (torn' => looping')
    BY <1>8 DEF AskDevice, DisableGrabbing
  <2>6. /\ waiting' \in Types /\ req' \in Nat
        /\ UNCHANGED <<dev, line, cb, prev, holderVars, answer, working, calls, faultVars, grabbed>>
    BY <1>8, <2>1 DEF AskDevice, TypeOK
  <2>7. QED
    BY <2>3, <2>4, <2>5, <2>6 DEF TypeOK
<1>9. CASE Wake
  <2>1. replied' \in BOOLEAN
    BY <1>9 DEF Wake
  <2>2. todo' \in Seq(Steps) /\ todo' # <<>> /\ Head(todo').do = "ask"
    BY <1>9 DEF Wake, TypeOK
  <2>3. QED
    BY <1>9, <2>1, <2>2 DEF Wake, TypeOK
<1>10. CASE TakeAnswer
  <2>1. todo # <<>>
    BY <1>10 DEF TakeAnswer, TypeOK
  <2>2. pc' \in {"run", "exit"} /\ todo' \in {<<>>, Tail(todo)}
    BY <1>10 DEF TakeAnswer, Failed
  <2>4. todo' \in Seq(Steps)
    <3>1. CASE todo' = <<>>
      BY <3>1
    <3>2. CASE todo' = Tail(todo)
      BY <1>d, <2>1, <3>2
    <3>3. QED
      BY <2>2, <3>1, <3>2
  <2>3. QED
    BY <1>10, <2>2, <2>4 DEF TakeAnswer, TypeOK
<1>11. CASE TimeOut
  <2>1. late' \in 0..MaxLate
    <3>1. late' = late \/ (late < MaxLate /\ late' = late + 1)
      BY <1>11 DEF TimeOut
    <3>2. late \in 0..MaxLate
      BY DEF TypeOK
    <3>3. QED
      BY <1>c, <3>1, <3>2
  <2>2. pc' \in {"exit", "run"} /\ todo' \in Seq(Steps)
    BY <1>11, <1>d DEF TimeOut, Failed, TypeOK
  <2>3. QED
    BY <1>11, <2>1, <2>2 DEF TimeOut, TypeOK
<1>12. CASE SendCommand
  <2>1. todo' \in Seq(Steps) /\ Head(todo).do \in {"spin", "rest", "stop", "scan"}
    BY <1>12, <1>d DEF SendCommand
  <2>2. [do |-> Head(todo).do] \in Commands
    BY <2>1 DEF Commands
  <2>3. toDev' \in Seq(Commands) /\ faults' \in 0..MaxFaults
    <3>1. toDev \in Seq(Commands) /\ faults \in 0..MaxFaults
      BY DEF TypeOK
    <3>2. \/ toDev' = Append(toDev, [do |-> Head(todo).do]) /\ faults' = faults
          \/ toDev' = toDev /\ faults < MaxFaults /\ faults' = faults + 1
      BY <1>12 DEF SendCommand
    <3>3. QED
      BY <1>c, <1>d, <2>2, <3>1, <3>2
  <2>4. /\ buf' \in Seq(Nodes) /\ Len(buf') <= BufferSize
        /\ avail' \in {None} \cup Scan /\ ready' \in BOOLEAN /\ scans' \in Nat
    <3>1. /\ buf \in Seq(Nodes) /\ Len(buf) <= BufferSize
          /\ avail \in {None} \cup Scan /\ ready \in BOOLEAN /\ scans \in Nat
      BY DEF TypeOK
    <3>2. \/ buf' = <<>> /\ avail' = None /\ ready' = FALSE /\ scans' = scans
          \/ UNCHANGED holderVars
      BY <1>12 DEF SendCommand, ResetScans
    <3>3. CASE UNCHANGED holderVars
      BY <3>1, <3>3
    <3>4. CASE buf' = <<>> /\ avail' = None /\ ready' = FALSE /\ scans' = scans
      <4>1. buf' \in Seq(Nodes) /\ Len(buf') <= BufferSize
        BY <3>4, LidarAssumption
      <4>2. ready' \in BOOLEAN
        BY <3>4
      <4>3. QED
        BY <3>1, <3>4, <4>1, <4>2
    <3>5. QED
      BY <3>2, <3>3, <3>4
  <2>5. enabled' \in BOOLEAN /\ looping' \in BOOLEAN /\ torn' \in BOOLEAN /\ (torn' => looping')
    BY <1>12 DEF SendCommand, DisableGrabbing, TypeOK
  <2>6. QED
    BY <1>12, <2>1, <2>3, <2>4, <2>5, ZenonT(40) DEF SendCommand, TypeOK
<1>13. CASE CallEnds
  BY <1>13 DEF CallEnds, TypeOK
<1>14. CASE GrabWake
  <2>1. ready' \in BOOLEAN
    BY <1>14 DEF GrabWake, AfterWait
  <2>2. QED
    BY <1>14, <2>1 DEF GrabWake, TypeOK
<1>15. CASE GrabTimeOut
  BY <1>15 DEF GrabTimeOut, TypeOK
<1>16. CASE GrabScan
  BY <1>16 DEF GrabScan, Newest, TypeOK, None
<1>17. CASE SpinSome
  <2>1. pc' \in {"loop", "run"} /\ todo' \in Seq(Steps)
    BY <1>17, CallsAreSteps DEF SpinSome, TypeOK
  <2>2. calls' \in 0..MaxCalls
    BY <1>17, <1>c DEF SpinSome, TypeOK
  <2>3. QED
    BY <1>17, <2>1, <2>2 DEF SpinSome, TypeOK
<1>18. CASE UNCHANGED vars
  BY <1>18 DEF vars, TypeOK
<1>19. QED
  BY <1>1, <1>2, <1>3, <1>4, <1>5, <1>6, <1>7, <1>8, <1>9, <1>10, <1>11, <1>12, <1>13,
     <1>14, <1>15, <1>16, <1>17, <1>18 DEF Next, Device, Decoder, NodeThread

LEMMA InitTypes == Init => TypeOK
<1>. SUFFICES ASSUME Init
              PROVE  TypeOK
  OBVIOUS
<1>1. dev \in Devices(BOOLEAN)
  <2>1. {TRUE} \in SUBSET BOOLEAN /\ {FALSE} \in SUBSET BOOLEAN
    OBVIOUS
  <2>2. dev \in [scans : BOOLEAN, spins : {TRUE}, fresh : {FALSE}, session : {0}, next : {0}]
    BY DEF Init
  <2>3. QED
    BY <2>1, <2>2, DeviceIdle, Zenon
<1>2. looping \in BOOLEAN /\ enabled \in BOOLEAN /\ ready \in BOOLEAN /\ replied \in BOOLEAN
      /\ working \in BOOLEAN /\ torn = FALSE
  BY DEF Init
<1>3. buf \in Seq(Nodes) /\ Len(buf) <= BufferSize /\ calls \in 0..MaxCalls
      /\ faults \in 0..MaxFaults /\ late \in 0..MaxLate
  BY LidarAssumption DEF Init
<1>4. toDev \in Seq(Commands) /\ line \in Seq(Messages) /\ todo \in Seq(Steps)
  BY DEF Init
<1>5. QED
  BY <1>1, <1>2, <1>3, <1>4 DEF Init, TypeOK, Devices

\* Every variable of the driver has its type, and no buffer of a scan grows beyond
\* its size, whatever the device sends and whenever.
THEOREM TypeCorrect == Spec => []TypeOK
BY InitTypes, StepTypes, PTL DEF Spec

-----------------------------------------------------------------------------
(***************************************************************************)
(* Scans and the event that announces them.                                *)
(***************************************************************************)
\* A scan has the number of scans made so far; what was published is not newer;
\* and the newest scan is published once more for each wait it can still end.
ScanNumbers ==
    /\ avail # None => avail.id = scans
    /\ grabbed # None => grabbed.scan.id <= scans
    /\ Newest => grabbed.times + (IF ready THEN 1 ELSE 0) + (IF pc = "grab" THEN 1 ELSE 0) <= 2

GrabInv == ScanBehindEvent /\ ScanNumbers

\* Few actions touch the scans, and the node comes to grab one in one way only.
LEMMA OtherSteps ==
    ASSUME TypeOK, [Next]_vars, ~OnCapsule, ~SendCommand, ~GrabWake, ~GrabScan
    PROVE  UNCHANGED <<avail, ready, scans, grabbed>> /\ (pc' = "grab" => pc = "grab")
<1>1. CASE Device
  BY <1>1 DEF Device, DeviceObeys, DeviceMeasures
<1>2. CASE Decode \/ MatchAnswer \/ StoreAnswer
  BY <1>2 DEF Decode, MatchAnswer, StoreAnswer
<1>3. CASE Open \/ AskDevice \/ Wake
  BY <1>3 DEF Open, AskDevice, Failed, Wake
<1>4. CASE TakeAnswer \/ TimeOut
  BY <1>4 DEF TakeAnswer, TimeOut, Failed
<1>5. CASE CallEnds \/ GrabTimeOut \/ SpinSome
  BY <1>5 DEF CallEnds, GrabTimeOut, SpinSome
<1>6. CASE UNCHANGED vars
  BY <1>6 DEF vars
<1>7. QED
  BY <1>1, <1>2, <1>3, <1>4, <1>5, <1>6 DEF Next, Decoder, NodeThread

\* A capsule leaves the scans alone, or completes one and announces it.
LEMMA CapsuleScans ==
    ASSUME TypeOK, TypeOK', OnCapsule
    PROVE  /\ pc' = pc /\ grabbed' = grabbed
           /\ \/ UNCHANGED <<avail, ready, scans>>
              \/ avail' # None /\ avail'.id = scans + 1 /\ scans' = scans + 1 /\ ready' = TRUE
<1>1. pc' = pc /\ grabbed' = grabbed
  BY DEF OnCapsule
<1> DEFINE cached == IF DropsCached(cb) THEN None ELSE prev
           collected == IF cb.first /\ cb.good THEN <<>> ELSE buf
<1>2. Push(collected, Node(cached)) \/ UNCHANGED <<avail, ready, scans>>
  BY DEF OnCapsule
<1>3. ASSUME Push(collected, Node(cached)), Sync(Node(cached)) /\ collected # <<>>
      PROVE  avail' # None /\ avail'.id = scans + 1 /\ scans' = scans + 1 /\ ready' = TRUE
  <2>. HIDE DEF cached, collected
  <2>1. ready' = TRUE
    BY <1>3, Zenon DEF Push, Signalled
  <2>2. /\ avail' = [kind |-> "scan", id |-> scans + 1, nodes |-> collected, end |-> Node(cached)]
        /\ scans' = scans + 1
    BY <1>3 DEF Push
  <2>3. avail'.kind = "scan" /\ avail'.id = scans + 1
    BY <2>2
  <2>4. QED
    BY <2>1, <2>2, <2>3 DEF None
<1>4. ASSUME Push(collected, Node(cached)), ~(Sync(Node(cached)) /\ collected # <<>>)
      PROVE  UNCHANGED <<avail, ready, scans>>
  <2>. HIDE DEF cached, collected
  <2>. QED
    BY <1>4 DEF Push
<1>5. QED
  BY <1>1, <1>2, <1>3, <1>4

LEMMA InitGrab == Init => GrabInv
BY DEF Init, GrabInv, ScanBehindEvent, ScanNumbers, Newest

LEMMA StepGrab == TypeOK /\ TypeOK' /\ GrabInv /\ [Next]_vars => GrabInv'
<1> SUFFICES ASSUME TypeOK, TypeOK', GrabInv, [Next]_vars
             PROVE  GrabInv'
  OBVIOUS
<1>t. /\ scans \in Nat /\ ready \in BOOLEAN
      /\ avail # None => avail \in Scan /\ avail.id \in Nat
      /\ grabbed # None => /\ grabbed.scan \in Scan /\ grabbed.scan.id \in Nat /\ grabbed.times \in Nat
                           /\ grabbed.scan # None
  <2>1. \A s \in Scan : s.id \in Nat /\ s.kind = "scan"
    BY DEF Scan
  <2>2. \A s \in Scan : s # None
    BY <2>1 DEF None
  <2>3. \A g \in [scan : Scan, times : Nat] : g.scan \in Scan /\ g.times \in Nat
    OBVIOUS
  <2>4. QED
    BY <2>1, <2>2, <2>3 DEF TypeOK
<1>1. CASE OnCapsule
  <2>1. CASE UNCHANGED <<avail, ready, scans>>
    BY <1>1, <2>1, CapsuleScans DEF GrabInv, ScanBehindEvent, ScanNumbers, Newest
  <2>2. CASE avail' # None /\ avail'.id = scans + 1 /\ scans' = scans + 1 /\ ready' = TRUE
    <3>1. grabbed' = grabbed /\ ~Newest'
      BY <1>1, <1>t, <2>2, CapsuleScans DEF GrabInv, ScanNumbers, Newest
    <3>2. QED
      BY <1>t, <2>2, <3>1 DEF GrabInv, ScanBehindEvent, ScanNumbers
  <2>3. QED
    BY <1>1, <2>1, <2>2, CapsuleScans
<1>2. CASE SendCommand
  <2>1. grabbed' = grabbed /\ pc' = "run" /\ pc = "run"
    BY <1>2 DEF SendCommand
  <2>2. CASE UNCHANGED holderVars
    BY <2>1, <2>2 DEF GrabInv, ScanBehindEvent, ScanNumbers, Newest
  <2>3. CASE avail' = None /\ ready' = FALSE /\ scans' = scans
    <3>1. ~Newest'
      BY <1>t, <2>1, <2>3 DEF Newest
    <3>2. QED
      BY <2>1, <2>3, <3>1 DEF GrabInv, ScanBehindEvent, ScanNumbers
  <2>4. QED
    BY <1>2, <2>2, <2>3 DEF SendCommand, ResetScans
<1>3. CASE GrabWake
  <2>1. /\ UNCHANGED <<avail, scans, grabbed>> /\ ready = TRUE /\ ready' = FALSE
        /\ pc = "loop" /\ pc' = "grab"
    BY <1>3, <1>t DEF GrabWake, AfterWait
  <2>2. QED
    BY <1>t, <2>1 DEF GrabInv, ScanBehindEvent, ScanNumbers, Newest
<1>4. CASE GrabScan
  <2>1. /\ UNCHANGED <<avail, ready, scans>> /\ pc = "grab" /\ pc' = "spin" /\ avail # None
        /\ grabbed' = [scan |-> avail, times |-> IF Newest THEN grabbed.times + 1 ELSE 1]
    BY <1>4 DEF GrabScan
  <2>2. grabbed'.scan = avail /\ grabbed'.times = (IF Newest THEN grabbed.times + 1 ELSE 1)
    BY <2>1
  <2>3. Newest => grabbed # None
    BY DEF Newest
  <2>4. grabbed'.times + (IF ready THEN 1 ELSE 0) <= 2
    BY <1>t, <2>1, <2>2, <2>3 DEF GrabInv, ScanNumbers
  <2>5. ScanBehindEvent'
    BY <2>1 DEF GrabInv, ScanBehindEvent
  <2>6. avail.id = scans /\ pc' # "grab"
    BY <2>1 DEF GrabInv, ScanNumbers
  <2>7. grabbed'.scan.id <= scans'
    BY <1>t, <2>1, <2>2, <2>6
  <2>8. avail'.id = scans'
    BY <2>1, <2>6
  <2>9. grabbed'.times \in Nat
    BY <1>t, <2>2, <2>3
  <2>10. grabbed'.times + (IF ready' THEN 1 ELSE 0) + (IF pc' = "grab" THEN 1 ELSE 0) <= 2
    <3>1. CASE ready
      BY <2>1, <2>4, <2>6, <2>9, <3>1
    <3>2. CASE ~ready
      BY <2>1, <2>4, <2>6, <2>9, <3>2
    <3>3. QED
      BY <3>1, <3>2
  <2>11. ScanNumbers'
    BY <2>7, <2>8, <2>10 DEF ScanNumbers
  <2>12. QED
    BY <2>5, <2>11 DEF GrabInv
<1>5. CASE ~OnCapsule /\ ~SendCommand /\ ~GrabWake /\ ~GrabScan
  <2>1. UNCHANGED <<avail, ready, scans, grabbed>> /\ (pc' = "grab" => pc = "grab")
    BY <1>5, OtherSteps
  <2>2. QED
    BY <1>t, <2>1 DEF GrabInv, ScanBehindEvent, ScanNumbers, Newest
<1>6. QED
  BY <1>1, <1>2, <1>3, <1>4, <1>5

\* Whenever the event lets a grab through there is a scan to grab, however the
\* decoder's completions and the node's restarts interleave.
THEOREM ScanIsThere == Spec => []ScanBehindEvent
<1>1. GrabInv => ScanBehindEvent
  BY DEF GrabInv
<1>2. QED
  BY <1>1, InitGrab, StepGrab, TypeCorrect, PTL DEF Spec

\* Scans are published in the order they were made, none more than twice.
THEOREM PublishedInOrder == Spec => ScansInOrder
<1>1. ASSUME TypeOK, GrabInv, [Next]_vars, grabbed' # grabbed, grabbed # None
      PROVE  grabbed'.scan.id >= grabbed.scan.id /\ grabbed'.times <= 2
  <2>1. ~OnCapsule /\ ~SendCommand /\ ~GrabWake
    BY <1>1 DEF OnCapsule, SendCommand, GrabWake
  <2>2. GrabScan
    BY <1>1, <2>1, OtherSteps
  <2>3. pc = "grab" /\ avail # None
        /\ grabbed' = [scan |-> avail, times |-> IF Newest THEN grabbed.times + 1 ELSE 1]
    BY <2>2 DEF GrabScan
  <2>4. grabbed.times \in Nat /\ grabbed.scan.id \in Nat /\ scans \in Nat /\ avail.id = scans
        /\ ready \in BOOLEAN
    BY <1>1, <2>3 DEF TypeOK, Scan, GrabInv, ScanNumbers
  <2>5. grabbed'.scan.id = scans /\ grabbed'.times = (IF Newest THEN grabbed.times + 1 ELSE 1)
    BY <2>3, <2>4
  <2>6. QED
    BY <1>1, <2>3, <2>4, <2>5 DEF GrabInv, ScanNumbers
<1>2. QED
  BY <1>1, InitGrab, StepGrab, TypeCorrect, PTL DEF Spec, ScansInOrder

\* A grab that has begun goes on to copy the scan.
LEMMA GrabGoesOn ==
    ASSUME [Next]_vars, pc = "grab", ~GrabScan
    PROVE  pc' = "grab"
<1>1. CASE Device
  BY <1>1 DEF Device, DeviceObeys, DeviceMeasures
<1>2. CASE Decoder
  BY <1>2 DEF Decoder, Decode, OnCapsule, MatchAnswer, StoreAnswer, nodeVars
<1>3. ~NodeThread
  BY DEF NodeThread, Open, AskDevice, Wake, TakeAnswer, TimeOut, SendCommand, CallEnds, GrabWake, GrabTimeOut,
         SpinSome
<1>4. CASE UNCHANGED vars
  BY <1>4 DEF vars
<1>5. QED
  BY <1>1, <1>2, <1>3, <1>4 DEF Next

LEMMA SignalStep == TypeOK /\ TypeOK' /\ ScanSignalled /\ [Next]_vars => ScanSignalled'
<1> SUFFICES ASSUME TypeOK, TypeOK', ScanSignalled, [Next]_vars
             PROVE  ScanSignalled'
  OBVIOUS
<1>1. CASE OnCapsule
  BY <1>1, CapsuleScans DEF ScanSignalled, Newest
<1>2. CASE SendCommand
  BY <1>2 DEF SendCommand, ResetScans, ScanSignalled, Newest
<1>3. CASE GrabWake
  BY <1>3 DEF GrabWake, ScanSignalled
<1>4. CASE GrabScan
  <2>1. avail' = avail /\ grabbed' = [scan |-> avail, times |-> IF Newest THEN grabbed.times + 1 ELSE 1]
    BY <1>4 DEF GrabScan
  <2>2. grabbed'.scan = avail' /\ avail # None
    BY <1>4, <2>1 DEF GrabScan
  <2>3. grabbed' # None
    BY <2>1 DEF None
  <2>4. QED
    BY <2>2, <2>3 DEF ScanSignalled, Newest
<1>5. CASE ~OnCapsule /\ ~SendCommand /\ ~GrabWake /\ ~GrabScan
  BY <1>5, OtherSteps, GrabGoesOn DEF ScanSignalled, Newest
<1>6. QED
  BY <1>1, <1>2, <1>3, <1>4, <1>5

\* No scan waits without its event set or the node on its way to it: the wake-up that
\* the delivery of scans rests on is never lost.
THEOREM NoWakeUpLost == Spec => []ScanSignalled
<1>1. Init => ScanSignalled
  BY DEF Init, ScanSignalled
<1>2. QED
  BY <1>1, SignalStep, TypeCorrect, PTL DEF Spec

-----------------------------------------------------------------------------
(***************************************************************************)
(* Questions and answers.  Neither the device nor the line changes their   *)
(* order, so the numbers of what is on its way tell how far behind the     *)
(* next answer can be.                                                     *)
(***************************************************************************)
Asked(q) == \E i \in 1 .. Len(q) : q[i].do = "ask"
Decoded == cb.kind \in {"answer", "match"}

\* The node waits for the answer to its last question, or has one.
Asking == pc \in {"wait", "woken"}

\* Question q, of type t, or its answer, is at place i of a stage of its way: on its
\* way to the device (2), on the line (1), or decoded (0).  What is before it on the
\* way comes first.
OnWay(stage, i, q, t) ==
    \/ stage = 0 /\ i = 0 /\ Decoded /\ cb.req = q /\ cb.type = t
    \/ stage = 1 /\ i \in 1 .. Len(line) /\ line[i].kind = "answer" /\ line[i].req = q /\ line[i].type = t
    \/ stage = 2 /\ i \in 1 .. Len(toDev) /\ toDev[i].do = "ask" /\ toDev[i].req = q /\ toDev[i].type = t
Before(s, i, u, j) == s < u \/ (s = u /\ i < j)

\* Of the questions on their way the oldest can be behind the last one asked by no
\* more than were given up, and so can the answer about to be taken; what is still
\* on its way is younger than that.
Oldest == (IF Asking THEN req ELSE req + 1) - late
QuestionInv ==
    /\ \A s, i, q, t : OnWay(s, i, q, t) =>
          /\ working /\ q \in Nat /\ Oldest <= q /\ q <= req
          /\ Asking /\ q = req => t = waiting
    /\ \A s, i, q, t, u, j, p, v :
          OnWay(s, i, q, t) /\ OnWay(u, j, p, v) /\ Before(s, i, u, j) => q < p
    /\ Asking /\ (replied \/ pc = "woken") =>
          /\ answer.req \in Nat /\ req - late <= answer.req /\ answer.req <= req
          /\ answer.req = req => answer.type = waiting
          /\ \A s, i, q, t : OnWay(s, i, q, t) => answer.req < q
    /\ pc = "open" => ~working

\* What is on its way moves on, and nothing overtakes.
Moves ==
    /\ \A s, i, q, t : OnWay(s, i, q, t)' => \E a, b : OnWay(a, b, q, t)
    /\ \A s, i, q, t, u, j, p, v : OnWay(s, i, q, t)' /\ OnWay(u, j, p, v)' /\ Before(s, i, u, j)
          => \E a, b, c, d : OnWay(a, b, q, t) /\ OnWay(c, d, p, v) /\ Before(a, b, c, d)

LEMMA QuestionMoves ==
    ASSUME QuestionInv, Moves, UNCHANGED <<pc, replied, waiting, answer, req, late, working>>
    PROVE  QuestionInv'
<1> USE DEF QuestionInv, Moves, Oldest, Asking
<1>1. ASSUME NEW s, NEW i, NEW q, NEW t, OnWay(s, i, q, t)'
      PROVE  /\ working /\ q \in Nat /\ Oldest <= q /\ q <= req
             /\ Asking /\ q = req => t = waiting
             /\ Asking /\ (replied \/ pc = "woken") => answer.req < q
  <2>1. PICK a, b : OnWay(a, b, q, t)
    BY <1>1
  <2>2. QED
    BY <2>1
<1>2. ASSUME NEW s, NEW i, NEW q, NEW t, NEW u, NEW j, NEW p, NEW v,
             OnWay(s, i, q, t)', OnWay(u, j, p, v)', Before(s, i, u, j)
      PROVE  q < p
  <2>1. PICK a, b, c, d : OnWay(a, b, q, t) /\ OnWay(c, d, p, v) /\ Before(a, b, c, d)
    BY <1>2
  <2>2. QED
    BY <2>1
<1>3. \A s, i, u, j : Before(s, i, u, j)' <=> Before(s, i, u, j)
  BY DEF Before
<1>4. Oldest' = Oldest /\ (Asking' <=> Asking)
  OBVIOUS
<1>5. QED
  BY <1>1, <1>2, <1>3, <1>4

\* Where everything stays in its place nothing is overtaken.
LEMMA StaysMoves ==
    ASSUME \A s, i, q, t : OnWay(s, i, q, t)' => OnWay(s, i, q, t)
    PROVE  Moves
BY DEF Moves

LEMMA SameMoves ==
    ASSUME UNCHANGED <<toDev, line>>,
           Decoded' => Decoded /\ cb'.req = cb.req /\ cb'.type = cb.type
    PROVE  \A s, i, q, t : OnWay(s, i, q, t)' => OnWay(s, i, q, t)
BY DEF OnWay

LEMMA InitQuestion == Init => QuestionInv
<1> SUFFICES ASSUME Init PROVE QuestionInv
  OBVIOUS
<1>1. cb.kind = "none" /\ line = <<>> /\ toDev = <<>> /\ pc = "open" /\ ~working
  BY DEF Init, None
<1>2. \A s, i, q, t : ~OnWay(s, i, q, t)
  BY <1>1 DEF OnWay, Decoded
<1>3. QED
  BY <1>1, <1>2 DEF QuestionInv, Asking

\* The device answers the question: the answer takes its place at the line's end.
LEMMA ObeyedMoves ==
    ASSUME TypeOK, DeviceObeys
    PROVE  Moves
<1>1. /\ toDev \in Seq(Commands) /\ line \in Seq(Messages) /\ toDev # <<>> /\ toDev' = Tail(toDev)
      /\ cb' = cb
  BY DEF TypeOK, DeviceObeys
<1>2. /\ Len(toDev) \in Nat /\ Head(toDev) = toDev[1] /\ 1 \in 1 .. Len(toDev)
      /\ \A i \in 1 .. Len(toDev') : i \in Int /\ i + 1 \in 1 .. Len(toDev) /\ toDev'[i] = toDev[i + 1]
  BY <1>1, HeadTailProperties
<1>3. /\ Len(line) \in Nat
      /\ \A i \in 1 .. Len(line') :
            \/ i \in 1 .. Len(line) /\ line'[i] = line[i]
            \/ line'[i].kind # "answer"
            \/ /\ i = Len(line) + 1 /\ Head(toDev).do = "ask"
               /\ line'[i].type = Head(toDev).type /\ line'[i].req = Head(toDev).req
  <2>0. Len(line) \in Nat
    BY <1>1
  <2>1. CASE Head(toDev).do = "ask"
    <3> DEFINE a == [kind |-> "answer", type |-> Head(toDev).type, req |-> Head(toDev).req]
    <3>1. line' = Append(line, a) /\ a.type = Head(toDev).type /\ a.req = Head(toDev).req
      BY <2>1 DEF DeviceObeys
    <3> HIDE DEF a
    <3>2. QED
      BY <1>1, <2>0, <2>1, <3>1
  <2>2. CASE Head(toDev).do # "ask"
    <3>1. line' = line \/ line' = Append(line, [kind |-> "header"])
      BY <2>2 DEF DeviceObeys
    <3>2. QED
      BY <1>1, <2>0, <3>1
  <2>3. QED
    BY <2>1, <2>2
<1>4. ASSUME NEW s, NEW i, NEW q, NEW t, OnWay(s, i, q, t)'
      PROVE  \/ s = 0 /\ i = 0 /\ OnWay(0, 0, q, t)
             \/ s = 1 /\ i \in 1 .. Len(line) /\ OnWay(1, i, q, t)
             \/ s = 1 /\ i = Len(line) + 1 /\ OnWay(2, 1, q, t)
             \/ s = 2 /\ i \in Nat /\ i >= 1 /\ OnWay(2, i + 1, q, t)
  <2>1. CASE s = 0
    BY <1>1, <1>4, <2>1 DEF OnWay, Decoded
  <2>2. CASE s = 1
    BY <1>2, <1>3, <1>4, <2>2 DEF OnWay
  <2>3. CASE s = 2
    BY <1>2, <1>4, <2>3 DEF OnWay
  <2>4. QED
    BY <1>4, <2>1, <2>2, <2>3 DEF OnWay
<1>5. ASSUME NEW s, NEW i, NEW q, NEW t, NEW u, NEW j, NEW p, NEW v,
             OnWay(s, i, q, t)', OnWay(u, j, p, v)', Before(s, i, u, j)
      PROVE  \E a, b, c, d : OnWay(a, b, q, t) /\ OnWay(c, d, p, v) /\ Before(a, b, c, d)
  <2>1. \/ u = 0 /\ j = 0
        \/ u = 1 /\ j \in 1 .. Len(line) /\ OnWay(1, j, p, v)
        \/ u = 1 /\ j = Len(line) + 1 /\ OnWay(2, 1, p, v)
        \/ u = 2 /\ j \in Nat /\ j >= 1 /\ OnWay(2, j + 1, p, v)
    BY <1>4, <1>5
  <2>2. CASE s = 0 /\ i = 0 /\ OnWay(0, 0, q, t)
    <3>1. \E c, d : OnWay(c, d, p, v) /\ Before(0, 0, c, d)
      BY <1>5, <2>1, <2>2 DEF Before
    <3>2. QED
      BY <2>2, <3>1
  <2>3. CASE s = 1 /\ i \in 1 .. Len(line) /\ OnWay(1, i, q, t)
    <3>1. \E c, d : OnWay(c, d, p, v) /\ Before(1, i, c, d)
      BY <1>3, <1>5, <2>1, <2>3 DEF Before
    <3>2. QED
      BY <2>3, <3>1
  <2>4. CASE s = 1 /\ i = Len(line) + 1 /\ OnWay(2, 1, q, t)
    <3>1. \E c, d : OnWay(c, d, p, v) /\ Before(2, 1, c, d)
      BY <1>3, <1>5, <2>1, <2>4 DEF Before
    <3>2. QED
      BY <2>4, <3>1
  <2>5. CASE s = 2 /\ i \in Nat /\ i >= 1 /\ OnWay(2, i + 1, q, t)
    <3>1. \E c, d : OnWay(c, d, p, v) /\ Before(2, i + 1, c, d)
      BY <1>5, <2>1, <2>5 DEF Before
    <3>2. QED
      BY <2>5, <3>1
  <2>6. QED
    BY <1>4, <1>5, <2>2, <2>3, <2>4, <2>5
<1>6. \A s, i, q, t : OnWay(s, i, q, t)' => \E a, b : OnWay(a, b, q, t)
  BY <1>4
<1>7. QED
  BY <1>5, <1>6 DEF Moves

LEMMA MeasuredMoves ==
    ASSUME TypeOK, DeviceMeasures
    PROVE  Moves
<1>1. PICK m : line' = Append(line, m) /\ m.kind = "capsule"
  <2>1. PICK good \in BOOLEAN :
          line' = Append(line, [kind |-> "capsule", session |-> dev.session,
                                pos |-> dev.next, first |-> dev.fresh, good |-> good])
    BY DEF DeviceMeasures
  <2>2. QED
    BY <2>1
<1>2. line \in Seq(Messages) /\ UNCHANGED <<toDev, cb>>
  BY DEF DeviceMeasures, TypeOK
<1>3. \A i \in 1 .. Len(line') : line'[i].kind = "answer" => i \in 1 .. Len(line) /\ line'[i] = line[i]
  BY <1>1, <1>2
<1>4. \A s, i, q, t : OnWay(s, i, q, t)' => OnWay(s, i, q, t)
  BY <1>2, <1>3 DEF OnWay, Decoded
<1>5. QED
  BY <1>4, StaysMoves

\* The decoder takes the answer, or something else, from the line's head.
LEMMA DecodedMoves ==
    ASSUME TypeOK, Decode
    PROVE  Moves
<1>1. /\ line \in Seq(Messages) /\ line # <<>> /\ line' = Tail(line) /\ cb = None
      /\ cb' \in {None} \cup Answers \cup CapsuleData
      /\ cb'.kind = "answer" => cb' = Head(line)
      /\ toDev' = toDev
  BY DecodeTakes DEF TypeOK, Decode
<1>2. /\ Len(line) \in Nat /\ Head(line) = line[1] /\ 1 \in 1 .. Len(line)
      /\ \A i \in 1 .. Len(line') : i \in Int /\ i + 1 \in 1 .. Len(line) /\ line'[i] = line[i + 1]
  BY <1>1, HeadTailProperties
<1>3. Decoded' => cb' = line[1] /\ line[1].kind = "answer"
  BY <1>1, <1>2 DEF Decoded, None, Answers, CapsuleData
<1>4. ASSUME NEW s, NEW i, NEW q, NEW t, OnWay(s, i, q, t)'
      PROVE  \/ s = 0 /\ OnWay(1, 1, q, t)
             \/ s = 1 /\ i \in Nat /\ i >= 1 /\ OnWay(1, i + 1, q, t)
             \/ s = 2 /\ i \in Nat /\ OnWay(2, i, q, t)
  <2>1. CASE s = 0
    BY <1>2, <1>3, <1>4, <2>1 DEF OnWay
  <2>2. CASE s = 1
    BY <1>2, <1>4, <2>2 DEF OnWay
  <2>3. CASE s = 2
    BY <1>1, <1>4, <2>3 DEF OnWay
  <2>4. QED
    BY <1>4, <2>1, <2>2, <2>3 DEF OnWay
<1>5. \A i, q, t : OnWay(0, i, q, t)' => i = 0
  BY DEF OnWay
<1>6. ASSUME NEW s, NEW i, NEW q, NEW t, NEW u, NEW j, NEW p, NEW v,
             OnWay(s, i, q, t)', OnWay(u, j, p, v)', Before(s, i, u, j)
      PROVE  \E a, b, c, d : OnWay(a, b, q, t) /\ OnWay(c, d, p, v) /\ Before(a, b, c, d)
  <2>1. \/ u = 0 /\ j = 0
        \/ u = 1 /\ j \in Nat /\ j >= 1 /\ OnWay(1, j + 1, p, v)
        \/ u = 2 /\ j \in Nat /\ OnWay(2, j, p, v)
    BY <1>4, <1>5, <1>6
  <2>2. CASE s = 0 /\ OnWay(1, 1, q, t)
    <3>1. \E c, d : OnWay(c, d, p, v) /\ Before(1, 1, c, d)
      BY <1>5, <1>6, <2>1, <2>2 DEF Before
    <3>2. QED
      BY <2>2, <3>1
  <2>3. CASE s = 1 /\ i \in Nat /\ i >= 1 /\ OnWay(1, i + 1, q, t)
    <3>1. \E c, d : OnWay(c, d, p, v) /\ Before(1, i + 1, c, d)
      BY <1>6, <2>1, <2>3 DEF Before
    <3>2. QED
      BY <2>3, <3>1
  <2>4. CASE s = 2 /\ i \in Nat /\ OnWay(2, i, q, t)
    <3>1. \E c, d : OnWay(c, d, p, v) /\ Before(2, i, c, d)
      BY <1>6, <2>1, <2>4 DEF Before
    <3>2. QED
      BY <2>4, <3>1
  <2>5. QED
    BY <1>4, <1>6, <2>2, <2>3, <2>4
<1>7. \A s, i, q, t : OnWay(s, i, q, t)' => \E a, b : OnWay(a, b, q, t)
  BY <1>4
<1>8. QED
  BY <1>6, <1>7 DEF Moves

LEMMA StepQuestion == TypeOK /\ TypeOK' /\ QuestionInv /\ [Next]_vars => QuestionInv'
<1> SUFFICES ASSUME TypeOK, TypeOK', QuestionInv, [Next]_vars
             PROVE  QuestionInv'
  OBVIOUS
<1>0. req \in Nat /\ late \in Nat /\ working \in BOOLEAN
  BY LidarAssumption DEF TypeOK
<1>a. \A s, i, q, t : OnWay(s, i, q, t) =>
          /\ working /\ q \in Nat /\ Oldest <= q /\ q <= req
          /\ Asking /\ q = req => t = waiting
  BY DEF QuestionInv
<1>b. \A s, i, q, t, u, j, p, v : OnWay(s, i, q, t) /\ OnWay(u, j, p, v) /\ Before(s, i, u, j) => q < p
  BY DEF QuestionInv
<1>c. Asking /\ (replied \/ pc = "woken") =>
          /\ answer.req \in Nat /\ req - late <= answer.req /\ answer.req <= req
          /\ answer.req = req => answer.type = waiting
          /\ \A s, i, q, t : OnWay(s, i, q, t) => answer.req < q
  BY DEF QuestionInv
\* A step after which no answer is awaited, and all that is on its way stays as it was.
<1>d. ASSUME \A s, i, q, t : OnWay(s, i, q, t)' => OnWay(s, i, q, t) /\ Oldest' <= q,
             ~Asking', req' = req, working' = working, pc' # "open"
      PROVE  QuestionInv'
  <2>1. ASSUME NEW s, NEW i, NEW q, NEW t, OnWay(s, i, q, t)'
        PROVE  working' /\ q \in Nat /\ Oldest' <= q /\ q <= req'
    BY <1>a, <1>d, <2>1
  <2>2. ASSUME NEW s, NEW i, NEW q, NEW t, NEW u, NEW j, NEW p, NEW v,
               OnWay(s, i, q, t)', OnWay(u, j, p, v)', Before(s, i, u, j)'
        PROVE  q < p
    BY <1>b, <1>d, <2>2 DEF Before
  <2>3. QED
    BY <1>d, <2>1, <2>2 DEF QuestionInv
<1>1. CASE DeviceObeys
  BY <1>1, ObeyedMoves, QuestionMoves DEF DeviceObeys
<1>2. CASE DeviceMeasures
  BY <1>2, MeasuredMoves, QuestionMoves DEF DeviceMeasures
<1>3. CASE Decode
  BY <1>3, DecodedMoves, QuestionMoves DEF Decode
<1>4. CASE OnCapsule
  <2>1. ~Decoded' /\ UNCHANGED <<toDev, line, replied, waiting, answer, req, pc, late, working>>
    BY <1>4 DEF OnCapsule, Decoded, None
  <2>2. QED
    BY <2>1, SameMoves, StaysMoves, QuestionMoves
<1>5. CASE MatchAnswer
  <2>1. UNCHANGED <<toDev, line, replied, waiting, answer, req, pc, late, working>>
    BY <1>5 DEF MatchAnswer
  <2>2. Decoded' => Decoded /\ cb'.req = cb.req /\ cb'.type = cb.type
    BY <1>5 DEF MatchAnswer, Decoded, Matches, Type, TypeOK, Types, None
  <2>3. QED
    BY <2>1, <2>2, SameMoves, StaysMoves, QuestionMoves
<1>6. CASE StoreAnswer
  <2>1. /\ answer' = cb /\ Decoded /\ ~Decoded'
        /\ UNCHANGED <<toDev, line, waiting, req, pc, late, working>>
    BY <1>6 DEF StoreAnswer, Decoded, None
  <2>2. OnWay(0, 0, cb.req, cb.type)
    BY <2>1 DEF OnWay
  <2>3. ASSUME NEW s, NEW i, NEW q, NEW t, OnWay(s, i, q, t)'
        PROVE  OnWay(s, i, q, t) /\ cb.req < q
    <3>1. OnWay(s, i, q, t) /\ 0 < s
      BY <2>1, <2>3 DEF OnWay
    <3>2. Before(0, 0, s, i)
      BY <3>1 DEF Before
    <3>3. QED
      BY <1>b, <2>2, <3>1, <3>2
  <2>4. Oldest' = Oldest /\ (Asking' <=> Asking) /\ (Asking => Oldest = req - late)
    BY <2>1 DEF Oldest, Asking
  <2>5. ASSUME Asking
        PROVE  /\ cb.req \in Nat /\ req - late <= cb.req /\ cb.req <= req
               /\ cb.req = req => cb.type = waiting
    BY <1>a, <2>2, <2>4, <2>5
  <2>6. ASSUME NEW s, NEW i, NEW q, NEW t, OnWay(s, i, q, t)'
        PROVE  /\ working' /\ q \in Nat /\ Oldest' <= q /\ q <= req'
               /\ Asking' /\ q = req' => t = waiting'
    BY <1>a, <2>1, <2>3, <2>4, <2>6
  <2>7. ASSUME NEW s, NEW i, NEW q, NEW t, NEW u, NEW j, NEW p, NEW v,
               OnWay(s, i, q, t)', OnWay(u, j, p, v)', Before(s, i, u, j)'
        PROVE  q < p
    BY <1>b, <2>3, <2>7 DEF Before
  <2>8. pc' = "open" => ~working'
    BY <2>1 DEF QuestionInv
  <2>9. QED
    BY <2>1, <2>3, <2>4, <2>5, <2>6, <2>7, <2>8 DEF QuestionInv
<1>7. CASE AskDevice
  <2>0. ~Asking /\ pc = "run"
    BY <1>7 DEF AskDevice, Asking
  <2>1. /\ UNCHANGED <<line, cb, late, working>> /\ replied' = FALSE /\ waiting' = Head(todo).type
        /\ req' = req + 1 /\ pc = "run" /\ ~Asking /\ Oldest = req + 1 - late
    <3>1. Oldest = req + 1 - late
      BY <1>0, <2>0 DEF Oldest
    <3>2. QED
      BY <1>7, <2>0, <3>1 DEF AskDevice
  <2>2. CASE ~working
    <3>1. toDev' = toDev /\ pc' \in {"run", "exit"}
      BY <1>7, <2>2 DEF AskDevice, Failed
    <3>2. \A s, i, q, t : ~OnWay(s, i, q, t)'
      BY <1>a, <2>1, <2>2, <3>1, SameMoves DEF Decoded
    <3>3. QED
      BY <2>1, <3>1, <3>2 DEF QuestionInv, Asking
  <2>3. CASE working
    <3> DEFINE c == [do |-> "ask", type |-> Head(todo).type, req |-> req + 1]
    <3>1. /\ toDev' = Append(toDev, c) /\ pc' = "wait" /\ toDev \in Seq(Commands)
          /\ c.type = waiting' /\ c.req = req'
      BY <1>7, <2>1, <2>3 DEF AskDevice, TypeOK
    <3> HIDE DEF c
    <3>2. /\ Len(toDev') = Len(toDev) + 1 /\ Len(toDev) \in Nat
          /\ \A i \in 1 .. Len(toDev) : toDev'[i] = toDev[i]
          /\ toDev'[Len(toDev) + 1] = c
      BY <3>1
    <3>3. ASSUME NEW s, NEW i, NEW q, NEW t, OnWay(s, i, q, t)'
          PROVE  \/ OnWay(s, i, q, t) /\ (s = 2 => i \in 1 .. Len(toDev))
                 \/ s = 2 /\ i = Len(toDev) + 1 /\ q = req' /\ t = waiting'
      <4>1. CASE s = 2
        BY <3>1, <3>2, <3>3, <4>1 DEF OnWay
      <4>2. CASE s # 2
        BY <2>1, <3>3, <4>2 DEF OnWay, Decoded
      <4>3. QED
        BY <4>1, <4>2
    <3>4. \A s, i, q, t : OnWay(s, i, q, t)' => s \in {0, 1, 2}
      BY DEF OnWay
    <3>5. Oldest' = req + 1 - late /\ Asking' /\ ~(replied' \/ pc' = "woken") /\ pc' # "open"
      BY <2>1, <3>1 DEF Oldest, Asking
    <3>6. ASSUME NEW s, NEW i, NEW q, NEW t, OnWay(s, i, q, t)'
          PROVE  /\ working' /\ q \in Nat /\ Oldest' <= q /\ q <= req'
                 /\ Asking' /\ q = req' => t = waiting'
      <4>1. CASE OnWay(s, i, q, t)
        BY <1>0, <1>a, <2>1, <3>5, <4>1
      <4>2. CASE q = req' /\ t = waiting'
        BY <1>0, <2>1, <2>3, <3>5, <4>2
      <4>3. QED
        BY <3>3, <3>6, <4>1, <4>2
    <3>7. ASSUME NEW s, NEW i, NEW q, NEW t, NEW u, NEW j, NEW p, NEW v,
                 OnWay(s, i, q, t)', OnWay(u, j, p, v)', Before(s, i, u, j)'
          PROVE  q < p
      <4>1. CASE OnWay(s, i, q, t) /\ OnWay(u, j, p, v)
        BY <1>b, <3>7, <4>1 DEF Before
      <4>2. CASE OnWay(s, i, q, t) /\ p = req'
        BY <1>0, <1>a, <2>1, <4>2
      <4>3. CASE s = 2 /\ i = Len(toDev) + 1
        <5>1. u = 2 /\ Len(toDev) + 1 < j
          BY <3>4, <3>7, <4>3 DEF Before
        <5>2. j \in 1 .. Len(toDev) \/ j = Len(toDev) + 1
          BY <3>3, <3>7, <5>1
        <5>3. QED
          BY <3>2, <5>1, <5>2
      <4>4. QED
        BY <3>3, <3>7, <4>1, <4>2, <4>3
    <3>8. QED
      BY <3>5, <3>6, <3>7 DEF QuestionInv
  <2>4. QED
    BY <2>2, <2>3
<1>8. CASE Wake
  <2>1. /\ pc = "wait" /\ replied /\ replied' = FALSE /\ pc' = "woken"
        /\ UNCHANGED <<toDev, line, cb, waiting, req, answer, late, working>>
    BY <1>8 DEF Wake
  <2>2. Asking /\ Asking' /\ Oldest' = Oldest
    BY <2>1 DEF Asking, Oldest
  <2>3. \A s, i, q, t : OnWay(s, i, q, t)' => OnWay(s, i, q, t)
    BY <2>1, SameMoves DEF Decoded
  <2>4. ASSUME NEW s, NEW i, NEW q, NEW t, NEW u, NEW j, NEW p, NEW v,
               OnWay(s, i, q, t)', OnWay(u, j, p, v)', Before(s, i, u, j)'
        PROVE  q < p
    BY <1>b, <2>3, <2>4 DEF Before
  <2>5. QED
    BY <1>a, <1>c, <2>1, <2>2, <2>3, <2>4 DEF QuestionInv
<1>9. CASE TakeAnswer
  <2>1. /\ pc = "woken" /\ pc' \in {"run", "exit"}
        /\ UNCHANGED <<toDev, line, cb, req, late, working>>
    BY <1>9 DEF TakeAnswer, Failed
  <2>2. Asking /\ ~Asking' /\ Oldest' = req + 1 - late
    <3>1. Asking /\ ~Asking'
      BY <2>1 DEF Asking
    <3>2. QED
      BY <1>0, <2>1, <3>1 DEF Oldest
  <2>3. ASSUME NEW s, NEW i, NEW q, NEW t, OnWay(s, i, q, t)'
        PROVE  OnWay(s, i, q, t) /\ Oldest' <= q
    <3>1. OnWay(s, i, q, t)
      BY <2>1, <2>3, SameMoves DEF Decoded
    <3>2. q \in Nat /\ answer.req \in Nat /\ answer.req < q /\ req - late <= answer.req
      BY <1>a, <1>c, <2>1, <2>2, <3>1
    <3>3. QED
      BY <1>0, <2>2, <3>1, <3>2
  <2>4. QED
    BY <1>d, <2>1, <2>2, <2>3
<1>10. CASE TimeOut
  <2>1. /\ pc = "wait" /\ pc' \in {"run", "exit"} /\ UNCHANGED <<toDev, line, cb, req, working>>
        /\ IF Coming THEN late' = late + 1 ELSE late' = late
    BY <1>10 DEF TimeOut, Failed
  <2>2. Oldest = req - late /\ ~Asking' /\ Oldest' = req + 1 - late'
    <3>1. Asking /\ ~Asking'
      BY <2>1 DEF Asking
    <3>2. QED
      BY <1>0, <2>1, <3>1 DEF Oldest
  <2>3. ASSUME NEW s, NEW i, NEW q, NEW t, OnWay(s, i, q, t)'
        PROVE  OnWay(s, i, q, t) /\ Oldest' <= q
    <3>1. OnWay(s, i, q, t)
      BY <2>1, <2>3, SameMoves DEF Decoded
    <3>2. Coming
      BY <3>1 DEF OnWay, Coming, Decoded
    <3>3. q \in Nat /\ Oldest <= q
      BY <1>a, <3>1
    <3>4. QED
      BY <1>0, <2>1, <2>2, <3>1, <3>2, <3>3
  <2>4. QED
    BY <1>d, <2>1, <2>2, <2>3
<1>11. CASE SendCommand
  <2>1. /\ pc = "run" /\ pc' = "run" /\ UNCHANGED <<line, cb, req, late, working>>
        /\ Head(todo).do # "ask" /\ toDev \in Seq(Commands)
    BY <1>11 DEF SendCommand, TypeOK
  <2>2. toDev' = toDev \/ toDev' = Append(toDev, [do |-> Head(todo).do])
    BY <1>11 DEF SendCommand
  <2>3. \A i \in 1 .. Len(toDev') : toDev'[i].do = "ask" => i \in 1 .. Len(toDev) /\ toDev'[i] = toDev[i]
    BY <2>1, <2>2
  <2>4. Oldest' = Oldest /\ ~Asking'
    BY <2>1 DEF Oldest, Asking
  <2>5. \A s, i, q, t : OnWay(s, i, q, t)' => OnWay(s, i, q, t)
    BY <2>1, <2>3 DEF OnWay, Decoded
  <2>6. QED
    BY <1>a, <1>d, <2>1, <2>4, <2>5
<1>12. CASE Open
  <2>1. UNCHANGED <<toDev, line, cb>> /\ pc = "open" /\ pc' = "run"
    BY <1>12 DEF Open
  <2>2. \A s, i, q, t : ~OnWay(s, i, q, t)'
    <3>1. \A s, i, q, t : ~OnWay(s, i, q, t)
      BY <1>a, <2>1 DEF QuestionInv
    <3>2. QED
      BY <2>1, <3>1, SameMoves DEF Decoded
  <2>3. QED
    BY <2>1, <2>2 DEF QuestionInv, Asking
<1>13. CASE CallEnds \/ GrabWake \/ GrabTimeOut \/ GrabScan \/ SpinSome
  <2>1. /\ UNCHANGED <<toDev, line, cb, req, late, working>>
        /\ pc \notin {"wait", "woken"} /\ pc' \notin {"wait", "woken", "open"}
    BY <1>13 DEF CallEnds, GrabWake, GrabTimeOut, GrabScan, SpinSome
  <2>2. \A s, i, q, t : OnWay(s, i, q, t)' => OnWay(s, i, q, t)
    BY <2>1, SameMoves DEF Decoded
  <2>3. Oldest' = Oldest /\ ~Asking'
    BY <2>1 DEF Oldest, Asking
  <2>4. QED
    BY <1>a, <1>d, <2>1, <2>2, <2>3
<1>14. CASE UNCHANGED vars
  <2>1. UNCHANGED <<toDev, line, cb, replied, waiting, answer, req, pc, late, working>>
    BY <1>14 DEF vars
  <2>2. QED
    BY <2>1, SameMoves, StaysMoves, QuestionMoves DEF Decoded
<1>15. QED
  BY <1>1, <1>2, <1>3, <1>4, <1>5, <1>6, <1>7, <1>8, <1>9, <1>10, <1>11, <1>12, <1>13, <1>14
     DEF Next, Device, Decoder, NodeThread

\* The answer a question is about to take is its own, unless questions were given up
\* before their answers came: then it may be an earlier question's, by no more than
\* there were of them, however many capsules and faults the line has in between.
THEOREM AnswersAreMatched == Spec => []AnswersMatch
<1>1. TypeOK /\ QuestionInv => AnswersMatch
  <2> SUFFICES ASSUME TypeOK, QuestionInv, pc = "woken" PROVE AnswersMatch
    BY DEF AnswersMatch
  <2>1. /\ answer.req \in Nat /\ req - late <= answer.req /\ answer.req <= req
        /\ answer.req = req => answer.type = waiting
        /\ req \in Nat /\ late \in Nat
    BY LidarAssumption DEF QuestionInv, Asking, TypeOK
  <2>2. QED
    BY <2>1 DEF AnswersMatch
<1>2. QED
  BY <1>1, InitQuestion, StepQuestion, TypeCorrect, PTL DEF Spec

-----------------------------------------------------------------------------
(***************************************************************************)
(* Scans are whole.  The decoder must not take a header of an earlier      *)
(* session for that of the one being started.  What keeps it from that is  *)
(* the plan of a call: after the last question for device information,     *)
(* whose answer comes after all the device sent before, only questions and *)
(* commands follow that start no session, up to the scan command.          *)
(***************************************************************************)
LEMMA TailElements ==
    ASSUME NEW S, NEW q \in Seq(S), q # <<>>
    PROVE  /\ Tail(q) \in Seq(S) /\ Len(q) \in Nat /\ Len(q) >= 1 /\ Len(Tail(q)) = Len(q) - 1
           /\ Head(q) = q[1]
           /\ \A i \in 1 .. Len(Tail(q)) : i + 1 \in 1 .. Len(q) /\ Tail(q)[i] = q[i + 1]
BY HeadTailProperties

LEMMA AppendElements ==
    ASSUME NEW S, NEW q \in Seq(S), NEW x
    PROVE  /\ Len(q) \in Nat /\ Len(Append(q, x)) = Len(q) + 1
           /\ Append(q, x)[Len(q) + 1] = x
           /\ \A i \in 1 .. Len(q) : i \in 1 .. Len(q) + 1 /\ Append(q, x)[i] = q[i]
OBVIOUS

Scanning(q) == \E i \in 1 .. Len(q) : q[i].do = "scan"
Info(q, i) == q[i].do = "ask" /\ q[i].type = "info"
HasInfo(q) == \E i \in 1 .. Len(q) : Info(q, i)
Informed(q) == Scanning(q) /\ ~HasInfo(q)

\* A call goes on after a question for device information only if it asks again,
\* and ends with its scan command.
Planned(q) ==
    \A i \in 1 .. Len(q) :
        /\ Info(q, i) /\ q[i].fail = "next" => \E j \in 1 .. Len(q) : j > i /\ Info(q, j)
        /\ q[i].do = "scan" => i = Len(q)

LEMMA PlannedConcat ==
    ASSUME NEW s \in Seq(Steps), NEW t \in Seq(Steps), Planned(s), Planned(t), ~Scanning(s)
    PROVE  /\ s \o t \in Seq(Steps) /\ Planned(s \o t)
           /\ HasInfo(s) \/ HasInfo(t) => HasInfo(s \o t)
           /\ ~Scanning(t) => ~Scanning(s \o t)
<1> DEFINE q == s \o t
<1>1. /\ q \in Seq(Steps) /\ Len(s) \in Nat /\ Len(t) \in Nat /\ Len(q) = Len(s) + Len(t)
      /\ \A i \in 1 .. Len(s) : i \in 1 .. Len(q) /\ q[i] = s[i]
      /\ \A i \in 1 .. Len(t) : i + Len(s) \in 1 .. Len(q) /\ q[i + Len(s)] = t[i]
  BY ConcatProperties
<1>2. \A i \in 1 .. Len(q) : i \in 1 .. Len(s) \/ (i - Len(s) \in 1 .. Len(t) /\ q[i] = t[i - Len(s)])
  BY <1>1
<1> HIDE DEF q
<1>3. HasInfo(s) \/ HasInfo(t) => HasInfo(q)
  BY <1>1 DEF HasInfo, Info
<1>4. ~Scanning(t) => ~Scanning(q)
  BY <1>1, <1>2 DEF Scanning
<1>5. ASSUME NEW i \in 1 .. Len(q), q[i].do = "scan"
      PROVE  i = Len(q)
  <2>1. i - Len(s) \in 1 .. Len(t) /\ q[i] = t[i - Len(s)]
    BY <1>1, <1>2, <1>5 DEF Scanning
  <2>2. i - Len(s) = Len(t)
    BY <1>5, <2>1 DEF Planned
  <2>3. QED
    BY <1>1, <2>2
<1>6. ASSUME NEW i \in 1 .. Len(q), Info(q, i), q[i].fail = "next"
      PROVE  \E j \in 1 .. Len(q) : j > i /\ Info(q, j)
  <2>1. CASE i \in 1 .. Len(s)
    <3>1. Info(s, i) /\ s[i].fail = "next"
      BY <1>1, <1>6, <2>1 DEF Info
    <3>2. PICK j \in 1 .. Len(s) : j > i /\ Info(s, j)
      BY <2>1, <3>1 DEF Planned
    <3>3. QED
      BY <1>1, <3>2 DEF Info
  <2>2. CASE i - Len(s) \in 1 .. Len(t) /\ q[i] = t[i - Len(s)]
    <3>1. Info(t, i - Len(s)) /\ t[i - Len(s)].fail = "next"
      BY <1>6, <2>2 DEF Info
    <3>2. PICK j \in 1 .. Len(t) : j > i - Len(s) /\ Info(t, j)
      BY <2>2, <3>1 DEF Planned
    <3>3. j + Len(s) \in 1 .. Len(q) /\ j + Len(s) > i /\ Info(q, j + Len(s))
      BY <1>1, <3>2 DEF Info
    <3>4. QED
      BY <3>3
  <2>3. QED
    BY <1>2, <2>1, <2>2
<1>7. QED
  BY <1>1, <1>3, <1>4, <1>5, <1>6 DEF Planned, q

\* Every call is planned so, and none starts with the questions behind it.
LEMMA CallsPlanned ==
    \A call \in {StartUp, StartMotor, StopMotor, ShutDown} : Planned(call) /\ ~Informed(call)
<1> DEFINE Part(q) == q \in Seq(Steps) /\ Planned(q) /\ ~Scanning(q)
<1>1. Part(SetMotorSpeed)
  BY CallsAreSteps DEF SetMotorSpeed, Ask, Send, Planned, Scanning, Info
<1>2. Part(Connect)
  <2>1. Connect[1] = Ask("info", "next") /\ Connect[2] = Ask("info", "exit") /\ Len(Connect) = 2
    BY DEF Connect
  <2>2. Info(Connect, 2) /\ Connect[2].fail = "exit" /\ Connect[1].do = "ask" /\ Connect[2].do = "ask"
    BY <2>1 DEF Info, Ask
  <2>3. QED
    BY <2>1, <2>2, CallsAreSteps DEF Planned, Scanning
<1>3. Part(ScanModes)
  BY CallsAreSteps DEF ScanModes, Ask, Planned, Scanning, Info
<1>4. Part(StopMotor) /\ Part(ShutDown)
  BY CallsAreSteps DEF StopMotor, ShutDown, Send, Planned, Scanning, Info
<1>s. Part(StopAndAsk) /\ HasInfo(StopAndAsk)
  <2>1. Part(StopAndAsk)
    BY CallsAreSteps DEF StopAndAsk, Ask, Send, Planned, Scanning, Info
  <2>2. 2 \in 1 .. Len(StopAndAsk) /\ Info(StopAndAsk, 2)
    BY DEF StopAndAsk, Ask, Send, Info
  <2>3. QED
    BY <2>1, <2>2 DEF HasInfo
<1>5. StartScanExpress \in Seq(Steps) /\ Planned(StartScanExpress) /\ HasInfo(StartScanExpress)
  <2> DEFINE last == <<Send("scan")>>
  <2>1. last \in Seq(Steps)
    BY DEF Send, Steps
  <2>2. Planned(last)
    BY DEF Send, Planned, Info
  <2>4. StartScanExpress = (StopAndAsk \o SetMotorSpeed) \o last
    BY DEF StartScanExpress
  <2> HIDE DEF last
  <2>5. LET q == StopAndAsk \o SetMotorSpeed
        IN  q \in Seq(Steps) /\ Planned(q) /\ HasInfo(q) /\ ~Scanning(q)
    BY <1>1, <1>s, PlannedConcat
  <2>6. QED
    BY <2>1, <2>2, <2>4, <2>5, PlannedConcat
<1>9. StartScan \in Seq(Steps) /\ Planned(StartScan) /\ HasInfo(StartScan)
  BY <1>s, <1>5, PlannedConcat DEF StartScan
<1>6. Planned(StartMotor) /\ HasInfo(StartMotor)
  BY <1>1, <1>9, PlannedConcat DEF StartMotor
<1>7. Planned(StartUp) /\ HasInfo(StartUp)
  <2>1. Part(Connect \o SetMotorSpeed)
    BY <1>1, <1>2, PlannedConcat
  <2>2. Part((Connect \o SetMotorSpeed) \o ScanModes)
    BY <1>3, <2>1, PlannedConcat
  <2>3. QED
    BY <1>5, <2>2, PlannedConcat DEF StartUp
<1>8. QED
  BY <1>4, <1>6, <1>7 DEF Informed

\* What is left of a plan is planned.  A question for information may fail and the
\* call go on: then another follows.
LEMMA PlannedTail ==
    ASSUME NEW q \in Seq(Steps), q # <<>>, Planned(q)
    PROVE  /\ Planned(Tail(q))
           /\ Informed(Tail(q)) => ~Info(q, 1) \/ q[1].fail # "next"
           /\ Informed(Tail(q)) /\ ~Info(q, 1) => Informed(q)
           /\ q[1].do = "scan" => ~Informed(Tail(q))
<1> DEFINE t == Tail(q)
<1>1. /\ Len(q) \in Nat /\ Len(q) >= 1 /\ Len(t) = Len(q) - 1 /\ 1 \in 1 .. Len(q)
      /\ \A i \in 1 .. Len(t) : i + 1 \in 1 .. Len(q) /\ t[i] = q[i + 1]
  BY TailElements
<1>2. \A i \in 1 .. Len(q) : i > 1 => i - 1 \in 1 .. Len(t) /\ q[i] = t[i - 1]
  BY <1>1
<1> HIDE DEF t
<1>3. \A i \in 1 .. Len(t) : /\ Info(t, i) <=> Info(q, i + 1)
                             /\ t[i].do = q[i + 1].do /\ t[i].fail = q[i + 1].fail
  BY <1>1 DEF Info
<1>4. \A i \in 1 .. Len(q) : i > 1 /\ Info(q, i) => i - 1 \in 1 .. Len(t) /\ Info(t, i - 1)
  BY <1>2 DEF Info
<1>5. Planned(t)
  <2>1. ASSUME NEW i \in 1 .. Len(t), t[i].do = "scan" PROVE i = Len(t)
    <3>1. i + 1 = Len(q)
      BY <1>1, <2>1 DEF Planned
    <3>2. QED
      BY <1>1, <3>1
  <2>2. ASSUME NEW i \in 1 .. Len(t), Info(t, i), t[i].fail = "next"
        PROVE  \E j \in 1 .. Len(t) : j > i /\ Info(t, j)
    <3>1. PICK j \in 1 .. Len(q) : j > i + 1 /\ Info(q, j)
      BY <1>1, <1>3, <2>2 DEF Planned
    <3>2. j - 1 \in 1 .. Len(t) /\ Info(t, j - 1) /\ j - 1 > i
      BY <1>1, <1>4, <3>1
    <3>3. QED
      BY <3>2
  <2>3. QED
    BY <2>1, <2>2 DEF Planned
<1>6. Informed(t) => ~Info(q, 1) \/ q[1].fail # "next"
  <2> SUFFICES ASSUME Informed(t), Info(q, 1), q[1].fail = "next" PROVE FALSE
    OBVIOUS
  <2>1. PICK j \in 1 .. Len(q) : j > 1 /\ Info(q, j)
    BY <1>1 DEF Planned
  <2>2. QED
    BY <1>4, <2>1 DEF Informed, HasInfo
<1>7. Informed(t) /\ ~Info(q, 1) => Informed(q)
  <2>1. Scanning(t) => Scanning(q)
    BY <1>1 DEF Scanning
  <2>2. HasInfo(q) /\ ~Info(q, 1) => HasInfo(t)
    BY <1>4 DEF HasInfo
  <2>3. QED
    BY <2>1, <2>2 DEF Informed
<1>8. q[1].do = "scan" => ~Informed(t)
  BY <1>1 DEF Planned, Informed, Scanning
<1>9. QED
  BY <1>5, <1>6, <1>7, <1>8 DEF t

LEMMA EmptyPlan == Planned(<<>>) /\ ~Informed(<<>>)
BY DEF Planned, Informed, Scanning

PlanInv == Planned(todo)

LEMMA PlanInitial == Init => PlanInv
BY EmptyPlan DEF Init, PlanInv

LEMMA PlanStep == TypeOK /\ PlanInv /\ [Next]_vars => PlanInv'
<1> SUFFICES ASSUME TypeOK, PlanInv, [Next]_vars PROVE PlanInv'
  OBVIOUS
<1>1. \/ todo' = todo \/ todo' = <<>> \/ (todo # <<>> /\ todo' = Tail(todo))
      \/ todo' \in {StartUp, StartMotor, StopMotor, ShutDown}
  <2>1. CASE Device \/ Decoder \/ UNCHANGED vars
    BY <2>1 DEF Device, DeviceObeys, DeviceMeasures, Decoder, Decode, OnCapsule, MatchAnswer,
           StoreAnswer, vars
  <2>2. CASE AskDevice \/ TakeAnswer \/ TimeOut \/ SendCommand
    BY <2>2 DEF AskDevice, TakeAnswer, TimeOut, Failed, SendCommand, TypeOK
  <2>3. CASE Open \/ Wake \/ CallEnds \/ GrabWake \/ GrabTimeOut \/ GrabScan \/ SpinSome
    BY <2>3 DEF Open, Wake, CallEnds, GrabWake, GrabTimeOut, GrabScan, SpinSome
  <2>4. QED
    BY <2>1, <2>2, <2>3 DEF Next, NodeThread
<1>2. todo \in Seq(Steps)
  BY DEF TypeOK
<1>3. QED
  BY <1>1, <1>2, PlannedTail, CallsPlanned, EmptyPlan DEF PlanInv

Headers(q) == \E i \in 1 .. Len(q) : q[i].kind = "header"

\* No scanning session is on its way, and nothing is taken for a capsule.
Silent ==
    ~looping /\ ~enabled /\ cb.kind # "capsule" /\ ~Scanning(toDev) /\ ~Headers(line)

\* The last question asked has the highest number.
Requests ==
    /\ \A i \in 1 .. Len(toDev) : toDev[i].do = "ask" => toDev[i].req <= req
    /\ \A i \in 1 .. Len(line) : line[i].kind = "answer" => line[i].req <= req
    /\ Decoded => cb.req <= req
    /\ answer # None => answer.req <= req
    /\ replied \/ pc = "woken" => answer # None

\* A question is answered after all that was sent before it, so when the node has its answer,
\* or a plan has its last question for information behind it, all is silent.
Waits ==
    /\ pc \in {"wait", "woken"} =>
          /\ ~enabled
          /\ \A i \in 1 .. Len(toDev) : toDev[i].do = "ask" /\ toDev[i].req = req => i = Len(toDev)
          /\ \A i \in 1 .. Len(line) : line[i].kind = "answer" /\ line[i].req = req =>
                ~Scanning(toDev) /\ \A j \in i .. Len(line) : line[j].kind # "header"
          /\ Decoded /\ cb.req = req => Silent
          /\ answer # None /\ answer.req = req => Silent
    /\ Informed(todo) => Silent

\* The streams' steps that start no session.
LEMMA FewerScans ==
    ASSUME TypeOK, toDev # <<>>, toDev' = Tail(toDev), ~Scanning(toDev)
    PROVE  ~Scanning(toDev)' /\ Head(toDev).do # "scan"
<1>1. toDev \in Seq(Commands)
  BY DEF TypeOK
<1>2. QED
  BY <1>1, TailElements DEF Scanning

LEMMA FewerHeaders ==
    ASSUME TypeOK, line # <<>>, line' = Tail(line), ~Headers(line)
    PROVE  ~Headers(line)' /\ Head(line).kind # "header"
<1>1. line \in Seq(Messages)
  BY DEF TypeOK
<1>2. QED
  BY <1>1, TailElements DEF Headers

LEMMA NoNewScan ==
    ASSUME TypeOK, NEW c, toDev' = toDev \/ (toDev' = Append(toDev, c) /\ c.do # "scan"),
           ~Scanning(toDev)
    PROVE  ~Scanning(toDev)'
<1>1. toDev \in Seq(Commands)
  BY DEF TypeOK
<1>2. QED
  BY <1>1, AppendElements DEF Scanning

LEMMA NoNewHeader ==
    ASSUME TypeOK, NEW m, line' = line \/ (line' = Append(line, m) /\ m.kind # "header"),
           ~Headers(line)
    PROVE  ~Headers(line)'
<1>1. line \in Seq(Messages)
  BY DEF TypeOK
<1>2. QED
  BY <1>1, AppendElements DEF Headers

\* Silence lasts until the scan command.
LEMMA SilenceLasts ==
    ASSUME TypeOK, Silent, [Next]_vars, SendCommand => Head(todo).do # "scan"
    PROVE  Silent'
<1>1. CASE DeviceObeys
  <2>1. ~Scanning(toDev)' /\ Head(toDev).do # "scan"
    BY <1>1, FewerScans DEF DeviceObeys, Silent
  <2>2. ~Headers(line)'
    <3>1. \E m : line' = line \/ (line' = Append(line, m) /\ m.kind # "header")
      <4>1. CASE Head(toDev).do = "ask"
        <5> DEFINE a == [kind |-> "answer", type |-> Head(toDev).type, req |-> Head(toDev).req]
        <5>1. line' = Append(line, a) /\ a.kind # "header"
          BY <1>1, <4>1 DEF DeviceObeys
        <5>2. QED
          BY <5>1
      <4>2. CASE Head(toDev).do # "ask"
        BY <1>1, <2>1, <4>2 DEF DeviceObeys
      <4>3. QED
        BY <4>1, <4>2
    <3>2. QED
      BY <3>1, NoNewHeader DEF Silent
  <2>3. QED
    BY <1>1, <2>1, <2>2 DEF DeviceObeys, Silent
<1>2. CASE DeviceMeasures
  <2>1. PICK m : line' = Append(line, m) /\ m.kind = "capsule"
    <3>1. PICK good \in BOOLEAN :
            line' = Append(line, [kind |-> "capsule", session |-> dev.session,
                                  pos |-> dev.next, first |-> dev.fresh, good |-> good])
      BY <1>2 DEF DeviceMeasures
    <3>2. QED
      BY <3>1
  <2>2. ~Headers(line)'
    BY <2>1, NoNewHeader DEF Silent
  <2>3. QED
    BY <1>2, <2>2 DEF DeviceMeasures, Silent
<1>3. CASE Decode
  <2>1. ~Headers(line)' /\ Head(line).kind # "header"
    BY <1>3, FewerHeaders DEF Decode, Silent
  <2>2. looping' = FALSE /\ cb'.kind # "capsule"
    BY <1>3, <2>1, DecodeTakes DEF Silent
  <2>3. QED
    BY <1>3, <2>1, <2>2 DEF Decode, Silent
<1>4. CASE OnCapsule \/ MatchAnswer \/ StoreAnswer
  BY <1>4 DEF OnCapsule, MatchAnswer, StoreAnswer, Silent, None
<1>5. CASE AskDevice
  <2>1. \E c : toDev' = toDev \/ (toDev' = Append(toDev, c) /\ c.do # "scan")
    <3> DEFINE a == [do |-> "ask", type |-> Head(todo).type, req |-> req + 1]
    <3>1. a.do # "scan" /\ (toDev' = toDev \/ toDev' = Append(toDev, a))
      BY <1>5 DEF AskDevice
    <3>2. QED
      BY <3>1
  <2>2. ~Scanning(toDev)'
    BY <2>1, NoNewScan DEF Silent
  <2>3. QED
    BY <1>5, <2>2 DEF AskDevice, DisableGrabbing, Silent
<1>6. CASE SendCommand
  <2>1. \E c : toDev' = toDev \/ (toDev' = Append(toDev, c) /\ c.do # "scan")
    <3> DEFINE a == [do |-> Head(todo).do]
    <3>1. a.do # "scan" /\ (toDev' = toDev \/ toDev' = Append(toDev, a))
      BY <1>6 DEF SendCommand
    <3>2. QED
      BY <3>1
  <2>2. ~Scanning(toDev)'
    BY <2>1, NoNewScan DEF Silent
  <2>3. UNCHANGED <<line, cb>> /\ ~looping' /\ ~enabled'
    BY <1>6 DEF SendCommand, DisableGrabbing, Silent
  <2>4. QED
    BY <2>2, <2>3 DEF Silent
<1>7. CASE Open \/ Wake \/ TakeAnswer \/ TimeOut \/ CallEnds \/ GrabWake \/ GrabTimeOut
           \/ GrabScan \/ SpinSome \/ UNCHANGED vars
  BY <1>7 DEF Open, Wake, TakeAnswer, TimeOut, CallEnds, GrabWake, GrabTimeOut, GrabScan, SpinSome,
           vars, Silent
<1>8. QED
  BY <1>1, <1>2, <1>3, <1>4, <1>5, <1>6, <1>7 DEF Next, Device, Decoder, NodeThread

LEMMA SendingShortens == TypeOK /\ SendCommand => todo' # todo
<1>1. TypeOK /\ SendCommand => todo \in Seq(Steps) /\ todo # <<>> /\ todo' = Tail(todo)
  BY DEF TypeOK, SendCommand
<1>2. QED
  BY <1>1, TailElements

LEMMA DecodedType ==
    ASSUME TypeOK, Decoded
    PROVE  cb.req \in Nat
<1>1. cb \in {None} \cup Answers \cup Matched \cup CapsuleData
  BY DEF TypeOK
<1>2. cb # None /\ cb \notin CapsuleData
  BY DEF Decoded, None, CapsuleData
<1>3. \A m \in Answers \cup Matched : m.req \in Nat
  BY DEF Answers, Matched
<1>4. QED
  BY <1>1, <1>2, <1>3

\* The node's questions are numbered, and what carries a number was asked.
LEMMA RequestsStep ==
    ASSUME TypeOK, TypeOK', Requests, [Next]_vars
    PROVE  Requests'
<1>0. toDev \in Seq(Commands) /\ line \in Seq(Messages) /\ req \in Nat
  BY DEF TypeOK
<1>1. CASE DeviceObeys
  <2>1. /\ toDev # <<>> /\ toDev' = Tail(toDev) /\ UNCHANGED <<cb, replied, pc, answer, req>>
    BY <1>1 DEF DeviceObeys
  <2>2. /\ Head(toDev) = toDev[1] /\ 1 \in 1 .. Len(toDev)
        /\ \A i \in 1 .. Len(toDev') : i + 1 \in 1 .. Len(toDev) /\ toDev'[i] = toDev[i + 1]
    BY <1>0, <2>1, TailElements
  <2>3. \A i \in 1 .. Len(toDev') : toDev'[i].do = "ask" => toDev'[i].req <= req
    BY <2>2 DEF Requests
  <2>4. \E m : line' = line \/ (line' = Append(line, m) /\ (m.kind = "answer" => m.req <= req))
    <3>1. CASE Head(toDev).do = "ask"
      <4> DEFINE a == [kind |-> "answer", type |-> Head(toDev).type, req |-> Head(toDev).req]
      <4>1. line' = Append(line, a) /\ a.req = Head(toDev).req
        BY <1>1, <3>1 DEF DeviceObeys
      <4>2. a.req <= req
        BY <2>2, <3>1, <4>1 DEF Requests
      <4>3. QED
        BY <4>1, <4>2
    <3>2. CASE Head(toDev).do = "scan"
      <4>1. line' = Append(line, [kind |-> "header"])
        BY <1>1, <3>2 DEF DeviceObeys
      <4>2. [kind |-> "header"].kind # "answer"
        OBVIOUS
      <4>3. QED
        BY <4>1, <4>2
    <3>3. CASE Head(toDev).do \notin {"ask", "scan"}
      BY <1>1, <3>3 DEF DeviceObeys
    <3>4. QED
      BY <3>1, <3>2, <3>3
  <2>5. \A i \in 1 .. Len(line') : line'[i].kind = "answer" => line'[i].req <= req
    BY <1>0, <2>4, AppendElements DEF Requests
  <2>6. QED
    BY <2>1, <2>3, <2>5 DEF Requests, Decoded
<1>2. CASE DeviceMeasures
  <2>1. PICK m : line' = Append(line, m) /\ m.kind = "capsule"
    <3>1. PICK good \in BOOLEAN :
            line' = Append(line, [kind |-> "capsule", session |-> dev.session,
                                  pos |-> dev.next, first |-> dev.fresh, good |-> good])
      BY <1>2 DEF DeviceMeasures
    <3>2. QED
      BY <3>1
  <2>2. \A i \in 1 .. Len(line') : line'[i].kind = "answer" => line'[i].req <= req
    BY <1>0, <2>1, AppendElements DEF Requests
  <2>3. QED
    BY <1>2, <2>2 DEF DeviceMeasures, Requests, Decoded
<1>3. CASE Decode
  <2>1. /\ line # <<>> /\ line' = Tail(line) /\ UNCHANGED <<toDev, replied, pc, answer, req>>
    BY <1>3 DEF Decode
  <2>2. /\ Head(line) = line[1] /\ 1 \in 1 .. Len(line)
        /\ \A i \in 1 .. Len(line') : i + 1 \in 1 .. Len(line) /\ line'[i] = line[i + 1]
    BY <1>0, <2>1, TailElements
  <2>3. \A i \in 1 .. Len(line') : line'[i].kind = "answer" => line'[i].req <= req
    BY <2>2 DEF Requests
  <2>4. Decoded' => cb' = Head(line) /\ Head(line).kind = "answer"
    BY <1>3, DecodeTakes DEF Decoded, None, Answers, CapsuleData
  <2>5. QED
    BY <2>1, <2>2, <2>3, <2>4 DEF Requests
<1>4. CASE OnCapsule \/ StoreAnswer
  <2>1. UNCHANGED <<toDev, line, pc, req>> /\ ~Decoded'
    BY <1>4 DEF OnCapsule, StoreAnswer, Decoded, None
  <2>2. UNCHANGED <<answer, replied>> \/ (Decoded /\ answer' = cb)
    BY <1>4 DEF OnCapsule, StoreAnswer, Decoded
  <2>3. answer' # None /\ answer' = cb => Decoded
    BY <1>4, <2>2 DEF OnCapsule, StoreAnswer, Requests, Decoded, TypeOK, Matched
  <2>4. StoreAnswer => answer' # None
    BY DEF StoreAnswer, None
  <2>5. QED
    BY <1>4, <2>1, <2>2, <2>3, <2>4 DEF Requests, OnCapsule
<1>5. CASE MatchAnswer
  <2>1. UNCHANGED <<toDev, line, pc, req, answer, replied>>
    BY <1>5 DEF MatchAnswer
  <2>2. Decoded' => Decoded /\ cb'.req = cb.req
    BY <1>5 DEF MatchAnswer, Decoded, Matches, Type, TypeOK, Types, None
  <2>3. QED
    BY <2>1, <2>2 DEF Requests
<1>6. CASE AskDevice
  <2>1. UNCHANGED <<line, cb, answer>> /\ req' = req + 1 /\ replied' = FALSE /\ pc' # "woken"
    BY <1>6 DEF AskDevice, Failed
  <2>2. \A i \in 1 .. Len(toDev') : toDev'[i].do = "ask" => toDev'[i].req <= req + 1
    <3> DEFINE a == [do |-> "ask", type |-> Head(todo).type, req |-> req + 1]
    <3>1. a.req = req + 1 /\ (toDev' = toDev \/ toDev' = Append(toDev, a))
      BY <1>6 DEF AskDevice
    <3>2. \A c \in Commands : c.do = "ask" => c.req \in Nat
      BY DEF Commands
    <3>3. \A i \in 1 .. Len(toDev) : toDev[i].do = "ask" => toDev[i].req <= req + 1
      BY <1>0, <3>2 DEF Requests
    <3> HIDE DEF a
    <3>4. QED
      BY <1>0, <3>1, <3>3, AppendElements
  <2>3. \A i \in 1 .. Len(line) : line[i].kind = "answer" => line[i].req <= req + 1
    <3>1. \A m \in Messages : m.kind = "answer" => m.req \in Nat
      BY DEF Messages, Answers, CapsuleData
    <3>2. QED
      BY <1>0, <3>1 DEF Requests
  <2>4. Decoded => cb.req <= req + 1
    BY <1>0, DecodedType DEF Requests
  <2>5. answer # None => answer.req <= req + 1
    <3>1. \A m \in Matched : m.req \in Nat
      BY DEF Matched
    <3>2. answer # None => answer.req \in Nat
      BY <3>1 DEF TypeOK
    <3>3. QED
      BY <1>0, <3>2 DEF Requests
  <2>6. QED
    BY <2>1, <2>2, <2>3, <2>4, <2>5 DEF Requests, Decoded
<1>7. CASE SendCommand
  <2>1. UNCHANGED <<line, cb, answer, req, pc>> /\ replied' = FALSE
    BY <1>7 DEF SendCommand
  <2>2. \A i \in 1 .. Len(toDev') : toDev'[i].do = "ask" => toDev'[i].req <= req
    <3> DEFINE a == [do |-> Head(todo).do]
    <3>1. a.do # "ask" /\ (toDev' = toDev \/ toDev' = Append(toDev, a))
      <4>1. Head(todo).do # "ask"
        BY <1>7 DEF SendCommand
      <4>2. toDev' = toDev \/ toDev' = Append(toDev, [do |-> Head(todo).do])
        BY <1>7, ZenonT(40) DEF SendCommand
      <4>3. QED
        BY <4>1, <4>2
    <3> HIDE DEF a
    <3>2. CASE toDev' = toDev
      BY <1>7, <2>1, <3>2 DEF Requests
    <3>3. CASE toDev' = Append(toDev, a)
      <4>1. /\ Len(toDev) \in Nat /\ Len(toDev') = Len(toDev) + 1 /\ toDev'[Len(toDev) + 1] = a
            /\ \A i \in 1 .. Len(toDev) : toDev'[i] = toDev[i]
        BY <1>0, <3>3, AppendElements
      <4>2. \A i \in 1 .. Len(toDev) : toDev[i].do = "ask" => toDev[i].req <= req
        BY DEF Requests
      <4>3. \A i \in 1 .. Len(toDev') : i = Len(toDev) + 1 \/ i \in 1 .. Len(toDev)
        BY <4>1
      <4>4. QED
        BY <3>1, <4>1, <4>2, <4>3
    <3>4. QED
      BY <3>1, <3>2, <3>3
  <2>3. QED
    BY <2>1, <2>2 DEF Requests, Decoded
<1>8. CASE Wake \/ TakeAnswer \/ TimeOut
  BY <1>8 DEF Wake, TakeAnswer, TimeOut, Failed, Requests, Decoded
<1>9. CASE Open \/ CallEnds \/ GrabWake \/ GrabTimeOut \/ GrabScan \/ SpinSome \/ UNCHANGED vars
  BY <1>9 DEF Open, CallEnds, GrabWake, GrabTimeOut, GrabScan, SpinSome, vars, Requests, Decoded
<1>10. QED
  BY <1>1, <1>2, <1>3, <1>4, <1>5, <1>6, <1>7, <1>8, <1>9 DEF Next, Device, Decoder, NodeThread

\* The device obeys: the last question has nothing behind it.
LEMMA WaitsObeyed ==
    ASSUME TypeOK, Waits, DeviceObeys
    PROVE  Waits'
<1>1. /\ toDev \in Seq(Commands) /\ line \in Seq(Messages) /\ toDev # <<>> /\ toDev' = Tail(toDev)
      /\ UNCHANGED <<pc, todo, replied, answer, req, cb, enabled, looping>>
  BY DEF TypeOK, DeviceObeys
<1>2. Silent => Silent'
  BY <1>1, SilenceLasts, SendingShortens DEF Next, Device
<1>3. ASSUME Asking
      PROVE  /\ \A i \in 1 .. Len(toDev') : toDev'[i].do = "ask" /\ toDev'[i].req = req => i = Len(toDev')
             /\ \A i \in 1 .. Len(line') : line'[i].kind = "answer" /\ line'[i].req = req =>
                   ~Scanning(toDev') /\ \A j \in i .. Len(line') : line'[j].kind # "header"
  <2>1. /\ Len(toDev) \in Nat /\ Len(toDev) >= 1 /\ Len(toDev') = Len(toDev) - 1 /\ Head(toDev) = toDev[1]
        /\ \A i \in 1 .. Len(toDev') : i + 1 \in 1 .. Len(toDev) /\ toDev'[i] = toDev[i + 1]
        /\ 1 \in 1 .. Len(toDev)
    BY <1>1, TailElements
  <2>2. ASSUME NEW i \in 1 .. Len(toDev'), toDev'[i].do = "ask", toDev'[i].req = req
        PROVE  i = Len(toDev')
    <3>1. i + 1 = Len(toDev)
      BY <1>3, <2>1, <2>2 DEF Waits, Asking
    <3>2. QED
      BY <2>1, <3>1
  <2>3. ASSUME NEW i \in 1 .. Len(line), line[i].kind = "answer", line[i].req = req
        PROVE  ~Scanning(toDev) /\ \A j \in i .. Len(line) : line[j].kind # "header"
    BY <1>3, <2>3 DEF Waits, Asking
  <2>4. ~Scanning(toDev) => ~Scanning(toDev')
    BY <2>1 DEF Scanning
  <2>5. \A i \in 1 .. Len(toDev) : toDev[i].do = "ask" /\ toDev[i].req = req => i = Len(toDev)
    BY <1>3 DEF Waits, Asking
  <2>6. CASE Head(toDev).do = "ask"
    <3> DEFINE a == [kind |-> "answer", type |-> Head(toDev).type, req |-> Head(toDev).req]
    <3>1. line' = Append(line, a) /\ a.kind = "answer" /\ a.req = Head(toDev).req
      BY <2>6 DEF DeviceObeys
    <3> HIDE DEF a
    <3>2. /\ Len(line) \in Nat /\ Len(line') = Len(line) + 1 /\ line'[Len(line) + 1] = a
          /\ \A i \in 1 .. Len(line) : line'[i] = line[i]
      BY <1>1, <3>1, AppendElements
    <3>3. a.req = req => ~Scanning(toDev')
      <4> SUFFICES ASSUME a.req = req PROVE ~Scanning(toDev')
        OBVIOUS
      <4>0. toDev[1].do = "ask" /\ toDev[1].req = req
        BY <2>1, <2>6, <3>1
      <4>1. Len(toDev) = 1
        BY <2>1, <2>5, <4>0
      <4>2. Len(toDev') = 0
        BY <2>1, <4>1
      <4>3. \A i \in 1 .. Len(toDev') : FALSE
        BY <4>2
      <4>4. QED
        BY <4>3 DEF Scanning
    <3>4. ASSUME NEW i \in 1 .. Len(line'), line'[i].kind = "answer", line'[i].req = req
          PROVE  ~Scanning(toDev') /\ \A j \in i .. Len(line') : line'[j].kind # "header"
      <4>1. CASE i = Len(line) + 1
        <5>1. \A j \in i .. Len(line') : j = Len(line) + 1
          BY <3>2, <4>1
        <5>2. a.req = req
          BY <3>2, <3>4, <4>1
        <5>3. QED
          BY <3>1, <3>2, <3>3, <5>1, <5>2
      <4>2. CASE i # Len(line) + 1
        <5>1. i \in 1 .. Len(line) /\ line'[i] = line[i]
          BY <3>2, <4>2
        <5>2. ~Scanning(toDev) /\ \A j \in i .. Len(line) : line[j].kind # "header"
          BY <2>3, <3>4, <5>1
        <5>3. \A j \in i .. Len(line') : j = Len(line) + 1 \/ (j \in i .. Len(line) /\ j \in 1 .. Len(line))
          BY <3>2
        <5>4. QED
          BY <2>4, <3>1, <3>2, <5>2, <5>3
      <4>3. QED
        BY <4>1, <4>2
    <3>5. QED
      BY <2>2, <3>4
  <2>7. CASE Head(toDev).do = "scan"
    <3>1. Scanning(toDev)
      BY <2>1, <2>7 DEF Scanning
    <3>2. \A i \in 1 .. Len(line) : ~(line[i].kind = "answer" /\ line[i].req = req)
      BY <2>3, <3>1
    <3>3. line' = Append(line, [kind |-> "header"]) /\ [kind |-> "header"].kind # "answer"
      BY <2>7 DEF DeviceObeys
    <3>4. \A i \in 1 .. Len(line') : ~(line'[i].kind = "answer" /\ line'[i].req = req)
      BY <1>1, <3>2, <3>3, AppendElements
    <3>5. QED
      BY <2>2, <3>4
  <2>8. CASE Head(toDev).do \notin {"ask", "scan"}
    <3>1. line' = line
      BY <2>8 DEF DeviceObeys
    <3>2. QED
      BY <2>2, <2>3, <2>4, <3>1
  <2>9. QED
    BY <2>6, <2>7, <2>8
<1>4. QED
  BY <1>1, <1>2, <1>3 DEF Waits, Decoded, Asking

LEMMA WaitsMeasured ==
    ASSUME TypeOK, Waits, DeviceMeasures
    PROVE  Waits'
<1>1. /\ line \in Seq(Messages)
      /\ UNCHANGED <<pc, todo, replied, answer, req, cb, enabled, looping, toDev>>
  BY DEF TypeOK, DeviceMeasures
<1>2. Silent => Silent'
  BY <1>1, SilenceLasts, SendingShortens DEF Next, Device
<1>3. PICK m : line' = Append(line, m) /\ m.kind = "capsule"
  <2>1. PICK good \in BOOLEAN :
          line' = Append(line, [kind |-> "capsule", session |-> dev.session,
                                pos |-> dev.next, first |-> dev.fresh, good |-> good])
    BY DEF DeviceMeasures
  <2>2. QED
    BY <2>1
<1>4. /\ Len(line) \in Nat /\ Len(line') = Len(line) + 1 /\ line'[Len(line) + 1].kind = "capsule"
      /\ \A i \in 1 .. Len(line) : line'[i] = line[i]
  BY <1>1, <1>3, AppendElements
<1>5. \A i \in 1 .. Len(line') : line'[i].kind = "answer" => i \in 1 .. Len(line) /\ line'[i] = line[i]
  BY <1>4
<1>6. ASSUME Asking, NEW i \in 1 .. Len(line'), line'[i].kind = "answer", line'[i].req = req
      PROVE  ~Scanning(toDev) /\ \A j \in i .. Len(line') : line'[j].kind # "header"
  <2>1. i \in 1 .. Len(line) /\ ~Scanning(toDev) /\ \A j \in i .. Len(line) : line[j].kind # "header"
    BY <1>5, <1>6 DEF Waits, Asking
  <2>2. QED
    BY <1>4, <2>1
<1>7. QED
  BY <1>1, <1>2, <1>6 DEF Waits, Decoded, Asking

LEMMA WaitsDecoded ==
    ASSUME TypeOK, Waits, Decode
    PROVE  Waits'
<1>1. /\ line \in Seq(Messages) /\ line # <<>> /\ line' = Tail(line)
      /\ UNCHANGED <<pc, todo, replied, answer, req, enabled, toDev>>
  BY DEF TypeOK, Decode
<1>2. Silent => Silent'
  BY <1>1, SilenceLasts, SendingShortens DEF Next, Decoder
<1>3. /\ Len(line) \in Nat /\ Len(line) >= 1 /\ Len(line') = Len(line) - 1 /\ Head(line) = line[1]
      /\ \A i \in 1 .. Len(line') : i + 1 \in 1 .. Len(line) /\ line'[i] = line[i + 1]
      /\ 1 \in 1 .. Len(line)
  BY <1>1, TailElements
<1>4. ASSUME Asking, Decoded', cb'.req = req PROVE Silent'
  <2>1. Head(line).kind = "answer" /\ ~looping /\ cb' = Head(line)
    BY <1>4, DecodeTakes DEF Decoded, None, Answers, CapsuleData
  <2>2. ~enabled /\ ~Scanning(toDev) /\ \A j \in 1 .. Len(line) : line[j].kind # "header"
    BY <1>3, <1>4, <2>1 DEF Waits, Asking
  <2>3. ~Headers(line')
    BY <1>3, <2>2 DEF Headers
  <2>4. looping' = FALSE /\ cb'.kind # "capsule"
    BY <2>1, DecodeTakes
  <2>5. QED
    BY <1>1, <2>2, <2>3, <2>4 DEF Silent
<1>5. ASSUME Asking, NEW i \in 1 .. Len(line'), line'[i].kind = "answer", line'[i].req = req
      PROVE  ~Scanning(toDev) /\ \A j \in i .. Len(line') : line'[j].kind # "header"
  <2>1. ~Scanning(toDev) /\ \A j \in i + 1 .. Len(line) : line[j].kind # "header"
    BY <1>3, <1>5 DEF Waits, Asking
  <2>2. \A j \in i .. Len(line') : j \in 1 .. Len(line') /\ j + 1 \in i + 1 .. Len(line)
    BY <1>3
  <2>3. QED
    BY <1>3, <2>1, <2>2
<1>6. QED
  BY <1>1, <1>2, <1>4, <1>5 DEF Waits, Asking

\* After a failed question the plan has still its last one for information, or had not.
LEMMA FailedPlan ==
    ASSUME TypeOK, PlanInv, todo # <<>>, Failed, Informed(todo')
    PROVE  Informed(todo)
<1>1. todo' = Tail(todo) /\ Head(todo).fail = "next" /\ todo \in Seq(Steps) /\ Head(todo) = todo[1]
  BY EmptyPlan DEF Failed, TypeOK
<1>2. QED
  BY <1>1, PlannedTail DEF PlanInv

LEMMA WaitsStep ==
    ASSUME TypeOK, Requests, PlanInv, Waits, [Next]_vars, ~mistaken'
    PROVE  Waits'
<1>0. Silent /\ (SendCommand => Head(todo).do # "scan") => Silent'
  BY SilenceLasts
<1>1. CASE DeviceObeys
  BY <1>1, WaitsObeyed
<1>2. CASE DeviceMeasures
  BY <1>2, WaitsMeasured
<1>3. CASE Decode
  BY <1>3, WaitsDecoded
<1>4. CASE OnCapsule
  <2>1. UNCHANGED <<pc, todo>> /\ enabled /\ ~Asking /\ ~Silent
    BY <1>4 DEF OnCapsule, Waits, Silent, Asking
  <2>2. QED
    BY <2>1 DEF Waits, Asking
<1>5. CASE MatchAnswer
  <2>1. UNCHANGED <<pc, todo, line, toDev, answer, req, enabled>> /\ ~SendCommand
    BY <1>5 DEF MatchAnswer, SendCommand
  <2>2. Decoded' => Decoded /\ cb'.req = cb.req
    BY <1>5 DEF MatchAnswer, Decoded, Matches, Type, TypeOK, Types, None
  <2>3. QED
    BY <1>0, <2>1, <2>2 DEF Waits
<1>6. CASE StoreAnswer
  <2>1. /\ UNCHANGED <<pc, todo, line, toDev, req, enabled>> /\ ~SendCommand
        /\ Decoded /\ ~Decoded' /\ answer' = cb
    BY <1>6 DEF StoreAnswer, SendCommand, Decoded, None
  <2>2. QED
    BY <1>0, <2>1 DEF Waits
<1>7. CASE AskDevice
  <2>1. pc = "run" /\ todo # <<>> /\ ~SendCommand
    BY <1>7 DEF AskDevice, SendCommand
  <2>2. CASE working
    <3> DEFINE c == [do |-> "ask", type |-> Head(todo).type, req |-> req + 1]
    <3>1. /\ toDev' = Append(toDev, c) /\ pc' = "wait" /\ toDev \in Seq(Commands) /\ line \in Seq(Messages)
          /\ UNCHANGED <<todo, line, cb, answer>> /\ ~enabled' /\ req' = req + 1 /\ req \in Nat
      BY <1>7, <2>2 DEF AskDevice, DisableGrabbing, TypeOK
    <3>n. /\ \A x \in Commands : x.do = "ask" => x.req \in Nat
          /\ \A m \in Messages : m.kind = "answer" => m.req \in Nat
          /\ \A m \in Matched : m.req \in Nat
      BY DEF Commands, Messages, Answers, CapsuleData, Matched
    <3>2. /\ Len(toDev') = Len(toDev) + 1 /\ Len(toDev) \in Nat
          /\ \A i \in 1 .. Len(toDev) : toDev'[i] = toDev[i]
      BY <3>1, AppendElements
    <3>3. \A i \in 1 .. Len(toDev') : toDev'[i].do = "ask" /\ toDev'[i].req = req' => i = Len(toDev')
      <4>1. \A i \in 1 .. Len(toDev) : ~(toDev[i].do = "ask" /\ toDev[i].req = req + 1)
        BY <3>1, <3>n DEF Requests
      <4>2. QED
        BY <3>1, <3>2, <4>1
    <3>4. \A i \in 1 .. Len(line) : ~(line[i].kind = "answer" /\ line[i].req = req + 1)
      BY <3>1, <3>n DEF Requests
    <3>5. ~(Decoded /\ cb.req = req + 1)
      BY <3>1, DecodedType DEF Requests
    <3>6. ~(answer # None /\ answer.req = req + 1)
      <4>1. answer # None => answer.req \in Nat
        BY <3>n DEF TypeOK
      <4>2. QED
        BY <3>1, <4>1 DEF Requests
    <3>7. Informed(todo') => Silent'
      BY <1>0, <2>1, <3>1 DEF Waits
    <3>8. QED
      BY <3>1, <3>3, <3>4, <3>5, <3>6, <3>7 DEF Waits, Decoded
  <2>3. CASE ~working
    <3>1. Failed
      BY <1>7, <2>3 DEF AskDevice
    <3>2. pc' \in {"run", "exit"} /\ (Informed(todo') => Silent')
      BY <1>0, <2>1, <3>1, FailedPlan DEF Failed, Waits
    <3>3. QED
      BY <3>2 DEF Waits
  <2>4. QED
    BY <2>2, <2>3
<1>8. CASE Wake
  <2>1. Asking /\ UNCHANGED <<todo, line, toDev, cb, answer, req, enabled>> /\ ~SendCommand
    BY <1>8 DEF Wake, SendCommand, Asking
  <2>2. QED
    BY <1>0, <2>1 DEF Waits, Asking, Decoded
<1>9. CASE TakeAnswer
  <2>1. answer.req = req /\ answer # None /\ Asking /\ pc' \in {"run", "exit"} /\ ~SendCommand
    BY <1>9 DEF TakeAnswer, Failed, Requests, Asking, SendCommand
  <2>2. Silent
    BY <2>1 DEF Waits, Asking
  <2>3. QED
    BY <1>0, <2>1, <2>2 DEF Waits
<1>10. CASE TimeOut
  <2>1. Failed /\ todo # <<>> /\ ~SendCommand
    BY <1>10 DEF TimeOut, TypeOK, SendCommand
  <2>2. pc' \in {"run", "exit"} /\ (Informed(todo') => Silent')
    BY <1>0, <2>1, FailedPlan DEF Failed, Waits
  <2>3. QED
    BY <2>2 DEF Waits
<1>11. CASE SendCommand
  <2>1. /\ todo' = Tail(todo) /\ todo # <<>> /\ pc' = "run" /\ todo \in Seq(Steps)
        /\ Head(todo) = todo[1] /\ todo[1].do # "ask"
    BY <1>11 DEF SendCommand, TypeOK
  <2>2. ~Info(todo, 1)
    BY <2>1 DEF Info
  <2>3. Informed(todo') => Informed(todo) /\ todo[1].do # "scan"
    BY <2>1, <2>2, PlannedTail DEF PlanInv
  <2>4. Informed(todo') => Silent'
    BY <1>0, <2>1, <2>3 DEF Waits
  <2>5. QED
    BY <2>1, <2>4 DEF Waits
<1>12. CASE Open \/ CallEnds \/ GrabWake \/ GrabTimeOut \/ GrabScan \/ SpinSome
  <2>1. /\ pc' \notin {"wait", "woken"}
        /\ todo' = todo \/ todo' \in {StartUp, StartMotor, StopMotor, ShutDown}
    BY <1>12 DEF Open, CallEnds, GrabWake, GrabTimeOut, GrabScan, SpinSome
  <2>2. SendCommand => Head(todo).do # "scan"
    BY <1>12 DEF Open, CallEnds, GrabWake, GrabTimeOut, GrabScan, SpinSome, SendCommand
  <2>3. Informed(todo') => Silent'
    BY <1>0, <2>1, <2>2, CallsPlanned DEF Waits
  <2>4. QED
    BY <2>1, <2>3 DEF Waits
<1>13. CASE UNCHANGED vars
  BY <1>13 DEF vars, Waits, Silent, Decoded
<1>14. QED
  BY <1>1, <1>2, <1>3, <1>4, <1>5, <1>6, <1>7, <1>8, <1>9, <1>10, <1>11, <1>12, <1>13
     DEF Next, Device, Decoder, NodeThread

-----------------------------------------------------------------------------
(***************************************************************************)
(* What the decoder gets of a session.                                     *)
(***************************************************************************)
\* A capsule of the device's session, with k more of it sent since.
Current(m, k) ==
    /\ m.kind = "capsule" /\ m.session = dev.session /\ m.pos + k + 1 = dev.next
    /\ m.good \/ Node(m) \in spoiled

\* What is on the line after its first h messages are the session's last capsules, and
\* only the foremost can be the session's first.
InSession(h) ==
    /\ \A j \in 1 .. Len(line) : j > h =>
          Current(line[j], Len(line) - j) /\ (line[j].first => j = h + 1)
    /\ dev.fresh => h = Len(line)
Heads(h) == IF h < Len(line) THEN line[h + 1].first ELSE dev.fresh

DecodedInSession ==
    cb.kind = "capsule" =>
        /\ Current(cb, Len(line)) /\ ~dev.fresh
        /\ \A j \in 1 .. Len(line) : ~line[j].first

\* The capsule the handler gets next: is it the session's first, and its position.
NextFirst == IF cb.kind = "capsule" THEN cb.first ELSE Heads(0)
NextPos == dev.next - Len(line) - (IF cb.kind = "capsule" THEN 1 ELSE 0)

\* The cached capsule is the one before it, and follows the last node collected; without
\* one, a capsule was spoiled since that node.
Linked ==
    /\ NextFirst => buf = <<>>
    /\ ~NextFirst /\ prev # None => prev.session = dev.session /\ prev.pos + 1 = NextPos
    /\ ~NextFirst /\ buf # <<>> =>
          /\ buf[Len(buf)].session = dev.session
          /\ IF prev # None THEN Follows(buf[Len(buf)], Node(prev))
             ELSE \E c \in spoiled : /\ c.session = dev.session
                                     /\ buf[Len(buf)].pos < c.pos /\ c.pos < NextPos

\* In loop mode the decoder is in the device's session, and no foreign bytes wait.
Running ==
    /\ ~Scanning(toDev) /\ ~Asked(toDev) /\ ~Headers(line) /\ ~torn
    /\ InSession(0) /\ DecodedInSession /\ Linked

\* Before, the session's header is still to come, if the scan command was not lost.
Starting ==
    /\ cb.kind # "capsule" /\ buf = <<>>
    /\ Scanning(toDev) => ~Headers(line)
    /\ \A i, j \in 1 .. Len(toDev) : toDev[i].do = "scan" /\ toDev[j].do \in {"scan", "ask"} => j <= i
    /\ \A h \in 1 .. Len(line) : line[h].kind = "header" => ~Asked(toDev) /\ InSession(h) /\ Heads(h)

Started == enabled => IF looping THEN Running ELSE Starting

LEMMA SessionObeyed ==
    ASSUME TypeOK, Started, enabled, DeviceObeys
    PROVE  Started'
<1>1. /\ toDev \in Seq(Commands) /\ line \in Seq(Messages) /\ toDev # <<>> /\ toDev' = Tail(toDev)
      /\ UNCHANGED <<cb, enabled, looping, torn, prev, buf, spoiled>>
      /\ dev \in Devices(BOOLEAN)
  BY DEF TypeOK, DeviceObeys, Devices
<1>2. /\ Len(toDev) \in Nat /\ Len(toDev) >= 1 /\ Len(toDev') = Len(toDev) - 1 /\ Head(toDev) = toDev[1]
      /\ \A i \in 1 .. Len(toDev') : i + 1 \in 1 .. Len(toDev) /\ toDev'[i] = toDev[i + 1]
  BY <1>1, TailElements
<1>3. 1 \in 1 .. Len(toDev)
  BY <1>2
<1>4. CASE Head(toDev).do = "scan"
  <2>s. Scanning(toDev)
    BY <1>2, <1>3, <1>4 DEF Scanning
  <2>1. Scanning(toDev) /\ ~looping /\ Starting
    BY <2>s DEF Started, Running
  <2>2. line' = Append(line, [kind |-> "header"]) /\ dev'.fresh = TRUE
    <3>1. PICK p \in 0 .. Capsules - 1 :
            dev' = [dev EXCEPT !.scans = TRUE, !.fresh = TRUE, !.session = @ + 1, !.next = p]
      BY <1>4 DEF DeviceObeys
    <3>2. line' = Append(line, [kind |-> "header"])
      BY <1>4 DEF DeviceObeys
    <3>3. dev'.fresh = TRUE
      BY <1>1, <3>1 DEF Devices
    <3>4. QED
      BY <3>2, <3>3
  <2>3. /\ Len(line) \in Nat /\ Len(line') = Len(line) + 1
        /\ \A i \in 1 .. Len(line) : line'[i] = line[i]
    BY <1>1, <2>2, AppendElements
  <2>4. \A h \in 1 .. Len(line') : line'[h].kind = "header" => h = Len(line')
    BY <2>1, <2>3 DEF Starting, Headers
  <2>5. ASSUME NEW h \in 1 .. Len(line'), line'[h].kind = "header"
        PROVE  InSession(h)' /\ Heads(h)'
    BY <2>2, <2>3, <2>4, <2>5 DEF InSession, Heads
  <2>6. ~Scanning(toDev') /\ ~Asked(toDev')
    <3>1. \A i \in 1 .. Len(toDev) : toDev[i].do \in {"scan", "ask"} => i <= 1
      BY <1>2, <1>3, <1>4, <2>1 DEF Starting
    <3>2. \A i \in 1 .. Len(toDev') : ~(i + 1 <= 1)
      BY <1>2
    <3>3. QED
      BY <1>2, <3>1, <3>2 DEF Scanning, Asked
  <2>7. QED
    BY <1>1, <2>1, <2>5, <2>6 DEF Started, Starting, Scanning, Asked
<1>p. ASSUME Starting, NEW i \in 1 .. Len(toDev'), NEW j \in 1 .. Len(toDev'),
             toDev'[i].do = "scan", toDev'[j].do \in {"scan", "ask"}
      PROVE  j <= i
  <2>1. j + 1 <= i + 1
    BY <1>2, <1>p DEF Starting
  <2>2. i \in Int /\ j \in Int
    BY <1>2
  <2>3. QED
    BY <2>1, <2>2
<1>a. CASE Head(toDev).do = "ask"
  <2>1. Asked(toDev) /\ ~looping /\ Starting
    BY <1>2, <1>3, <1>a DEF Asked, Started, Running
  <2>2. ~Headers(line)
    BY <2>1 DEF Starting, Headers
  <2>3. ~Headers(line')
    <3> DEFINE a == [kind |-> "answer", type |-> Head(toDev).type, req |-> Head(toDev).req]
    <3>1. line' = Append(line, a) /\ a.kind # "header"
      BY <1>a DEF DeviceObeys
    <3> HIDE DEF a
    <3>2. QED
      BY <2>2, <3>1, NoNewHeader
  <2>4. Starting'
    BY <1>1, <1>p, <2>1, <2>3 DEF Starting, Headers
  <2>5. QED
    BY <1>1, <2>1, <2>4 DEF Started
<1>5. CASE Head(toDev).do \notin {"scan", "ask"}
  <2>1. line' = line
    BY <1>5 DEF DeviceObeys
  <2>2. dev'.fresh = dev.fresh /\ dev'.session = dev.session /\ dev'.next = dev.next
    BY <1>1, <1>5 DEF DeviceObeys, Devices
  <2>3. (Scanning(toDev') => Scanning(toDev)) /\ (Asked(toDev') => Asked(toDev))
    BY <1>2 DEF Scanning, Asked
  <2>4. \A h : (InSession(h)' <=> InSession(h)) /\ (Heads(h)' <=> Heads(h))
    BY <1>1, <2>1, <2>2 DEF InSession, Heads, Current, Node
  <2>5. CASE looping
    <3>1. DecodedInSession'
      BY <1>1, <2>1, <2>2, <2>5 DEF Started, Running, DecodedInSession, Current, Node
    <3>2. (NextFirst' <=> NextFirst) /\ NextPos' = NextPos
      BY <1>1, <2>1, <2>2, <2>4 DEF NextFirst, NextPos
    <3>3. Linked'
      BY <1>1, <2>2, <2>5, <3>2 DEF Started, Running, Linked, Follows, InOrder, Disturbed, Node
    <3>4. QED
      BY <1>1, <2>1, <2>3, <2>4, <2>5, <3>1, <3>3 DEF Started, Running, Headers
  <2>6. CASE ~looping
    BY <1>1, <1>p, <2>1, <2>3, <2>4, <2>6 DEF Started, Starting, Headers
  <2>7. QED
    BY <2>5, <2>6
<1>6. QED
  BY <1>4, <1>5, <1>a

LEMMA SessionMeasured ==
    ASSUME TypeOK, Started, enabled, DeviceMeasures
    PROVE  Started'
<1>1. /\ line \in Seq(Messages)
      /\ UNCHANGED <<cb, enabled, looping, torn, prev, buf, toDev>>
      /\ dev \in Devices(BOOLEAN)
  BY DEF TypeOK, DeviceMeasures, Devices
<1>2. PICK good \in BOOLEAN :
        /\ line' = Append(line, [kind |-> "capsule", session |-> dev.session,
                                 pos |-> dev.next, first |-> dev.fresh, good |-> good])
        /\ spoiled' = IF good THEN spoiled
                      ELSE spoiled \cup {[session |-> dev.session, pos |-> dev.next]}
  BY DEF DeviceMeasures
<1> DEFINE n == Len(line) + 1
<1>3. /\ Len(line) \in Nat /\ Len(line') = n
      /\ \A i \in 1 .. Len(line) : line'[i] = line[i]
      /\ line'[n].kind = "capsule" /\ line'[n].session = dev.session /\ line'[n].pos = dev.next
      /\ line'[n].first = dev.fresh /\ (line'[n].good \/ Node(line'[n]) \in spoiled')
  BY <1>1, <1>2, AppendElements DEF Node
<1>4. /\ dev'.fresh = FALSE /\ dev'.session = dev.session /\ dev'.next = dev.next + 1
      /\ dev.next \in Nat /\ spoiled \subseteq spoiled'
  BY <1>1, <1>2 DEF DeviceMeasures, Devices
<1> HIDE DEF n
<1>n. n = Len(line) + 1
  BY DEF n
<1>5. ASSUME NEW m \in CapsuleData, NEW k \in Nat, Current(m, k)
      PROVE  Current(m, k + 1)'
  BY <1>4, <1>5 DEF Current, Node, CapsuleData
<1>6. ASSUME NEW h \in 0 .. Len(line), InSession(h)
      PROVE  InSession(h)' /\ (Heads(h)' <=> Heads(h))
  <2>1. ASSUME NEW j \in 1 .. Len(line'), j > h
        PROVE  Current(line[j], Len(line) - j)' /\ (line'[j].first => j = h + 1)
    <3>1. CASE j = n
      <4>1. Len(line') - j = 0
        BY <1>3, <1>n, <3>1
      <4>2. Current(line[j], 0)'
        BY <1>3, <1>4, <3>1 DEF Current
      <4>3. line'[j].first => j = h + 1
        BY <1>3, <1>n, <1>6, <3>1 DEF InSession
      <4>4. QED
        BY <4>1, <4>2, <4>3
    <3>2. CASE j # n
      <4>1. j \in 1 .. Len(line) /\ line'[j] = line[j] /\ Len(line') - j = (Len(line) - j) + 1
        BY <1>3, <1>n, <3>2
      <4>2. Current(line[j], Len(line) - j) /\ (line[j].first => j = h + 1) /\ Len(line) - j \in Nat
        BY <1>3, <1>6, <2>1, <4>1 DEF InSession
      <4>3. line[j] \in CapsuleData
        BY <1>1, <4>1, <4>2 DEF Current, Messages, Answers
      <4>4. QED
        BY <1>5, <4>1, <4>2, <4>3 DEF Current
    <3>3. QED
      BY <3>1, <3>2
  <2>2. InSession(h)'
    BY <1>4, <2>1 DEF InSession
  <2>3. Heads(h)' <=> Heads(h)
    <3>1. CASE h < Len(line)
      BY <1>3, <1>n, <3>1 DEF Heads
    <3>2. CASE h = Len(line)
      BY <1>3, <1>n, <3>2 DEF Heads
    <3>3. QED
      BY <1>3, <3>1, <3>2
  <2>4. QED
    BY <2>2, <2>3
<1>7. CASE looping
  <2>0. Running /\ 0 \in 0 .. Len(line)
    BY <1>3, <1>7 DEF Started
  <2>1. InSession(0)' /\ (Heads(0)' <=> Heads(0))
    BY <1>6, <2>0 DEF Running
  <2>2. DecodedInSession'
    <3> SUFFICES ASSUME cb.kind = "capsule"
                 PROVE  /\ Current(cb, Len(line))' /\ ~dev'.fresh
                        /\ \A j \in 1 .. Len(line') : ~line'[j].first
      BY <1>1 DEF DecodedInSession
    <3>1. Current(cb, Len(line)) /\ ~dev.fresh /\ \A j \in 1 .. Len(line) : ~line[j].first
      BY <2>0 DEF Running, DecodedInSession
    <3>2. cb \in CapsuleData
      BY DEF TypeOK, None, Answers, Matched
    <3>3. Current(cb, Len(line))'
      <4>1. cb' = cb /\ Len(line') = Len(line) + 1
        BY <1>1, <1>3, <1>n
      <4>2. cb.pos + Len(line') + 1 = dev'.next
        <5>1. cb.pos + Len(line) + 1 = dev.next /\ cb.pos \in Nat /\ Len(line) \in Nat
          BY <1>3, <3>1, <3>2 DEF Current, CapsuleData
        <5>2. QED
          BY <1>4, <4>1, <5>1
      <4>3. cb.kind = "capsule" /\ cb.session = dev'.session /\ (cb.good \/ Node(cb) \in spoiled')
        BY <1>4, <3>1 DEF Current
      <4>4. QED
        BY <4>1, <4>2, <4>3 DEF Current, Node
    <3>4. \A j \in 1 .. Len(line') : ~line'[j].first
      <4>1. \A j \in 1 .. Len(line') : j = n \/ j \in 1 .. Len(line)
        BY <1>3, <1>n
      <4>2. ~line'[n].first /\ \A j \in 1 .. Len(line) : ~line'[j].first
        BY <1>3, <3>1
      <4>3. QED
        BY <4>1, <4>2
    <3>5. QED
      BY <1>4, <3>3, <3>4
  <2>3. (NextFirst' <=> NextFirst) /\ NextPos' = NextPos
    BY <1>1, <1>3, <1>4, <1>n, <2>1 DEF NextFirst, NextPos
  <2>4. Linked'
    <3>1. Linked
      BY <2>0 DEF Running
    <3>2. buf # <<>> /\ prev # None /\ Follows(buf[Len(buf)], Node(prev))
             => Follows(buf[Len(buf)], Node(prev))'
      BY <1>1, <1>4 DEF Follows, InOrder, Disturbed, Node
    <3>3. QED
      BY <1>1, <1>4, <2>3, <3>1, <3>2 DEF Linked
  <2>5. ~Headers(line')
    BY <1>3, <1>n, <2>0 DEF Running, Headers
  <2>6. QED
    BY <1>1, <1>7, <2>0, <2>1, <2>2, <2>4, <2>5 DEF Started, Running, Scanning, Asked
<1>8. CASE ~looping
  <2>0. Starting
    BY <1>8 DEF Started
  <2>1. ASSUME NEW h \in 1 .. Len(line'), line'[h].kind = "header"
        PROVE  h \in 1 .. Len(line) /\ line[h].kind = "header"
    BY <1>3, <1>n, <2>1
  <2>2. ASSUME NEW h \in 1 .. Len(line'), line'[h].kind = "header"
        PROVE  ~Asked(toDev) /\ InSession(h)' /\ Heads(h)'
    <3>1. h \in 1 .. Len(line) /\ line[h].kind = "header"
      BY <2>1, <2>2
    <3>2. ~Asked(toDev) /\ InSession(h) /\ Heads(h) /\ h \in 0 .. Len(line)
      BY <1>3, <2>0, <3>1 DEF Starting
    <3>3. QED
      BY <1>6, <3>2
  <2>3. Headers(line') => Headers(line)
    BY <2>1 DEF Headers
  <2>4. QED
    BY <1>1, <1>8, <2>0, <2>2, <2>3 DEF Started, Starting, Scanning, Asked
<1>9. QED
  BY <1>7, <1>8

LEMMA SessionDecoded ==
    ASSUME TypeOK, Started, enabled, Decode
    PROVE  Started'
<1>1. /\ line \in Seq(Messages) /\ line # <<>> /\ line' = Tail(line)
      /\ cb = None /\ UNCHANGED <<dev, toDev, enabled, prev, buf, spoiled>>
  BY DEF TypeOK, Decode
<1>2. /\ Len(line) \in Nat /\ Len(line) >= 1 /\ Len(line') = Len(line) - 1 /\ Head(line) = line[1]
      /\ \A i \in 1 .. Len(line') : i + 1 \in 1 .. Len(line) /\ line'[i] = line[i + 1]
      /\ 1 \in 1 .. Len(line) /\ line[1] \in Messages
  BY <1>1, TailElements
<1>4. cb.kind # "capsule"
  BY <1>1 DEF None
<1>5. ASSUME NEW h \in 0 .. Len(line'), InSession(h + 1)
      PROVE  InSession(h)' /\ (Heads(h)' <=> Heads(h + 1))
  <2>1. ASSUME NEW j \in 1 .. Len(line'), j > h
        PROVE  Current(line[j], Len(line) - j)' /\ (line'[j].first => j = h + 1)
    <3>1. /\ Current(line[j + 1], Len(line) - (j + 1)) /\ (line[j + 1].first => j + 1 = h + 1 + 1)
          /\ line'[j] = line[j + 1] /\ Len(line) - (j + 1) = Len(line') - j
      BY <1>2, <1>5, <2>1 DEF InSession
    <3>2. /\ line'[j].kind = "capsule" /\ line'[j].session = dev'.session
          /\ line'[j].pos + (Len(line') - j) + 1 = dev'.next
          /\ line'[j].good \/ Node(line[j])' \in spoiled'
      BY <1>1, <3>1 DEF Current, Node
    <3>3. line'[j].first => j = h + 1
      BY <1>2, <3>1
    <3>4. QED
      BY <3>2, <3>3 DEF Current
  <2>2. dev'.fresh => h = Len(line')
    <3>1. dev.fresh => h + 1 = Len(line)
      BY <1>5 DEF InSession
    <3>2. dev'.fresh <=> dev.fresh
      BY <1>1
    <3>3. h \in Int /\ Len(line) \in Int /\ Len(line') = Len(line) - 1
      BY <1>2
    <3>4. QED
      BY <3>1, <3>2, <3>3
  <2>3. Heads(h)' <=> Heads(h + 1)
    <3>1. CASE h < Len(line')
      <4>1. h + 1 < Len(line) /\ line'[h + 1] = line[h + 1 + 1]
        BY <1>2, <3>1
      <4>2. QED
        BY <3>1, <4>1 DEF Heads
    <3>2. CASE ~(h < Len(line'))
      BY <1>1, <1>2, <3>2 DEF Heads
    <3>3. QED
      BY <3>1, <3>2
  <2>4. QED
    BY <2>1, <2>2, <2>3 DEF InSession
<1>6. ASSUME \A j \in 1 .. Len(line) : j > 1 => line[j].kind = "capsule"
      PROVE  ~Headers(line')
  <2>1. \A i \in 1 .. Len(line') : i + 1 > 1
    BY <1>2
  <2>2. QED
    BY <1>2, <1>6, <2>1 DEF Headers
<1>7. CASE looping
  <2>0. Running
    BY <1>7 DEF Started
  <2>1. /\ Current(line[1], Len(line) - 1) /\ ~dev.fresh
        /\ \A j \in 1 .. Len(line) : Current(line[j], Len(line) - j) /\ (line[j].first => j = 1)
    BY <1>2, <2>0 DEF Running, InSession
  <2>2. cb' = line[1] /\ looping' = TRUE /\ torn' = FALSE /\ cb'.kind = "capsule"
    <3>1. ~torn /\ Head(line).kind = "capsule"
      BY <1>2, <2>0, <2>1 DEF Running, Current
    <3>2. QED
      BY <1>2, <1>7, <3>1, DecodeTakes
  <2>3. InSession(1)
    BY <1>2, <2>1 DEF InSession
  <2>4. InSession(0)'
    BY <1>2, <1>5, <2>3
  <2>5. DecodedInSession'
    <3>1. Current(cb, Len(line))'
      BY <1>1, <1>2, <2>1, <2>2 DEF Current, Node
    <3>2. \A j \in 1 .. Len(line') : ~line'[j].first
      <4>1. \A j \in 1 .. Len(line') : j + 1 # 1
        BY <1>2
      <4>2. QED
        BY <1>2, <2>1, <4>1
    <3>3. QED
      BY <1>1, <2>1, <3>1, <3>2 DEF DecodedInSession
  <2>6. (NextFirst' <=> NextFirst) /\ NextPos' = NextPos
    <3>1. NextFirst' <=> NextFirst
      BY <1>2, <1>4, <2>2 DEF NextFirst, Heads
    <3>2. dev.next \in Nat
      BY DEF TypeOK
    <3>3. NextPos = dev.next - Len(line) - 0 /\ NextPos' = dev.next - Len(line') - 1
      BY <1>1, <1>4, <2>2 DEF NextPos
    <3>4. QED
      BY <1>2, <3>1, <3>2, <3>3
  <2>7. Linked'
    BY <1>1, <2>0, <2>6 DEF Running, Linked, Follows, InOrder, Disturbed, Node
  <2>8. ~Headers(line')
    BY <1>6, <2>1 DEF Current
  <2>9. QED
    BY <1>1, <2>0, <2>2, <2>4, <2>5, <2>7, <2>8 DEF Started, Running, Scanning, Asked
<1>8. CASE ~looping /\ line[1].kind = "header"
  <2>0. Starting /\ Headers(line)
    BY <1>2, <1>8 DEF Started, Headers
  <2>1. InSession(1) /\ Heads(1) /\ ~Scanning(toDev) /\ ~Asked(toDev)
    BY <1>2, <1>8, <2>0 DEF Starting
  <2>2. InSession(0)' /\ Heads(0)'
    <3>1. 0 \in 0 .. Len(line') /\ 0 + 1 = 1
      BY <1>2
    <3>2. QED
      BY <1>5, <2>1, <3>1
  <2>3. looping' = TRUE /\ torn' = FALSE /\ cb'.kind # "capsule"
    BY <1>2, <1>8, DecodeTakes
  <2>4. ~Headers(line')
    BY <1>6, <2>1 DEF InSession, Current
  <2>5. NextFirst' /\ Linked' /\ DecodedInSession'
    BY <1>1, <2>0, <2>2, <2>3 DEF NextFirst, Linked, DecodedInSession, Starting
  <2>6. QED
    BY <1>1, <2>1, <2>2, <2>3, <2>4, <2>5 DEF Started, Running, Scanning, Asked
<1>9. CASE ~looping /\ line[1].kind # "header"
  <2>0. Starting
    BY <1>9 DEF Started
  <2>1. looping' = FALSE /\ cb'.kind # "capsule"
    BY <1>2, <1>9, DecodeTakes
  <2>2. ASSUME NEW h \in 1 .. Len(line'), line'[h].kind = "header"
        PROVE  ~Asked(toDev) /\ InSession(h)' /\ Heads(h)'
    <3>1. ~Asked(toDev) /\ InSession(h + 1) /\ Heads(h + 1)
      BY <1>2, <2>0, <2>2 DEF Starting
    <3>2. QED
      BY <1>2, <1>5, <3>1
  <2>3. Headers(line') => Headers(line)
    BY <1>2 DEF Headers
  <2>4. QED
    BY <1>1, <2>0, <2>1, <2>2, <2>3 DEF Started, Starting, Scanning, Asked
<1>10. QED
  BY <1>7, <1>8, <1>9

\* The scan command is the last step of its plan, and has silence before it.
LEMMA SessionSent ==
    ASSUME TypeOK, PlanInv, Waits, Started, SendCommand
    PROVE  Started'
<1>1. /\ todo \in Seq(Steps) /\ todo # <<>> /\ Head(todo) = todo[1] /\ Len(todo) \in Nat
      /\ 1 \in 1 .. Len(todo) /\ toDev \in Seq(Commands)
      /\ UNCHANGED <<dev, line, cb, prev, spoiled>>
  BY TailElements DEF TypeOK, SendCommand
<1> DEFINE c == [do |-> Head(todo).do]
<1>2. toDev' = toDev \/ toDev' = Append(toDev, c)
  BY DEF SendCommand
<1>3. c.do = Head(todo).do
  OBVIOUS
<1> HIDE DEF c
<1>4. /\ Len(toDev) \in Nat
      /\ toDev' = Append(toDev, c) => /\ Len(toDev') = Len(toDev) + 1 /\ toDev'[Len(toDev) + 1] = c
                                     /\ \A i \in 1 .. Len(toDev) : toDev'[i] = toDev[i]
  BY <1>1, AppendElements
<1>5. CASE Head(todo).do = "stop"
  BY <1>5 DEF SendCommand, DisableGrabbing, Started
<1>6. CASE Head(todo).do = "scan"
  <2>1. Len(todo) = 1 /\ Scanning(todo)
    BY <1>1, <1>6 DEF PlanInv, Planned, Scanning
  <2>2. ~HasInfo(todo)
    BY <1>1, <1>6, <2>1 DEF HasInfo, Info
  <2>3. Silent
    BY <2>1, <2>2 DEF Waits, Informed
  <2>4. buf' = <<>> /\ looping' = looping
    BY <1>6 DEF SendCommand, ResetScans
  <2>5. \A i \in 1 .. Len(toDev') : toDev'[i].do = "scan" => i = Len(toDev) + 1
    BY <1>2, <1>4, <2>3 DEF Silent, Scanning
  <2>6. \A i \in 1 .. Len(toDev') : i <= Len(toDev) + 1
    BY <1>2, <1>4
  <2>7. QED
    BY <1>1, <2>3, <2>4, <2>5, <2>6 DEF Started, Starting, Silent, Headers
<1>7. CASE Head(todo).do \in {"spin", "rest"}
  <2>1. UNCHANGED <<enabled, looping, torn, buf>>
    BY <1>7 DEF SendCommand, TypeOK
  <2>2. \A i \in 1 .. Len(toDev') : toDev'[i].do \in {"scan", "ask"}
            => i \in 1 .. Len(toDev) /\ toDev'[i] = toDev[i]
    BY <1>2, <1>3, <1>4, <1>7
  <2>3. (Scanning(toDev') => Scanning(toDev)) /\ (Asked(toDev') => Asked(toDev))
    BY <2>2 DEF Scanning, Asked
  <2>4. Starting => Starting'
    BY <1>1, <2>1, <2>2, <2>3 DEF Starting, InSession, Heads, Current, Node, Headers
  <2>5. Running => Running'
    BY <1>1, <2>1, <2>3 DEF Running, InSession, Heads, Current, Node, Headers, DecodedInSession,
                            Linked, NextFirst, NextPos, Follows, InOrder, Disturbed
  <2>6. QED
    BY <2>1, <2>4, <2>5 DEF Started
<1>8. QED
  BY <1>5, <1>6, <1>7 DEF SendCommand

LEMMA SessionFrame ==
    ASSUME Started, UNCHANGED <<dev, toDev, line, enabled, looping, torn, prev, buf, spoiled>>,
           cb' = cb \/ (cb.kind # "capsule" /\ cb'.kind # "capsule")
    PROVE  Started'
<1>1. Starting => Starting'
  BY DEF Starting, InSession, Heads, Current, Node, Headers, Scanning, Asked
<1>2. Running => Running'
  BY DEF Running, InSession, Heads, Current, Node, Headers, Scanning, Asked, DecodedInSession,
         Linked, NextFirst, NextPos, Follows, InOrder, Disturbed
<1>3. QED
  BY <1>1, <1>2 DEF Started

-----------------------------------------------------------------------------
(***************************************************************************)
(* What is collected.                                                      *)
(***************************************************************************)
\* A scan's buffer begins with a sync node and has no other.  Its nodes follow each other;
\* the last may only be later than the one before it when the buffer is full, and then,
\* as a revolution fits in, a capsule was spoiled.
Chained(b) ==
    b # <<>> =>
        /\ \A i \in 1 .. Len(b) : Sync(b[i]) <=> i = 1
        /\ \A i \in 1 .. Len(b) - 1 :
              \/ Follows(b[i], b[i + 1])
              \/ i + 1 = BufferSize /\ InOrder(b[i], b[i + 1]) /\ Disturbed(b[1], b[Len(b)])
        /\ b[1].session = b[Len(b)].session
        /\ \/ Disturbed(b[1], b[Len(b)])
           \/ Len(b) <= Capsules /\ b[Len(b)].pos + 1 = b[1].pos + Len(b)

\* The node a revolution after a sync node is one.
LEMMA SyncAgain ==
    ASSUME NEW n \in Nodes, NEW m \in Nodes, Sync(n), m.pos = n.pos + Capsules
    PROVE  Sync(m)
<1>1. Capsules \in Nat /\ Capsules > 1 /\ n.pos \in Nat /\ n.pos % Capsules = 0
  BY LidarAssumption DEF Nodes, Sync
<1>2. ASSUME NEW x \in Int, NEW c \in Int, c > 0, x % c = 0
      PROVE  (x + c) % c = 0
  <2>1. x \div c \in Int /\ x = c * (x \div c) + (x % c)
    <3>1. x \div c \in Int
      BY <1>2, SMTT(30)
    <3>2. x = c * (x \div c) + (x % c)
      BY <1>2, SMTT(30)
    <3>3. QED
      BY <3>1, <3>2
  <2>2. PICK q \in Int : x + c = q * c
    <3>1. x + c = ((x \div c) + 1) * c
      BY <1>2, <2>1
    <3>2. (x \div c) + 1 \in Int
      BY <2>1
    <3>3. QED
      BY <3>1, <3>2, Zenon
  <2>3. (q * c) % c = 0
    BY <1>2, SMTT(30)
  <2>4. QED
    BY <2>2, <2>3
<1>3. (n.pos + Capsules) % Capsules = 0
  BY <1>1, <1>2
<1>4. QED
  BY <1>3 DEF Sync

\* What is spoiled between two nodes is so between an earlier and a later one.
LEMMA DisturbedWider ==
    ASSUME spoiled \subseteq Nodes,
           NEW k \in Nodes, NEW n \in Nodes, NEW m \in Nodes, k.session = n.session, n.session = m.session
    PROVE  /\ Disturbed(k, n) => k.pos < n.pos /\ (n.pos <= m.pos => Disturbed(k, m))
           /\ Disturbed(n, m) /\ k.pos <= n.pos => Disturbed(k, m)
<1>1. k.pos \in Nat /\ n.pos \in Nat /\ m.pos \in Nat /\ \A c \in spoiled : c.pos \in Nat
  BY DEF Nodes
<1>2. QED
  BY <1>1 DEF Disturbed

\* The node that comes next, as seen from the first one collected.
LEMMA NextChained ==
    ASSUME spoiled \subseteq Nodes, NEW b \in Seq(Nodes), b # <<>>, Chained(b), NEW n \in Nodes,
           Follows(b[Len(b)], n)
    PROVE  /\ b[1].session = n.session
           /\ \/ Disturbed(b[1], n)
              \/ n.pos = b[1].pos + Len(b) /\ Len(b) <= Capsules /\ (~Sync(n) => Len(b) < Capsules)
<1> DEFINE f == b[1]
           l == b[Len(b)]
<1>0. Len(b) \in Nat /\ Len(b) >= 1 /\ f \in Nodes /\ l \in Nodes
  OBVIOUS
<1>1. Len(b) \in Nat /\ Len(b) >= 1 /\ f \in Nodes /\ l \in Nodes /\ f.pos \in Nat /\ l.pos \in Nat
  <2> HIDE DEF f, l
  <2>1. QED
    BY <1>0 DEF Nodes
<1>2. /\ Sync(f) /\ f.session = l.session
      /\ Disturbed(f, l) \/ (Len(b) <= Capsules /\ l.pos + 1 = f.pos + Len(b))
  BY <1>1 DEF Chained
<1>3. l.session = n.session /\ l.pos < n.pos /\ (n.pos = l.pos + 1 \/ Disturbed(l, n)) /\ n.pos \in Nat
  BY DEF Follows, InOrder, Nodes
<1> HIDE DEF f, l
<1>4. CASE Disturbed(f, l)
  BY <1>1, <1>2, <1>3, <1>4, DisturbedWider DEF f
<1>5. CASE Len(b) <= Capsules /\ l.pos + 1 = f.pos + Len(b) /\ Disturbed(l, n)
  BY <1>1, <1>2, <1>3, <1>5, DisturbedWider DEF f
<1>6. CASE Len(b) <= Capsules /\ l.pos + 1 = f.pos + Len(b) /\ n.pos = l.pos + 1
  <2>1. n.pos = f.pos + Len(b)
    BY <1>1, <1>3, <1>6
  <2>2. Len(b) = Capsules => Sync(n)
    BY <1>1, <1>2, <2>1, SyncAgain
  <2>3. Capsules \in Nat
    BY LidarAssumption
  <2>4. QED
    BY <1>1, <1>2, <1>3, <1>6, <2>1, <2>2, <2>3 DEF f
<1>7. QED
  BY <1>2, <1>3, <1>4, <1>5, <1>6

LEMMA StoredChained ==
    ASSUME spoiled \subseteq Nodes, NEW b \in Seq(Nodes), Len(b) <= BufferSize, Chained(b),
           NEW n \in Nodes, b # <<>> => Follows(b[Len(b)], n)
    PROVE  /\ Chained(Stored(b, n))
           /\ Stored(b, n) # <<>> => Stored(b, n)[Len(Stored(b, n))] = n
<1>0. /\ BufferSize \in Nat /\ Capsules \in Nat /\ BufferSize >= Capsules /\ Capsules > 1
      /\ Len(b) \in Nat
  BY LidarAssumption
<1>p. n.pos \in Nat
  BY DEF Nodes
<1>1. CASE Sync(n)
  <2>1. Stored(b, n) = <<n>>
    BY <1>1 DEF Stored
  <2>2. QED
    BY <1>0, <1>p, <1>1, <2>1 DEF Chained
<1>2. CASE ~Sync(n) /\ b = <<>>
  BY <1>2 DEF Stored, Chained
<1>c. ASSUME b # <<>>
      PROVE  /\ Len(b) >= 1 /\ b[1] \in Nodes /\ b[1].pos \in Nat
             /\ \A i \in 1 .. Len(b) : Sync(b[i]) <=> i = 1
             /\ \A i \in 1 .. Len(b) - 1 :
                   \/ Follows(b[i], b[i + 1])
                   \/ i + 1 = BufferSize /\ InOrder(b[i], b[i + 1])
             /\ InOrder(b[Len(b)], n)
  <2>1. Len(b) >= 1 /\ b[1] \in Nodes /\ b[1].pos \in Nat
    <3>1. Len(b) >= 1 /\ b[1] \in Nodes
      BY <1>c
    <3>2. QED
      BY <3>1 DEF Nodes
  <2>2. QED
    BY <1>c, <2>1 DEF Chained, Follows
<1>3. CASE ~Sync(n) /\ b # <<>> /\ Len(b) >= BufferSize
  <2> DEFINE s == Stored(b, n)
  <2>0. Len(b) = BufferSize /\ Len(b) > 1
    BY <1>0, <1>3
  <2>1. s = [b EXCEPT ![Len(b)] = n] /\ Len(b) \in 1 .. Len(b) /\ Len(b) # 1
    BY <1>0, <1>3 DEF Stored
  <2>2. Len(s) = Len(b) /\ s[Len(b)] = n /\ \A i \in 1 .. Len(b) : i # Len(b) => s[i] = b[i]
    BY <1>0, <1>3, <2>1, ExceptSeq
  <2> HIDE DEF s
  <2>3. b[1].session = n.session /\ Disturbed(b[1], n)
    BY <1>0, <1>3, <2>0, NextChained
  <2>4. s[1] = b[1]
    BY <2>0, <2>2
  <2>5. \A i \in 1 .. Len(s) : Sync(s[i]) <=> i = 1
    BY <1>3, <1>c, <2>0, <2>2
  <2>6. ASSUME NEW i \in 1 .. Len(s) - 1
        PROVE  \/ Follows(s[i], s[i + 1])
               \/ i + 1 = BufferSize /\ InOrder(s[i], s[i + 1])
    <3>1. s[i] = b[i] /\ i \in 1 .. Len(b) - 1
      BY <2>0, <2>2
    <3>2. CASE i + 1 # Len(b)
      <4>1. s[i + 1] = b[i + 1]
        BY <2>0, <2>2, <3>1, <3>2
      <4>2. QED
        BY <1>3, <1>c, <2>0, <3>1, <3>2, <4>1
    <3>3. CASE i + 1 = Len(b)
      <4>1. InOrder(b[i], b[Len(b)])
        BY <1>3, <1>c, <3>1, <3>3 DEF Follows
      <4>2. b[i] \in Nodes /\ b[Len(b)] \in Nodes
        BY <1>0, <2>0, <3>1
      <4>3. InOrder(b[i], n)
        BY <1>3, <1>c, <1>p, <4>1, <4>2 DEF InOrder, Nodes
      <4>4. QED
        BY <2>0, <2>2, <3>1, <3>3, <4>3
    <3>4. QED
      BY <3>2, <3>3
  <2>7. QED
    BY <2>2, <2>3, <2>4, <2>5, <2>6 DEF Chained, s
<1>4. CASE ~Sync(n) /\ b # <<>> /\ Len(b) < BufferSize
  <2> DEFINE s == Stored(b, n)
  <2>1. /\ Len(s) = Len(b) + 1 /\ s[Len(b) + 1] = n /\ Len(b) >= 1
        /\ \A i \in 1 .. Len(b) : s[i] = b[i]
    BY <1>0, <1>4, AppendElements DEF Stored
  <2> HIDE DEF s
  <2>2. ASSUME NEW i \in 1 .. Len(s) - 1 PROVE Follows(s[i], s[i + 1])
    <3>1. CASE i = Len(b)
      BY <1>0, <1>4, <2>1, <3>1
    <3>2. CASE i # Len(b)
      <4>1. i \in 1 .. Len(b) - 1 /\ i \in 1 .. Len(b) /\ i + 1 \in 1 .. Len(b) /\ i + 1 # BufferSize
        BY <1>0, <1>4, <2>1, <3>2
      <4>2. Follows(b[i], b[i + 1])
        BY <1>4, <1>c, <4>1
      <4>3. QED
        BY <2>1, <4>1, <4>2
    <3>3. QED
      BY <3>1, <3>2
  <2>3. s[1] = b[1]
    BY <1>0, <2>1
  <2>4. \A i \in 1 .. Len(s) : Sync(s[i]) <=> i = 1
    <3>1. \A i \in 1 .. Len(s) : i = Len(b) + 1 \/ i \in 1 .. Len(b)
      BY <1>0, <2>1
    <3>2. Len(b) + 1 # 1
      BY <1>0, <2>1
    <3>3. QED
      BY <1>4, <1>c, <2>1, <3>1, <3>2
  <2>5. /\ b[1].session = n.session
        /\ Disturbed(b[1], n) \/ (n.pos = b[1].pos + Len(b) /\ Len(b) < Capsules)
    BY <1>4, NextChained
  <2>6. \/ Disturbed(s[1], s[Len(s)])
        \/ Len(s) <= Capsules /\ s[Len(s)].pos + 1 = s[1].pos + Len(s)
    <3>1. CASE Disturbed(b[1], n)
      BY <2>1, <2>3, <3>1
    <3>2. CASE n.pos = b[1].pos + Len(b) /\ Len(b) < Capsules
      <4>1. b[1].pos \in Nat /\ s[Len(s)] = n /\ s[1] = b[1]
        BY <1>4, <1>c, <2>1, <2>3
      <4>2. Len(s) = Len(b) + 1 /\ Len(s) <= Capsules
        BY <1>0, <2>1, <3>2
      <4>4. n.pos + 1 = b[1].pos + Len(s)
        BY <1>0, <3>2, <4>1, <4>2
      <4>3. QED
        BY <4>1, <4>2, <4>4
    <3>3. QED
      BY <2>5, <3>1, <3>2
  <2>7. QED
    BY <2>1, <2>2, <2>3, <2>4, <2>5, <2>6 DEF Chained, s
<1>5. QED
  BY <1>0, <1>1, <1>2, <1>3, <1>4

\* The scan that a node ends.
LEMMA ScanWhole ==
    ASSUME spoiled \subseteq Nodes, NEW b \in Seq(Nodes), b # <<>>, Len(b) <= BufferSize, Chained(b),
           NEW n \in Nodes, Sync(n), Follows(b[Len(b)], n),
           NEW s, s.nodes = b, s.end = n
    PROVE  Whole(s)
<1> DEFINE all == Append(b, n)
<1>1. /\ Len(b) \in Nat /\ Len(b) >= 1 /\ Len(all) = Len(b) + 1 /\ all[Len(b) + 1] = n
      /\ \A i \in 1 .. Len(b) : all[i] = b[i]
  BY AppendElements
<1> HIDE DEF all
<1>0. BufferSize \in Nat
  BY LidarAssumption
<1>2. all[1] = b[1] /\ b[1] \in Nodes /\ b[Len(b)] \in Nodes
  BY <1>1
<1>3. \A i \in 1 .. Len(all) : Sync(all[i]) <=> i \in {1, Len(all)}
  <2>1. \A i \in 1 .. Len(b) : Sync(b[i]) <=> i = 1
    BY DEF Chained
  <2>2. \A i \in 1 .. Len(all) : i = Len(b) + 1 \/ (i \in 1 .. Len(b) /\ i # Len(b) + 1)
    BY <1>1
  <2>3. QED
    BY <1>1, <2>1, <2>2
<1>4. ASSUME NEW i \in 1 .. Len(b)
      PROVE  \/ Follows(all[i], all[i + 1])
             \/ /\ Len(b) = BufferSize /\ Disturbed(all[1], n)
                /\ i + 1 = BufferSize /\ InOrder(all[i], all[i + 1])
  <2>1. CASE i = Len(b)
    BY <1>1, <2>1
  <2>2. CASE i # Len(b)
    <3>1. i \in 1 .. Len(b) - 1 /\ i + 1 \in 1 .. Len(b) /\ all[i] = b[i] /\ all[i + 1] = b[i + 1]
      BY <1>1, <2>2
    <3>2. \/ Follows(b[i], b[i + 1])
          \/ i + 1 = BufferSize /\ InOrder(b[i], b[i + 1]) /\ Disturbed(b[1], b[Len(b)])
      BY <3>1 DEF Chained
    <3>3. i + 1 = BufferSize => Len(b) = BufferSize
      BY <1>0, <1>1, <3>1
    <3>4. Disturbed(b[1], b[Len(b)]) => Disturbed(b[1], n)
      <4>1. b[1].session = b[Len(b)].session /\ b[Len(b)].session = n.session
        BY DEF Chained, Follows, InOrder
      <4>2. b[Len(b)].pos <= n.pos
        BY <1>2 DEF Follows, InOrder, Nodes
      <4>3. QED
        BY <1>2, <4>1, <4>2, DisturbedWider
    <3>5. QED
      BY <1>2, <3>1, <3>2, <3>3, <3>4
  <2>3. QED
    BY <2>1, <2>2
<1>5. QED
  BY <1>3, <1>4 DEF Whole, all

WholeInv ==
    /\ Chained(buf)
    /\ avail # None => Whole(avail)
    /\ grabbed # None => Whole(grabbed.scan)

LEMMA CapsuleCollected ==
    ASSUME TypeOK, Started, WholeInv, OnCapsule
    PROVE  Started' /\ WholeInv'
<1> DEFINE cached == IF DropsCached(cb) THEN None ELSE prev
           collected == IF cb.first /\ cb.good THEN <<>> ELSE buf
<1>1. /\ cb.kind = "capsule" /\ cb \in CapsuleData /\ cb # None /\ enabled /\ cb' = None
      /\ cb'.kind # "capsule"
      /\ UNCHANGED <<dev, toDev, line, looping, torn, enabled, spoiled, grabbed>>
  BY DEF OnCapsule, TypeOK, None, Answers, Matched
<1>2. looping /\ Running
  BY <1>1 DEF Started, Starting
<1>3. /\ cb.session = dev.session /\ cb.pos + Len(line) + 1 = dev.next /\ cb.pos \in Nat
      /\ Len(line) \in Nat /\ dev.next \in Nat
      /\ cb.good \/ Node(cb) \in spoiled
      /\ (NextFirst <=> cb.first) /\ NextPos = cb.pos
  BY <1>1, <1>2 DEF Running, DecodedInSession, Current, TypeOK, NextFirst, NextPos, CapsuleData
<1>4. ~NextFirst' /\ NextPos' = cb.pos + 1
  <2>1. ~Heads(0)'
    BY <1>1, <1>2, <1>3 DEF Running, DecodedInSession, Heads
  <2>2. NextPos' = dev.next - Len(line) - 0
    BY <1>1 DEF NextPos
  <2>3. QED
    BY <1>1, <1>3, <2>1, <2>2 DEF NextFirst
<1>5. /\ prev' = (IF cb.good THEN cb ELSE cached)
      /\ IF cb.good /\ cached # None
         THEN Push(collected, Node(cached))
         ELSE buf' = collected /\ UNCHANGED <<avail, ready, scans>>
  BY DEF OnCapsule
<1> DEFINE LastLinked ==
             buf' # <<>> =>
                /\ buf'[Len(buf')].session = dev.session
                /\ IF prev' # None THEN Follows(buf'[Len(buf')], Node(prev'))
                   ELSE \E c \in spoiled : /\ c.session = dev.session
                                           /\ buf'[Len(buf')].pos < c.pos /\ c.pos < cb.pos + 1
<1> HIDE DEF cached, collected
<1>6. ASSUME LastLinked, prev' \in {cb, None}
      PROVE  Started'
  <2>1. prev' # None => prev'.session = dev'.session /\ prev'.pos + 1 = NextPos'
    BY <1>1, <1>3, <1>4, <1>6
  <2>2. Linked'
    BY <1>1, <1>4, <1>6, <2>1 DEF Linked, Follows, InOrder, Disturbed, Node
  <2>3. InSession(0)' /\ DecodedInSession' /\ ~Scanning(toDev)' /\ ~Asked(toDev)' /\ ~Headers(line)'
    BY <1>1, <1>2 DEF Running, InSession, Current, Node, DecodedInSession, Scanning, Asked, Headers
  <2>4. QED
    BY <1>1, <1>2, <2>2, <2>3 DEF Started, Running
<1>s. \A n, m : Follows(n, m) => n.session = m.session /\ n.pos < m.pos
  BY DEF Follows, InOrder
<1>t. spoiled \subseteq Nodes
  BY DEF TypeOK
<1>b. /\ buf \in Seq(Nodes) /\ Len(buf) <= BufferSize
      /\ buf # <<>> => buf[Len(buf)] \in Nodes /\ buf[Len(buf)].pos \in Nat
      /\ prev # None => prev \in CapsuleData /\ prev.pos \in Nat /\ Node(prev) \in Nodes
  <2>1. buf \in Seq(Nodes) /\ Len(buf) <= BufferSize /\ prev \in {None} \cup CapsuleData
    BY DEF TypeOK
  <2>2. buf # <<>> => buf[Len(buf)] \in Nodes
    BY <2>1
  <2>3. \A n \in Nodes : n.pos \in Nat
    BY DEF Nodes
  <2>4. \A m \in CapsuleData : m.pos \in Nat /\ Node(m) \in Nodes
    BY DEF CapsuleData, Node, Nodes
  <2>5. QED
    BY <2>1, <2>2, <2>3, <2>4
<1>l. ~cb.first =>
        /\ prev # None => prev.session = dev.session /\ prev.pos + 1 = cb.pos
        /\ buf # <<>> =>
              /\ buf[Len(buf)].session = dev.session
              /\ IF prev # None THEN Follows(buf[Len(buf)], Node(prev))
                 ELSE \E c \in spoiled : /\ c.session = dev.session
                                         /\ buf[Len(buf)].pos < c.pos /\ c.pos < cb.pos
  BY <1>2, <1>3 DEF Running, Linked
<1>7. CASE cb.first
  <2>1. cached = None /\ (cb.good => collected = <<>>) /\ (~cb.good => collected = buf)
    BY <1>7 DEF cached, collected, DropsCached
  <2>2. buf = <<>>
    BY <1>2, <1>3, <1>7 DEF Running, Linked
  <2>3. buf' = <<>> /\ avail' = avail /\ prev' \in {cb, None}
    BY <1>5, <2>1, <2>2
  <2>4. WholeInv'
    BY <1>1, <2>3 DEF WholeInv, Chained, Whole, Follows, InOrder, Disturbed
  <2>5. QED
    BY <1>6, <2>3, <2>4
<1>8. CASE ~cb.first /\ (~cb.good \/ prev = None)
  <2>1. cached = None /\ collected = buf
    BY <1>8 DEF cached, collected, DropsCached
  <2>2. buf' = buf /\ avail' = avail /\ prev' = (IF cb.good THEN cb ELSE None)
    BY <1>5, <2>1
  <2>3. WholeInv'
    BY <1>1, <2>2 DEF WholeInv, Chained, Whole, Follows, InOrder, Disturbed
  <2>4. ASSUME buf # <<>>, cb.good
        PROVE  Follows(buf[Len(buf)], Node(cb))
    <3>1. PICK c \in spoiled : c.session = dev.session /\ buf[Len(buf)].pos < c.pos /\ c.pos < cb.pos
      BY <1>8, <1>l, <2>4
    <3>2. c.pos \in Nat
      BY <3>1 DEF TypeOK, Nodes
    <3>3. buf[Len(buf)].session = cb.session /\ buf[Len(buf)].pos < cb.pos
      BY <1>3, <1>8, <1>b, <1>l, <2>4, <3>1, <3>2
    <3>4. QED
      BY <1>3, <3>1, <3>3 DEF Follows, InOrder, Disturbed, Node
  <2>5. ASSUME buf # <<>>, ~cb.good
        PROVE  \E c \in spoiled : /\ c.session = dev.session
                                  /\ buf[Len(buf)].pos < c.pos /\ c.pos < cb.pos + 1
    <3>1. CASE prev = None
      <4>1. PICK c \in spoiled : c.session = dev.session /\ buf[Len(buf)].pos < c.pos /\ c.pos < cb.pos
        BY <1>8, <1>l, <2>5, <3>1
      <4>2. c.pos \in Nat
        BY <4>1 DEF TypeOK, Nodes
      <4>3. QED
        BY <1>3, <4>1, <4>2
    <3>2. CASE prev # None
      <4>1. buf[Len(buf)].pos < Node(prev).pos /\ prev.pos + 1 = cb.pos
        BY <1>8, <1>l, <1>s, <2>5, <3>2
      <4>2. Node(cb).session = dev.session /\ Node(cb).pos = cb.pos /\ Node(prev).pos = prev.pos
        BY <1>3 DEF Node
      <4>3. buf[Len(buf)].pos < Node(cb).pos /\ Node(cb).pos < cb.pos + 1
        BY <1>3, <1>b, <2>5, <3>2, <4>1, <4>2
      <4>4. QED
        BY <1>3, <2>5, <4>2, <4>3
    <3>3. QED
      BY <3>1, <3>2
  <2>6. LastLinked
    BY <1>1, <1>8, <1>l, <2>2, <2>4, <2>5
  <2>7. QED
    BY <1>6, <2>2, <2>3, <2>6
<1>9. CASE ~cb.first /\ cb.good /\ prev # None
  <2>1. cached = prev /\ collected = buf
    BY <1>9 DEF cached, collected, DropsCached
  <2>2. Push(buf, Node(prev)) /\ prev' = cb
    BY <1>5, <1>9, <2>1
  <2>3. buf # <<>> => Follows(buf[Len(buf)], Node(prev))
    BY <1>9, <1>l
  <2>4. /\ buf' = Stored(buf, Node(prev))
        /\ Chained(Stored(buf, Node(prev)))
        /\ Stored(buf, Node(prev)) # <<>>
              => Stored(buf, Node(prev))[Len(Stored(buf, Node(prev)))] = Node(prev)
    BY <1>9, <1>b, <1>t, <2>2, <2>3, StoredChained DEF Push, WholeInv
  <2>5. Follows(Node(prev), Node(cb)) /\ Node(prev).session = dev.session
    BY <1>3, <1>9, <1>b, <1>l DEF Follows, InOrder, Node
  <2>6. LastLinked
    BY <1>1, <2>2, <2>4, <2>5
  <2>7. avail' = avail \/ Whole(avail')
    <3>1. CASE Sync(Node(prev)) /\ buf # <<>>
      <4>1. avail' = [kind |-> "scan", id |-> scans + 1, nodes |-> buf, end |-> Node(prev)]
        BY <2>2, <3>1 DEF Push
      <4>2. avail'.nodes = buf /\ avail'.end = Node(prev)
        BY <4>1
      <4>3. QED
        BY <1>9, <1>b, <1>t, <2>3, <3>1, <4>2, ScanWhole DEF WholeInv
    <3>2. CASE ~(Sync(Node(prev)) /\ buf # <<>>)
      BY <2>2, <3>2 DEF Push
    <3>3. QED
      BY <3>1, <3>2
  <2>8. WholeInv'
    <3>1. Chained(buf)'
      BY <1>1, <2>4 DEF Chained, Follows, InOrder, Disturbed
    <3>2. (avail # None => Whole(avail))' /\ (grabbed # None => Whole(grabbed.scan))'
      BY <1>1, <2>7 DEF WholeInv, Whole, Follows, InOrder, Disturbed
    <3>3. QED
      BY <3>1, <3>2 DEF WholeInv
  <2>9. QED
    BY <1>6, <2>2, <2>6, <2>8
<1>10. QED
  BY <1>7, <1>8, <1>9

SessionInv == Requests /\ (~mistaken => Waits /\ Started /\ WholeInv)

LEMMA SessionInitial == Init => SessionInv
<1> SUFFICES ASSUME Init PROVE Requests /\ Waits /\ Started /\ WholeInv
  BY DEF SessionInv
<1>1. Requests /\ Waits
  BY EmptyPlan DEF Init, Requests, Waits, None, Decoded
<1>2. Started /\ WholeInv
  BY DEF Init, Started, WholeInv, Chained
<1>3. QED
  BY <1>1, <1>2

LEMMA SessionStep ==
    TypeOK /\ TypeOK' /\ PlanInv /\ SessionInv /\ [Next]_vars => SessionInv'
<1>r. TypeOK /\ TypeOK' /\ SessionInv /\ [Next]_vars => Requests'
  BY RequestsStep DEF SessionInv
<1> SUFFICES ASSUME TypeOK, TypeOK', PlanInv, SessionInv, [Next]_vars, ~mistaken'
             PROVE  Waits' /\ Started' /\ WholeInv'
  BY <1>r DEF SessionInv
<1>0. Requests /\ Waits /\ Started /\ WholeInv
  <2>1. ~mistaken
    BY DEF Next, Device, DeviceObeys, DeviceMeasures, Decoder, Decode, OnCapsule, MatchAnswer,
           StoreAnswer, NodeThread, Open, AskDevice, Wake, TakeAnswer, TimeOut, SendCommand,
           CallEnds, GrabWake, GrabTimeOut, GrabScan, SpinSome, vars
  <2>2. QED
    BY <2>1 DEF SessionInv
<1>1. Waits'
  BY <1>0, WaitsStep
<1>2. CASE OnCapsule
  BY <1>0, <1>1, <1>2, CapsuleCollected
<1>3. CASE SendCommand
  <2>1. /\ buf' = <<>> \/ buf' = buf
        /\ avail' = None \/ avail' = avail
        /\ UNCHANGED <<grabbed, spoiled>>
    BY <1>3 DEF SendCommand, ResetScans
  <2>2. WholeInv'
    BY <1>0, <2>1 DEF WholeInv, Chained, Whole, Follows, InOrder, Disturbed
  <2>3. QED
    BY <1>0, <1>1, <1>3, <2>2, SessionSent
<1>4. CASE DeviceMeasures
  <2>1. UNCHANGED <<buf, avail, grabbed>> /\ spoiled \subseteq spoiled'
    BY <1>4 DEF DeviceMeasures
  <2>2. WholeInv'
    BY <1>0, <2>1 DEF WholeInv, Chained, Whole, Follows, InOrder, Disturbed
  <2>3. Started'
    BY <1>0, <1>4, SessionMeasured DEF Started, DeviceMeasures
  <2>4. QED
    BY <1>1, <2>2, <2>3
<1>5. CASE GrabScan
  <2>1. /\ UNCHANGED <<dev, toDev, line, cb, enabled, looping, torn, prev, buf, spoiled, avail>>
        /\ avail # None /\ grabbed'.scan = avail
    BY <1>5 DEF GrabScan
  <2>2. WholeInv'
    BY <1>0, <2>1 DEF WholeInv, Chained, Whole, Follows, InOrder, Disturbed
  <2>3. QED
    BY <1>0, <1>1, <2>1, <2>2, SessionFrame
<1>6. CASE ~OnCapsule /\ ~SendCommand /\ ~DeviceMeasures /\ ~GrabScan
  <2>1. UNCHANGED <<buf, avail, grabbed, spoiled>>
    BY <1>6 DEF Next, Device, DeviceObeys, Decoder, Decode, MatchAnswer,
           StoreAnswer, NodeThread, Open, AskDevice, Wake, TakeAnswer, TimeOut,
           CallEnds, GrabWake, GrabTimeOut, SpinSome, vars
  <2>2. WholeInv'
    BY <1>0, <2>1 DEF WholeInv, Chained, Whole, Follows, InOrder, Disturbed
  <2>3. CASE DeviceObeys \/ Decode
    <3>1. enabled' = enabled
      BY <2>3 DEF DeviceObeys, Decode
    <3>2. QED
      BY <1>0, <1>1, <2>2, <2>3, <3>1, SessionObeyed, SessionDecoded DEF Started
  <2>4. CASE MatchAnswer \/ StoreAnswer
    <3>1. UNCHANGED <<dev, toDev, line, enabled, looping, torn, prev, buf, spoiled>>
      BY <2>4 DEF MatchAnswer, StoreAnswer
    <3>2. cb'.kind # "capsule" /\ (enabled => cb.kind # "capsule")
      BY <2>4 DEF MatchAnswer, StoreAnswer, None
    <3>3. QED
      BY <1>0, <1>1, <2>2, <3>1, <3>2, SessionFrame DEF Started
  <2>5. CASE AskDevice
    BY <1>1, <2>2, <2>5 DEF AskDevice, DisableGrabbing, Started
  <2>6. CASE ~DeviceObeys /\ ~Decoder /\ ~AskDevice
    <3>1. UNCHANGED <<dev, toDev, line, cb, enabled, looping, torn, prev, buf, spoiled>>
      BY <1>6, <2>6 DEF Next, Device, NodeThread, Open, Wake, TakeAnswer, TimeOut,
           CallEnds, GrabWake, GrabTimeOut, SpinSome, vars
    <3>2. QED
      BY <1>0, <1>1, <2>2, <3>1, SessionFrame
  <2>7. QED
    BY <1>6, <2>3, <2>4, <2>5, <2>6 DEF Decoder
<1>7. QED
  BY <1>2, <1>3, <1>4, <1>5, <1>6

\* A published scan is of one session, has the sync bit on its first node and on the one
\* that ended it and nowhere else, and has gaps only where a capsule was spoiled, or before
\* the last entry of a buffer that a merged scan overflowed; whatever comes late or is lost,
\* unless a question took the answer to an earlier one.
THEOREM ScansAreWhole == Spec => []ScansWhole
<1>1. SessionInv => ScansWhole
  BY DEF SessionInv, WholeInv, ScansWhole
<1>2. Spec => []PlanInv
  BY PlanInitial, PlanStep, TypeCorrect, PTL DEF Spec
<1>3. QED
  BY <1>1, <1>2, SessionInitial, SessionStep, TypeCorrect, PTL DEF Spec
=============================================================================
