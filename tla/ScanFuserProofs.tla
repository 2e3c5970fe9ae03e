--------------------------- MODULE ScanFuserProofs ---------------------------
(***************************************************************************)
(* Proofs about ScanFuser, for every value of its constants.               *)
(***************************************************************************)
EXTENDS ScanFuser, TLAPS

USE DEF None, Stamps, NodeClock

\* The values that stand for "nothing yet" have the type of the real ones.
LEMMA DefaultTypes ==
    /\ AllInf \in [Bins -> Ranges]
    /\ NoScan \in Scan
    /\ NoDepth \in Depth
    /\ NoSnap \in [scan : Scan, depth : Depth]
    /\ NoMsg \in Message
<1>1. AllInf \in [Bins -> Ranges]
  BY RangeAssumption DEF AllInf, Ranges, Inf
<1>2. NoScan \in Scan
  BY <1>1 DEF NoScan, Scan
<1>3. NoDepth \in Depth
  BY <1>1, TimeAssumption DEF NoDepth, Depth
<1>4. NoMsg \in Message
  BY <1>1, TimeAssumption DEF NoMsg, Message
<1>5. QED
  BY <1>1, <1>2, <1>3, <1>4 DEF NoSnap

\* A queue of scans stays one, and within its depth.
LEMMA EnqueueType ==
    ASSUME NEW q \in Seq(Scan), Len(q) <= ScanQueueDepth, NEW s \in Scan
    PROVE  Enqueue(q, s) \in Seq(Scan) /\ Len(Enqueue(q, s)) <= ScanQueueDepth
<1>1. CASE Len(q) < ScanQueueDepth
  BY <1>1, TimeAssumption DEF Enqueue
<1>2. CASE ~(Len(q) < ScanQueueDepth)
  <2>1. Len(q) = ScanQueueDepth /\ q # <<>>
    BY <1>2, TimeAssumption
  <2>2. Tail(q) \in Seq(Scan) /\ Len(Tail(q)) = Len(q) - 1
    BY <2>1
  <2>3. QED
    BY <1>2, <2>1, <2>2, TimeAssumption DEF Enqueue
<1>3. QED
  BY <1>1, <1>2

\* Fusing two resampled frames yields a frame.
LEMMA FuseType ==
    ASSUME NEW l \in [Bins -> Ranges], NEW d \in [Bins -> Ranges]
    PROVE  Fuse(l, d) \in [Bins -> Ranges]
<1>1. ASSUME NEW lr \in Ranges, NEW dr \in Ranges
      PROVE  FuseBin(lr, dr) \in Ranges
  BY RangeAssumption DEF FuseBin, Ranges, Inf
<1>2. QED
  BY <1>1 DEF Fuse

\* Every variable keeps its type.
THEOREM TypeCorrect == Spec => []TypeOK
<1>1. Init => TypeOK
  <2> SUFFICES ASSUME Init PROVE TypeOK
    OBVIOUS
  <2>1. scanQueue \in Seq(Scan) /\ Len(scanQueue) <= ScanQueueDepth
    BY TimeAssumption DEF Init
  <2>2. /\ time \in 0..MaxTime
        /\ setback \in 0..MaxSetback /\ setback <= time
    BY TimeAssumption DEF Init
  <2>3. /\ depth \in Depth /\ lastScan \in Scan /\ feed \in Message
        /\ snap \in [scan : Scan, depth : Depth]
    BY DefaultTypes DEF Init
  <2>4. QED
    BY <2>1, <2>2, <2>3 DEF Init, TypeOK
<1>2. TypeOK /\ [Next]_vars => TypeOK'
  <2> SUFFICES ASSUME TypeOK, [Next]_vars
               PROVE  TypeOK'
    OBVIOUS
  <2> USE RangeAssumption, TimeAssumption DEF TypeOK
  <2>1. CASE Tick
    BY <2>1 DEF Tick, sensorVars, cloudVars, timerVars
  <2>2. CASE SetClock
    BY <2>2 DEF SetClock, sensorVars, cloudVars, timerVars
  <2>3. CASE TfArrives
    BY <2>3 DEF TfArrives, sensorVars, cloudVars, timerVars
  <2>4. CASE CloudArrives
    BY <2>4 DEF CloudArrives, clockVars, cloudVars, timerVars
  <2>5. CASE LidarScan
    <3>1. PICK f \in LidarFrames :
            scanQueue' = Enqueue(scanQueue, [stamp |-> NodeClock, bins |-> f, at |-> time])
      BY <2>5 DEF LidarScan
    <3>2. [stamp |-> NodeClock, bins |-> f, at |-> time] \in Scan
      BY FrameAssumption DEF Scan
    <3>3. scanQueue' \in Seq(Scan) /\ Len(scanQueue') <= ScanQueueDepth
      BY <3>1, <3>2, EnqueueType
    <3>4. QED
      BY <2>5, <3>3 DEF LidarScan, clockVars, cloudVars, timerVars
  <2>6. CASE CloudCb
    <3>1. CASE UNCHANGED cloudVars
      BY <2>6, <3>1 DEF CloudCb, clockVars, cloudVars, timerVars
    <3>2. CASE cpc' = "tf" /\ lastProc' = NodeClock /\ lastProcAt' = time
      <4>1. cloudSlot' = FALSE
        BY <2>6 DEF CloudCb
      <4>2. NodeClock \in Stamps /\ time \in Stamps
        BY TimeAssumption DEF NodeClock
      <4>3. UNCHANGED <<clockVars, scanQueue, lidarAt, depth, lastScan, timerVars>>
        BY <2>6 DEF CloudCb
      <4>4. QED
        BY <3>2, <4>1, <4>2, <4>3 DEF clockVars, timerVars
    <3>3. QED
      BY <2>6, <3>1, <3>2 DEF CloudCb
  <2>7. CASE LookupTf
    <3>1. CASE tfReady
      BY <2>7, <3>1 DEF LookupTf, clockVars, sensorVars, timerVars
    <3>2. CASE ~tfReady
      BY <2>7, <3>2 DEF LookupTf, clockVars, sensorVars, timerVars
    <3>3. QED
      BY <3>1, <3>2
  <2>8. CASE DiscardCloud
    BY <2>8 DEF DiscardCloud, clockVars, sensorVars, timerVars
  <2>9. CASE CommitDepth
    BY <2>9, FrameAssumption DEF Depth, CommitDepth, clockVars, sensorVars, timerVars
  <2>10. CASE ScanCb
    <3>1. Head(scanQueue) \in Scan /\ Tail(scanQueue) \in Seq(Scan)
          /\ Len(Tail(scanQueue)) <= ScanQueueDepth
      BY <2>10 DEF ScanCb
    <3>2. QED
      BY <2>10, <3>1 DEF ScanCb, clockVars, cloudVars, timerVars
  <2>11. CASE TimerSnapshot
    BY <2>11 DEF TimerSnapshot, clockVars, sensorVars, cloudVars
  <2>12. CASE TimerPublish
    <3> DEFINE used == Fresh(snap.depth)
               dbins == IF used THEN snap.depth.bins ELSE AllInf
    <3>1. used \in BOOLEAN
      BY DEF Fresh
    <3>2. dbins \in [Bins -> Ranges]
      BY DefaultTypes DEF Depth
    <3>3. Fuse(snap.scan.bins, dbins) \in [Bins -> Ranges]
      BY <3>2, FuseType DEF Scan
    <3>4. /\ snap.scan.stamp \in Stamps /\ snap.scan.at \in Stamps
          /\ snap.scan.bins \in [Bins -> Ranges]
          /\ snap.depth.at \in 0..MaxTime /\ feed.depthAt \in 0..MaxTime
      BY DEF Scan, Depth, Message
    <3>5. feed' = [stamp |-> snap.scan.stamp, at |-> snap.scan.at,
                   ranges |-> Fuse(snap.scan.bins, dbins),
                   lidar |-> snap.scan.bins, depth |-> dbins, used |-> used,
                   age |-> IF used THEN time - snap.depth.at ELSE 0,
                   depthAt |-> IF used THEN snap.depth.at ELSE feed.depthAt]
      BY <2>12 DEF TimerPublish
    <3> HIDE DEF used, dbins
    <3>6. feed' \in Message
      BY <3>1, <3>2, <3>3, <3>4, <3>5 DEF Message
    <3>7. QED
      BY <2>12, <3>4, <3>6, DefaultTypes
         DEF TimerPublish, clockVars, sensorVars, cloudVars
  <2>13. CASE TimerThrows
    BY <2>13, DefaultTypes DEF TimerThrows, clockVars, sensorVars, cloudVars
  <2>14. CASE UNCHANGED vars
    BY <2>14 DEF vars, clockVars, sensorVars, cloudVars, timerVars
  <2>15. QED
    BY <2>1, <2>2, <2>3, <2>4, <2>5, <2>6, <2>7, <2>8, <2>9, <2>10, <2>11,
       <2>12, <2>13, <2>14 DEF Next, Environment, CloudGroup, TimerGroup
<1>3. QED
  BY <1>1, <1>2, PTL DEF Spec

(***************************************************************************)
(* The stamp gate.  A snapshot is taken only of a scan newer than the last *)
(* publication, and no other step moves the gate before it is published.   *)
(***************************************************************************)
GateInv ==
    /\ feed.stamp = lastPub
    /\ tpc = "fuse" => snap.scan.stamp > lastPub

LEMMA GateInvariant == Spec => []GateInv
<1>1. Init => GateInv
  BY DEF Init, GateInv, NoMsg
<1>2. TypeOK /\ GateInv /\ [Next]_vars => GateInv'
  <2> SUFFICES ASSUME TypeOK, GateInv, [Next]_vars
               PROVE  GateInv'
    OBVIOUS
  <2> USE DEF GateInv
  <2>1. CASE Environment
    BY <2>1 DEF Environment, Tick, SetClock, TfArrives, CloudArrives, LidarScan, timerVars
  <2>2. CASE CloudGroup
    BY <2>2 DEF CloudGroup, CloudCb, LookupTf, DiscardCloud, CommitDepth, timerVars
  <2>3. CASE ScanCb
    BY <2>3 DEF ScanCb, timerVars
  <2>4. CASE TimerSnapshot
    BY <2>4 DEF TimerSnapshot, StampAdvanced, TypeOK, Scan
  <2>5. CASE TimerPublish
    BY <2>5 DEF TimerPublish
  <2>6. CASE TimerThrows
    BY <2>6 DEF TimerThrows
  <2>7. CASE UNCHANGED vars
    BY <2>7 DEF vars, timerVars
  <2>8. QED
    BY <2>1, <2>2, <2>3, <2>4, <2>5, <2>6, <2>7 DEF Next, TimerGroup
<1>3. QED
  BY <1>1, <1>2, TypeCorrect, PTL DEF Spec

\* Consecutive publications have strictly increasing stamps, whatever happens to
\* the system clock, the queues and publish().
THEOREM StampsStrictlyIncrease == Spec => StampsIncrease
<1> DEFINE Step == feed' # feed => feed'.stamp > feed.stamp
<1>1. GateInv /\ [Next]_vars => [Step]_vars
  <2> SUFFICES ASSUME GateInv, Next, feed' # feed
               PROVE  feed'.stamp > feed.stamp
    OBVIOUS
  <2>1. TimerPublish
    BY DEF Next, Environment, Tick, SetClock, TfArrives, CloudArrives, LidarScan,
           CloudGroup, CloudCb, LookupTf, DiscardCloud, CommitDepth,
           TimerGroup, ScanCb, TimerSnapshot, TimerThrows, timerVars
  <2>2. QED
    BY <2>1 DEF TimerPublish, GateInv
<1>2. QED
  BY <1>1, GateInvariant, PTL DEF Spec, StampsIncrease

(***************************************************************************)
(* Ages.  A node-clock time was taken when the clock lagged real time by   *)
(* between 0 and MaxSetback; a difference of two of them is therefore off  *)
(* by at most MaxSetback from the real one.                                *)
(***************************************************************************)
TakenAt(nodeTime, at) == nodeTime # None => at - nodeTime \in 0..MaxSetback

AgeInv ==
    /\ TakenAt(depth.recv, depth.at)
    /\ TakenAt(snap.depth.recv, snap.depth.at)
    /\ TakenAt(lastProc, lastProcAt)
    /\ PublishedDepthFresh

LEMMA AgeInvariant == Spec => []AgeInv
<1>1. Init => AgeInv
  BY DEF Init, AgeInv, TakenAt, PublishedDepthFresh, NoDepth, NoSnap, NoMsg
<1>2. TypeOK /\ AgeInv /\ [Next]_vars => AgeInv'
  <2> SUFFICES ASSUME TypeOK, AgeInv, [Next]_vars
               PROVE  AgeInv'
    OBVIOUS
  <2>0. /\ time \in Int /\ setback \in 0..MaxSetback /\ MaxSetback \in Nat
        /\ StaleTimeout \in Nat
    BY TimeAssumption DEF TypeOK
  <2> USE DEF AgeInv, TakenAt, PublishedDepthFresh
  <2>1. CASE Environment
    BY <2>1 DEF Environment, Tick, SetClock, TfArrives, CloudArrives, LidarScan,
                cloudVars, timerVars
  <2>2. CASE CloudCb
    BY <2>0, <2>2 DEF CloudCb, cloudVars, timerVars
  <2>3. CASE LookupTf \/ DiscardCloud
    BY <2>3 DEF LookupTf, DiscardCloud, timerVars
  <2>4. CASE CommitDepth
    BY <2>0, <2>4 DEF CommitDepth, timerVars
  <2>5. CASE ScanCb
    BY <2>5 DEF ScanCb, cloudVars, timerVars
  <2>6. CASE TimerSnapshot
    BY <2>6 DEF TimerSnapshot, cloudVars
  <2>7. CASE TimerPublish
    <3>1. ASSUME feed'.used
          PROVE  feed'.age <= StaleTimeout + MaxSetback
      <4>1. /\ snap.depth.recv # None
            /\ time - setback - snap.depth.recv \in 0..StaleTimeout
            /\ feed'.age = time - snap.depth.at
        BY <2>7, <3>1 DEF TimerPublish, Fresh
      <4>2. snap.depth.recv \in Int /\ snap.depth.at \in Int
        BY TimeAssumption DEF TypeOK, Depth
      <4>3. QED
        BY <2>0, <4>1, <4>2
    <3>2. TakenAt(snap'.depth.recv, snap'.depth.at)
      BY <2>7 DEF TimerPublish, NoSnap, NoDepth
    <3>3. QED
      BY <2>7, <3>1, <3>2 DEF TimerPublish, cloudVars
  <2>8. CASE TimerThrows
    BY <2>8 DEF TimerThrows, cloudVars, NoSnap, NoDepth
  <2>9. CASE UNCHANGED vars
    BY <2>9 DEF vars, cloudVars, timerVars
  <2>10. QED
    BY <2>1, <2>2, <2>3, <2>4, <2>5, <2>6, <2>7, <2>8, <2>9
       DEF Next, CloudGroup, TimerGroup
<1>3. QED
  BY <1>1, <1>2, TypeCorrect, PTL DEF Spec

\* Depth in a published scan was committed at most StaleTimeout, plus what the
\* clock was set back, before the timer judged it.
THEOREM DepthIsFresh == Spec => []PublishedDepthFresh
<1>1. AgeInv => PublishedDepthFresh
  BY DEF AgeInv
<1>2. QED
  BY <1>1, AgeInvariant, PTL

\* On a host whose clock is never set back the bound is depth_stale_timeout,
\* as the configuration promises.
THEOREM DepthWithinTimeout ==
    ASSUME MaxSetback = 0
    PROVE  Spec => []PublishedDepthWithinTimeout
<1>1. TypeOK /\ PublishedDepthFresh => PublishedDepthWithinTimeout
  BY TimeAssumption DEF TypeOK, Message, PublishedDepthFresh, PublishedDepthWithinTimeout
<1>2. QED
  BY <1>1, TypeCorrect, DepthIsFresh, PTL

\* The throttle drops a cloud only within MinPeriod, plus what the clock was set
\* back, of the last cloud it took.
THEOREM ThrottleBounded == Spec => ThrottleBlackoutBounded
<1>1. TypeOK /\ AgeInv /\ [Next]_vars
        => [DropsCloud => time - lastProcAt < MinPeriod + MaxSetback]_vars
  <2> SUFFICES ASSUME TypeOK, AgeInv, Next, DropsCloud
               PROVE  time - lastProcAt < MinPeriod + MaxSetback
    OBVIOUS
  <2>1. CloudCb
    BY DEF TypeOK, DropsCloud, Next, Environment, Tick, SetClock, TfArrives, CloudArrives,
           LidarScan, CloudGroup, LookupTf, DiscardCloud, CommitDepth, TimerGroup,
           ScanCb, TimerSnapshot, TimerPublish, TimerThrows, sensorVars
  <2>2. Throttled
    BY <2>1 DEF CloudCb, DropsCloud
  <2>3. lastProcAt - lastProc \in 0..MaxSetback
    BY <2>2 DEF Throttled, AgeInv, TakenAt
  <2>4. QED
    BY <2>2, <2>3, TimeAssumption DEF Throttled, TypeOK
<1>2. QED
  BY <1>1, AgeInvariant, TypeCorrect, PTL DEF Spec, ThrottleBlackoutBounded

(***************************************************************************)
(* Fusion.                                                                 *)
(***************************************************************************)
\* One fused bin neither hides a return within RangeMax nor invents one.
LEMMA FuseBinKeepsObstacles ==
    ASSUME NEW lr \in Ranges, NEW dr \in Ranges
    PROVE  LET r == FuseBin(lr, dr)
               sensed == {lr, dr}
           IN  /\ r \in RangeMin..RangeMax \cup {Inf}
               /\ \A s \in sensed : s <= RangeMax => r <= s \/ r = RangeMin
               /\ r # Inf => r \in sensed \/ (r = RangeMin /\ \E s \in sensed : s < RangeMin)
BY RangeAssumption DEF FuseBin, Ranges, Inf

\* No publication hides or invents an obstacle.
THEOREM ObstaclesKept == Spec => []FusionKeepsObstacles
<1>1. Init => FusionKeepsObstacles
  <2> SUFFICES ASSUME Init PROVE FusionKeepsObstacles
    OBVIOUS
  <2>1. \A b \in Bins : feed.ranges[b] = Inf /\ {feed.lidar[b], feed.depth[b]} = {Inf}
    BY DEF Init, NoMsg, AllInf
  <2>2. ~(Inf <= RangeMax)
    BY RangeAssumption DEF Inf
  <2>3. QED
    BY <2>1, <2>2 DEF FusionKeepsObstacles
<1>2. TypeOK /\ FusionKeepsObstacles /\ [Next]_vars => FusionKeepsObstacles'
  <2> SUFFICES ASSUME TypeOK, FusionKeepsObstacles, [Next]_vars
               PROVE  FusionKeepsObstacles'
    OBVIOUS
  <2>1. CASE TimerPublish
    <3>1. PICK d \in [Bins -> Ranges] :
            /\ feed'.ranges = Fuse(snap.scan.bins, d)
            /\ feed'.lidar = snap.scan.bins
            /\ feed'.depth = d
      BY <2>1, DefaultTypes DEF TimerPublish, TypeOK, Depth
    <3>2. snap.scan.bins \in [Bins -> Ranges]
      BY DEF TypeOK, Scan
    <3>3. \A b \in Bins : /\ feed'.ranges[b] = FuseBin(feed'.lidar[b], feed'.depth[b])
                         /\ feed'.lidar[b] \in Ranges /\ feed'.depth[b] \in Ranges
      BY <3>1, <3>2 DEF Fuse
    <3>4. QED
      BY <3>3, FuseBinKeepsObstacles DEF FusionKeepsObstacles
  <2>2. CASE feed' = feed
    BY <2>2 DEF FusionKeepsObstacles
  <2>3. QED
    BY <2>1, <2>2
       DEF vars, Next, Environment, Tick, SetClock, TfArrives, CloudArrives, LidarScan,
           CloudGroup, CloudCb, LookupTf, DiscardCloud, CommitDepth,
           TimerGroup, ScanCb, TimerSnapshot, TimerThrows, timerVars
<1>3. QED
  BY <1>1, <1>2, TypeCorrect, PTL DEF Spec

-----------------------------------------------------------------------------
(***************************************************************************)
(* ScanFuser implements FusedFeed.  The argument follows a scan and a      *)
(* commit of depth on their way: a scan from the LiDAR through the queue   *)
(* and lastScan to the snapshot, a commit from depth to the snapshot.      *)
(* Each hand-over keeps the real order.                                    *)
(***************************************************************************)
\* A scan a LiDAR made: its stamp lags its real time by the clock's setback.
Genuine(s) ==
    /\ s.bins \in LidarFrames
    /\ s.stamp # None
    /\ s.at - s.stamp \in 0..MaxSetback

\* The scans of a queue, oldest first, were made after one time, until another.
InOrder(q, after, until) ==
    \A i \in 1..Len(q) :
        /\ Genuine(q[i])
        /\ after < q[i].at /\ q[i].at <= until
        /\ \A j \in 1..(i - 1) : q[j].at < q[i].at

ScanOrder ==
    /\ lidarAt <= time
    /\ lastScan.at <= lidarAt
    /\ InOrder(scanQueue, lastScan.at, lidarAt)
    /\ lastScan.stamp # None => Genuine(lastScan)
    /\ feed.at <= lastScan.at
    /\ feed.at = lastScan.at => feed.stamp = lastScan.stamp
    /\ tpc = "fuse" => /\ snap.scan = lastScan
                       /\ lastScan.stamp # None
                       /\ feed.at < lastScan.at

DepthOrder ==
    /\ depth.at <= time
    /\ depth.recv # None => depth.bins \in DepthFrames
    /\ feed.depthAt <= depth.at
    /\ tpc = "fuse" => /\ feed.depthAt <= snap.depth.at
                       /\ snap.depth.at <= depth.at
                       /\ snap.depth.recv # None => snap.depth.bins \in DepthFrames

\* The times of a scan are integers.
LEMMA ScanTime ==
    ASSUME NEW s \in Scan
    PROVE  s.at \in Int /\ s.stamp \in Int
BY TimeAssumption DEF Scan

\* A younger scan joins the queue, which drops its oldest when it is full.
LEMMA EnqueueInOrder ==
    ASSUME NEW q \in Seq(Scan), NEW after \in Int, NEW until \in Int, InOrder(q, after, until),
           Len(q) <= ScanQueueDepth,
           NEW s \in Scan, Genuine(s), after < s.at, until < s.at
    PROVE  InOrder(Enqueue(q, s), after, s.at)
<1>1. ASSUME NEW r \in Seq(Scan), InOrder(r, after, until)
      PROVE  InOrder(Append(r, s), after, s.at)
  <2> SUFFICES ASSUME NEW i \in 1..Len(Append(r, s))
               PROVE  /\ Genuine(Append(r, s)[i])
                      /\ after < Append(r, s)[i].at /\ Append(r, s)[i].at <= s.at
                      /\ \A j \in 1..(i - 1) : Append(r, s)[j].at < Append(r, s)[i].at
    BY DEF InOrder
  <2>0. s.at \in Int /\ \A k \in 1..Len(r) : r[k].at \in Int
    <3>1. \A k \in 1..Len(r) : r[k] \in Scan
      OBVIOUS
    <3>2. QED
      BY <3>1, ScanTime
  <2>1. \A k \in 1..Len(r) : Append(r, s)[k] = r[k]
    OBVIOUS
  <2>2. CASE i <= Len(r)
    BY <1>1, <2>0, <2>1, <2>2 DEF InOrder
  <2>3. CASE i = Len(r) + 1
    <3>1. Append(r, s)[i] = s
      BY <2>3
    <3>2. \A j \in 1..(i - 1) : Append(r, s)[j].at < s.at
      BY <1>1, <2>0, <2>1, <2>3 DEF InOrder
    <3>3. QED
      BY <2>0, <3>1, <3>2
  <2>4. QED
    BY <2>2, <2>3
<1>2. CASE Len(q) < ScanQueueDepth
  BY <1>1, <1>2 DEF Enqueue
<1>3. CASE ~(Len(q) < ScanQueueDepth)
  <2>1. q # <<>>
    BY <1>3, TimeAssumption
  <2>2. Tail(q) \in Seq(Scan) /\ InOrder(Tail(q), after, until)
    BY <2>1 DEF InOrder
  <2>3. QED
    BY <1>1, <1>3, <2>2 DEF Enqueue
<1>4. QED
  BY <1>2, <1>3

\* The oldest scan of a queue leaves it.
LEMMA DequeueInOrder ==
    ASSUME NEW q \in Seq(Scan), NEW after, NEW until, InOrder(q, after, until), q # <<>>
    PROVE  /\ Genuine(Head(q)) /\ after < Head(q).at /\ Head(q).at <= until
           /\ InOrder(Tail(q), Head(q).at, until)
<1>1. Len(q) \in Nat \ {0} /\ Head(q) = q[1] /\ Len(Tail(q)) = Len(q) - 1
  OBVIOUS
<1>2. \A i \in 1..Len(Tail(q)) : Tail(q)[i] = q[i + 1]
  OBVIOUS
<1>3. Genuine(q[1]) /\ after < q[1].at /\ q[1].at <= until
  BY <1>1 DEF InOrder
<1>4. ASSUME NEW i \in 1..Len(Tail(q))
      PROVE  /\ Genuine(Tail(q)[i])
             /\ q[1].at < Tail(q)[i].at /\ Tail(q)[i].at <= until
             /\ \A j \in 1..(i - 1) : Tail(q)[j].at < Tail(q)[i].at
  <2>1. /\ i + 1 \in 1..Len(q) /\ 1 \in 1..((i + 1) - 1)
        /\ \A j \in 1..(i - 1) : j + 1 \in 1..((i + 1) - 1)
                              /\ Tail(q)[j] = q[j + 1]
    BY <1>1, <1>2
  <2>2. /\ Genuine(q[i + 1]) /\ q[i + 1].at <= until
        /\ \A j \in 1..((i + 1) - 1) : q[j].at < q[i + 1].at
    BY <2>1 DEF InOrder
  <2>3. QED
    BY <1>2, <2>1, <2>2
<1>5. QED
  BY <1>1, <1>3, <1>4 DEF InOrder

\* Scans keep their real order from the LiDAR to the feed.
LEMMA ScanOrderInvariant == Spec => []ScanOrder
<1>1. Init => ScanOrder
  BY DEF Init, ScanOrder, InOrder, NoScan, NoMsg
<1>2. TypeOK /\ GateInv /\ ScanOrder /\ [Next]_vars => ScanOrder'
  <2> SUFFICES ASSUME TypeOK, GateInv, ScanOrder, [Next]_vars
               PROVE  ScanOrder'
    OBVIOUS
  <2>0. /\ time \in Int /\ lidarAt \in Int /\ lastScan.at \in Int /\ feed.at \in Int
        /\ lastScan.stamp \in Int /\ lastScan \in Scan
        /\ setback \in 0..MaxSetback /\ setback <= time /\ MaxSetback \in Nat
        /\ scanQueue \in Seq(Scan) /\ Len(scanQueue) <= ScanQueueDepth
    BY TimeAssumption DEF TypeOK, Scan, Message
  <2>1. CASE Tick
    BY <2>0, <2>1 DEF ScanOrder, Tick, sensorVars, timerVars
  <2>2. CASE SetClock \/ TfArrives
    BY <2>2 DEF ScanOrder, SetClock, TfArrives, sensorVars, timerVars
  <2>3. CASE CloudArrives
    BY <2>3 DEF ScanOrder, CloudArrives, clockVars, timerVars
  <2>4. CASE LidarScan
    <3> DEFINE s(f) == [stamp |-> NodeClock, bins |-> f, at |-> time]
    <3>1. PICK f \in LidarFrames : scanQueue' = Enqueue(scanQueue, s(f))
      BY <2>4 DEF LidarScan
    <3>2. s(f) \in Scan /\ Genuine(s(f)) /\ s(f).at = time
      BY <2>0, TimeAssumption, FrameAssumption DEF Scan, Genuine, TypeOK
    <3>3. lidarAt < time /\ lidarAt' = time /\ UNCHANGED <<time, lastScan, tpc, snap, feed>>
      BY <2>4 DEF LidarScan, clockVars, timerVars
    <3>4. lastScan.at < time
      BY <2>0, <3>3 DEF ScanOrder
    <3> HIDE DEF s
    <3>5. InOrder(scanQueue', lastScan.at, time)
      BY <2>0, <3>1, <3>2, <3>3, <3>4, EnqueueInOrder DEF ScanOrder
    <3>6. QED
      BY <2>0, <3>3, <3>4, <3>5 DEF ScanOrder
  <2>5. CASE CloudGroup
    BY <2>5 DEF ScanOrder, CloudGroup, CloudCb, LookupTf, DiscardCloud, CommitDepth,
                clockVars, sensorVars, timerVars
  <2>6. CASE ScanCb
    <3>1. /\ tpc = "idle" /\ scanQueue # <<>>
          /\ lastScan' = Head(scanQueue) /\ scanQueue' = Tail(scanQueue)
          /\ UNCHANGED <<time, lidarAt, tpc, snap, feed>>
      BY <2>6 DEF ScanCb, clockVars, timerVars
    <3>2. /\ Genuine(lastScan') /\ lastScan.at < lastScan'.at /\ lastScan'.at <= lidarAt
          /\ InOrder(scanQueue', lastScan'.at, lidarAt)
      BY <2>0, <3>1, DequeueInOrder DEF ScanOrder
    <3>3. lastScan'.at \in Int
      <4>1. Head(scanQueue) \in Scan
        BY <2>0, <3>1
      <4>2. QED
        BY <3>1, <4>1, ScanTime
    <3>4. QED
      BY <2>0, <3>1, <3>2, <3>3 DEF ScanOrder
  <2>7. CASE TimerSnapshot
    <3>1. /\ lastScan.stamp # None /\ StampAdvanced
          /\ snap'.scan = lastScan
          /\ UNCHANGED <<time, scanQueue, lidarAt, lastScan, feed>>
      BY <2>7 DEF TimerSnapshot, clockVars, sensorVars
    <3>2. feed.stamp # lastScan.stamp
      BY <2>0, <3>1 DEF StampAdvanced, GateInv
    <3>3. QED
      BY <2>0, <3>1, <3>2 DEF ScanOrder
  <2>8. CASE TimerPublish
    <3>1. /\ tpc = "fuse" /\ tpc' = "idle"
          /\ feed'.stamp = snap.scan.stamp /\ feed'.at = snap.scan.at
          /\ UNCHANGED <<time, scanQueue, lidarAt, lastScan>>
      BY <2>8 DEF TimerPublish, clockVars, sensorVars
    <3>2. QED
      BY <2>0, <3>1 DEF ScanOrder
  <2>9. CASE TimerThrows
    BY <2>9 DEF ScanOrder, TimerThrows, clockVars, sensorVars
  <2>10. CASE UNCHANGED vars
    BY <2>10 DEF ScanOrder, vars, clockVars, sensorVars, timerVars
  <2>11. QED
    BY <2>1, <2>2, <2>3, <2>4, <2>5, <2>6, <2>7, <2>8, <2>9, <2>10
       DEF Next, Environment, TimerGroup
<1>3. QED
  BY <1>1, <1>2, TypeCorrect, GateInvariant, PTL DEF Spec

\* Commits of depth keep their real order to the feed.
LEMMA DepthOrderInvariant == Spec => []DepthOrder
<1>1. Init => DepthOrder
  BY DEF Init, DepthOrder, NoDepth, NoMsg
<1>2. TypeOK /\ DepthOrder /\ [Next]_vars => DepthOrder'
  <2> SUFFICES ASSUME TypeOK, DepthOrder, [Next]_vars
               PROVE  DepthOrder'
    OBVIOUS
  <2>0. /\ time \in Int /\ depth.at \in Int /\ snap.depth.at \in Int /\ feed.depthAt \in Int
    BY TimeAssumption DEF TypeOK, Depth, Message
  <2> USE DEF DepthOrder
  <2>1. CASE Environment
    BY <2>0, <2>1 DEF Environment, Tick, SetClock, TfArrives, CloudArrives, LidarScan,
                      clockVars, timerVars
  <2>2. CASE CloudCb \/ LookupTf \/ DiscardCloud
    BY <2>2 DEF CloudCb, LookupTf, DiscardCloud, clockVars, timerVars
  <2>3. CASE CommitDepth
    BY <2>0, <2>3 DEF CommitDepth, clockVars, timerVars
  <2>4. CASE ScanCb
    BY <2>4 DEF ScanCb, clockVars, timerVars
  <2>5. CASE TimerSnapshot
    BY <2>0, <2>5 DEF TimerSnapshot, clockVars
  <2>6. CASE TimerPublish
    BY <2>0, <2>6 DEF TimerPublish, clockVars
  <2>7. CASE TimerThrows
    BY <2>7 DEF TimerThrows, clockVars
  <2>8. CASE UNCHANGED vars
    BY <2>8 DEF vars, clockVars, timerVars
  <2>9. QED
    BY <2>1, <2>2, <2>3, <2>4, <2>5, <2>6, <2>7, <2>8 DEF Next, CloudGroup, TimerGroup
<1>3. QED
  BY <1>1, <1>2, TypeCorrect, PTL DEF Spec

\* A step of the node that publishes is a step of the abstract feed.
LEMMA PublishStep ==
    ASSUME TypeOK, GateInv, ScanOrder, DepthOrder, PublishedDepthFresh', TimerPublish
    PROVE  Feed!Publish
<1> DEFINE used == Fresh(snap.depth)
           dbins == IF used THEN snap.depth.bins ELSE AllInf
<1>1. /\ tpc = "fuse" /\ snap.scan = lastScan /\ lastScan.stamp # None /\ Genuine(lastScan)
      /\ feed.at < lastScan.at /\ lastScan.stamp > feed.stamp
      /\ lastScan.at <= lidarAt /\ lidarAt <= time
  BY DEF TimerPublish, ScanOrder, GateInv
<1>2. feed' = [stamp |-> lastScan.stamp, at |-> lastScan.at,
               ranges |-> Fuse(lastScan.bins, dbins),
               lidar |-> lastScan.bins, depth |-> dbins, used |-> used,
               age |-> IF used THEN time - snap.depth.at ELSE 0,
               depthAt |-> IF used THEN snap.depth.at ELSE feed.depthAt]
      /\ time' = time
  BY <1>1 DEF TimerPublish, clockVars
<1>3. /\ time \in Int /\ lidarAt \in Int /\ lastScan.at \in Int /\ snap.depth.at \in Int
      /\ depth.at \in Int /\ lastScan.bins \in [Bins -> Ranges] /\ snap.depth.bins \in [Bins -> Ranges]
  BY TimeAssumption DEF TypeOK, Scan, Depth
<1>4. /\ used => snap.depth.bins \in DepthFrames
      /\ feed.depthAt <= snap.depth.at /\ snap.depth.at <= time
  BY <1>1, <1>3 DEF DepthOrder, Fresh
<1>5. used => time - snap.depth.at <= StaleTimeout + MaxSetback
  BY <1>2 DEF PublishedDepthFresh
<1>6. used \in BOOLEAN
  BY DEF Fresh
<1>7. dbins \in [Bins -> Ranges]
  BY <1>3, DefaultTypes
<1> HIDE DEF used
<1>8. Feed!Fused(Published')
  <2>1. Published'.lidar \in LidarFrames
    BY <1>1, <1>2 DEF Published, Genuine
  <2>2. IF Published'.used THEN Published'.depth \in DepthFrames
                           ELSE Published'.depth = Feed!NoReturns
    BY <1>2, <1>4, <1>6 DEF Published, Feed!NoReturns, AllInf
  <2>3. ASSUME NEW b \in Bins
        PROVE  Feed!Covers(Published'.ranges[b], {Published'.lidar[b], Published'.depth[b]})
    <3>1. /\ Published'.ranges[b] = FuseBin(lastScan.bins[b], dbins[b])
          /\ Published'.lidar[b] = lastScan.bins[b] /\ Published'.depth[b] = dbins[b]
      BY <1>2 DEF Published, Fuse
    <3>2. lastScan.bins[b] \in Ranges /\ dbins[b] \in Ranges
      BY <1>3, <1>7
    <3> HIDE DEF dbins
    <3>3. QED
      BY <3>1, <3>2, FuseBinKeepsObstacles DEF Feed!Covers
  <2>4. QED
    BY <2>1, <2>2, <2>3 DEF Feed!Fused
<1>9. Feed!Later(Published')
  BY <1>1, <1>2, <1>3 DEF Feed!Later, Published, Genuine
<1>10. Feed!DepthInOrder(Published')
  BY <1>2, <1>3, <1>4, <1>5, <1>6, TimeAssumption DEF Feed!DepthInOrder, Published, TypeOK, Message
<1>11. QED
  BY <1>2, <1>8, <1>9, <1>10 DEF Feed!Publish

\* The node implements the feed its subscribers rely on.
THEOREM FuserImplementsFeed == Spec => ImplementsFusedFeed
<1>1. Init => Feed!Init
  BY DEF Init, Feed!Init, Feed!NoReturns, Published, NoMsg, AllInf
<1>2. TypeOK /\ GateInv /\ ScanOrder /\ DepthOrder /\ PublishedDepthFresh' /\ [Next]_vars
        => [Feed!Next]_Feed!vars
  <2> SUFFICES ASSUME TypeOK, GateInv, ScanOrder, DepthOrder, PublishedDepthFresh', [Next]_vars
               PROVE  [Feed!Next]_Feed!vars
    OBVIOUS
  <2>1. CASE TimerPublish
    BY <2>1, PublishStep DEF Feed!Next
  <2>2. CASE Tick
    BY <2>2, TimeAssumption DEF Tick, timerVars, Feed!Next, Feed!Pass, Published, TypeOK
  <2>3. CASE UNCHANGED <<time, feed>>
    BY <2>3 DEF Feed!vars, Published
  <2>4. QED
    BY <2>1, <2>2, <2>3
       DEF vars, Next, Environment, SetClock, TfArrives, CloudArrives, LidarScan,
           CloudGroup, CloudCb, LookupTf, DiscardCloud, CommitDepth,
           TimerGroup, ScanCb, TimerSnapshot, TimerThrows, clockVars, timerVars
<1>3. QED
  BY <1>1, <1>2, TypeCorrect, GateInvariant, ScanOrderInvariant, DepthOrderInvariant,
     DepthIsFresh, PTL DEF Spec, Feed!Spec, ImplementsFusedFeed

\* The silence after a setback ends once it has been made up for.
THEOREM SilenceEnds == Spec => []SilenceBounded
<1> DEFINE FeedGenuine == feed.stamp <= feed.at
<1>1. Init => FeedGenuine
  BY DEF Init, NoMsg
<1>2. TypeOK /\ ScanOrder /\ FeedGenuine /\ [Next]_vars => FeedGenuine'
  <2> SUFFICES ASSUME TypeOK, ScanOrder, FeedGenuine, [Next]_vars
               PROVE  FeedGenuine'
    OBVIOUS
  <2>1. CASE TimerPublish
    <3>1. feed'.stamp = snap.scan.stamp /\ feed'.at = snap.scan.at /\ tpc = "fuse"
      BY <2>1 DEF TimerPublish
    <3>2. QED
      BY <3>1, TimeAssumption DEF ScanOrder, Genuine, TypeOK, Scan
  <2>2. CASE feed' = feed
    BY <2>2
  <2>3. QED
    BY <2>1, <2>2
       DEF vars, Next, Environment, Tick, SetClock, TfArrives, CloudArrives, LidarScan,
           CloudGroup, CloudCb, LookupTf, DiscardCloud, CommitDepth,
           TimerGroup, ScanCb, TimerSnapshot, TimerThrows, timerVars
<1>3. TypeOK /\ GateInv /\ ScanOrder /\ FeedGenuine => SilenceBounded
  BY TimeAssumption DEF TypeOK, Scan, Message, GateInv, ScanOrder, Genuine,
                        SilenceBounded, StampAdvanced
<1>4. QED
  BY <1>1, <1>2, <1>3, TypeCorrect, GateInvariant, ScanOrderInvariant, PTL DEF Spec

=============================================================================
