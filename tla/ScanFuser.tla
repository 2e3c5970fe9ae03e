------------------------------ MODULE ScanFuser ------------------------------
(***************************************************************************)
(* The scan_fuser node of pinky_perception: a depth camera's point clouds  *)
(* and a LiDAR's scans are fused into one laser scan, /scan_fused.         *)
(*                                                                         *)
(* Two callback groups run on a MultiThreadedExecutor.  The cloud group    *)
(* throttles, transforms and filters one cloud at a time and commits its   *)
(* angular bins; the other group caches the latest LiDAR scan and, on a    *)
(* timer, fuses the cached scan with the committed bins and publishes.     *)
(* They share depth_bins_, last_depth_recv_ and last_scan_, under          *)
(* data_mutex_, which is held for the two commits and the timer's snapshot *)
(* only: those three are single steps here, and everything else a callback *)
(* does may interleave with the other group and with the passing of time.  *)
(*                                                                         *)
(* Time is counted in ticks.  "time" is real time; the node clock, which   *)
(* is the host's system clock, lags it by "setback", and may be set        *)
(* (setback changes) while the node runs.                                  *)
(***************************************************************************)
EXTENDS Integers, Sequences

CONSTANTS
    Bins,            \* the angular bins of the fused scan
    MaxRange,        \* sensor ranges are 1..MaxRange
    RangeMin,        \* range_min and range_max of the fused scan
    RangeMax,
    LidarFrames,     \* what a LiDAR scan resamples to, bin by bin
    DepthFrames,     \* what a depth cloud bins to after ground removal and gates
    MinPeriod,       \* 1 / depth_process_rate
    StaleTimeout,    \* depth_stale_timeout
    ScanQueueDepth,  \* the middleware's queue for /scan (SensorDataQoS)
    HwThreads,       \* std::thread::hardware_concurrency(), 0 when unknown
    MaxSetback,      \* bound: how far the system clock may be set back in all
    Setbacks,        \* what the system clock may lag real time by
    MaxTime          \* bound: the last tick

Inf == MaxRange + 1          \* "no return" is further than any return
Ranges == 1..Inf
AllInf == [b \in Bins |-> Inf]
None == -1                   \* an unset time or stamp

ASSUME RangeAssumption ==
    /\ MaxRange \in Nat
    /\ RangeMin \in 1..MaxRange
    /\ RangeMax \in RangeMin..MaxRange

ASSUME FrameAssumption ==
    /\ LidarFrames \subseteq [Bins -> Ranges]
    /\ DepthFrames \subseteq [Bins -> Ranges]

ASSUME TimeAssumption ==
    /\ MinPeriod \in Nat
    /\ StaleTimeout \in Nat
    /\ ScanQueueDepth \in Nat \ {0}
    /\ HwThreads \in Nat
    /\ MaxSetback \in Nat /\ Setbacks \subseteq 0..MaxSetback
    /\ MaxTime \in Nat

VARIABLES
    time,        \* real time
    setback,     \* real time minus the node clock
    tfReady,     \* has the camera's static transform been received?
    cloudSlot,   \* is a cloud queued?  At most one is: KeepLast(1)
    scanQueue,   \* queued LiDAR scans
    lidarAt,     \* real time of the LiDAR's last scan
    cpc,         \* the cloud group's thread
    lastProc,    \* last_proc_time_ (None: last_proc_valid_ is false)
    lastProcAt,  \* history: the real time lastProc was set at
    depth,       \* depth_bins_ and last_depth_recv_, with their history
    lastScan,    \* last_scan_ (stamp None: has_scan_ is false)
    tpc,         \* the timer and scan group's thread
    snap,        \* the timer callback's copies of lastScan and depth
    lastPub,     \* last_pub_stamp_ (None: have_pub_ is false)
    feed         \* the last message on /scan_fused, with its history

clockVars == <<time, setback, tfReady>>
sensorVars == <<cloudSlot, scanQueue, lidarAt>>
cloudVars == <<cpc, lastProc, lastProcAt>>
timerVars == <<tpc, snap, lastPub, feed>>
vars == <<clockVars, sensorVars, cloudVars, depth, lastScan, timerVars>>

NodeClock == time - setback

\* A LiDAR scan with the real time it was made at (at); depth bins with the
\* node time they were committed at (recv) and the real time of that (at).
NoScan == [stamp |-> None, bins |-> AllInf, at |-> None]
NoDepth == [bins |-> AllInf, recv |-> None, at |-> 0]
NoSnap == [scan |-> NoScan, depth |-> NoDepth]
NoMsg == [stamp |-> None, at |-> None, ranges |-> AllInf, lidar |-> AllInf,
          depth |-> AllInf, used |-> FALSE, age |-> 0, depthAt |-> 0]

\* The executor has at least two threads, whatever the host reports.
MutantThreadsAsReported == HwThreads
ExecutorThreads == IF HwThreads > 2 THEN HwThreads ELSE 2
BusyThreads == (IF cpc = "idle" THEN 0 ELSE 1) + (IF tpc = "idle" THEN 0 ELSE 1)
FreeThread == BusyThreads < ExecutorThreads

Init ==
    /\ time = 0 /\ setback = 0 /\ tfReady = FALSE
    /\ cloudSlot = FALSE /\ scanQueue = <<>> /\ lidarAt = None
    /\ cpc = "idle" /\ lastProc = None /\ lastProcAt = None
    /\ depth = NoDepth
    /\ lastScan = NoScan
    /\ tpc = "idle" /\ snap = NoSnap /\ lastPub = None /\ feed = NoMsg

-----------------------------------------------------------------------------
(***************************************************************************)
(* The environment: time, the system clock, the sensors, the middleware.   *)
(***************************************************************************)
Tick ==
    /\ time < MaxTime
    /\ time' = time + 1
    /\ UNCHANGED <<setback, tfReady, sensorVars, cloudVars, depth, lastScan, timerVars>>

\* The system clock is set (NTP, an operator, a restarted simulation).
SetClock ==
    /\ \E s \in Setbacks : s # setback /\ s <= time /\ setback' = s
    /\ UNCHANGED <<time, tfReady, sensorVars, cloudVars, depth, lastScan, timerVars>>

\* The camera driver's static transform arrives on the listener's own thread.
TfArrives ==
    /\ ~tfReady
    /\ tfReady' = TRUE
    /\ UNCHANGED <<time, setback, sensorVars, cloudVars, depth, lastScan, timerVars>>

\* A cloud reaches the node and replaces an older one that is still queued.
\* A cloud lost on the way is one that never arrives.
CloudArrives ==
    /\ cloudSlot' = TRUE
    /\ UNCHANGED <<clockVars, scanQueue, lidarAt, cloudVars, depth, lastScan, timerVars>>

\* When the queue of /scan is full its oldest scan is dropped.
MutantEnqueueUnbounded(q, scan) == Append(q, scan)
Enqueue(q, scan) ==
    IF Len(q) < ScanQueueDepth THEN Append(q, scan) ELSE Append(Tail(q), scan)

\* The LiDAR driver stamps a scan with the same system clock.  A lost scan is
\* one that is never queued.
LidarScan ==
    /\ time > lidarAt
    /\ lidarAt' = time
    /\ \E f \in LidarFrames :
          scanQueue' = Enqueue(scanQueue, [stamp |-> NodeClock, bins |-> f, at |-> time])
    /\ UNCHANGED <<clockVars, cloudSlot, cloudVars, depth, lastScan, timerVars>>

-----------------------------------------------------------------------------
(***************************************************************************)
(* The cloud group.                                                        *)
(***************************************************************************)
MutantThrottledTooLong == lastProc # None /\ NodeClock - lastProc <= MinPeriod
Throttled == lastProc # None /\ NodeClock - lastProc < MinPeriod

\* cloudCb: drop the cloud, or take it and remember when.
CloudCb ==
    /\ cpc = "idle" /\ cloudSlot /\ FreeThread
    /\ cloudSlot' = FALSE
    /\ \/ /\ Throttled
          /\ UNCHANGED cloudVars
       \/ /\ ~Throttled
          /\ cpc' = "tf"
          /\ lastProc' = NodeClock
          /\ lastProcAt' = time
    /\ UNCHANGED <<clockVars, scanQueue, lidarAt, depth, lastScan, timerVars>>

\* processCloud: the transform at the cloud's stamp, else the latest one, else
\* the cloud is dropped.  The mount is fixed: either transform serves.
LookupTf ==
    /\ cpc = "tf"
    /\ cpc' = IF tfReady THEN "pcl" ELSE "idle"
    /\ UNCHANGED <<clockVars, sensorVars, lastProc, lastProcAt, depth, lastScan, timerVars>>

\* No point survives a stage up to the ground removal, or a stage throws:
\* processCloud returns and the bins of the previous cloud stay.
DiscardCloud ==
    /\ cpc = "pcl"
    /\ cpc' = "idle"
    /\ UNCHANGED <<clockVars, sensorVars, lastProc, lastProcAt, depth, lastScan, timerVars>>

\* Gate, bin, and commit under the lock, with the node time of the commit.
CommitDepth ==
    /\ cpc = "pcl"
    /\ cpc' = "idle"
    /\ \E f \in DepthFrames :
          depth' = [bins |-> f, recv |-> NodeClock, at |-> time]
    /\ UNCHANGED <<clockVars, sensorVars, lastProc, lastProcAt, lastScan, timerVars>>

-----------------------------------------------------------------------------
(***************************************************************************)
(* The timer and scan group.                                               *)
(***************************************************************************)
ScanCb ==
    /\ tpc = "idle" /\ scanQueue # <<>> /\ FreeThread
    /\ lastScan' = Head(scanQueue)
    /\ scanQueue' = Tail(scanQueue)
    /\ UNCHANGED <<clockVars, cloudSlot, lidarAt, cloudVars, depth, timerVars>>

\* The stamp gate: a cached scan is published once.
MutantStampNotBehind == lastPub = None \/ lastScan.stamp >= lastPub
MutantStampWellAdvanced == lastPub = None \/ lastScan.stamp > lastPub + 1
StampAdvanced == lastPub = None \/ lastScan.stamp > lastPub

\* timerCbImpl, first part: a consistent copy under the lock, then the stamp
\* gate.  Without a scan, or with one already published, the callback returns.
TimerSnapshot ==
    /\ tpc = "idle" /\ FreeThread
    /\ lastScan.stamp # None /\ StampAdvanced
    /\ tpc' = "fuse"
    /\ snap' = [scan |-> lastScan, depth |-> depth]
    /\ UNCHANGED <<clockVars, sensorVars, cloudVars, depth, lastScan, lastPub, feed>>

\* Fresh depth is at most StaleTimeout old by the node clock, and not from
\* the node clock's future.
MutantFreshOfShared(d) == depth.recv # None /\ NodeClock - depth.recv \in 0..StaleTimeout
Fresh(d) == d.recv # None /\ NodeClock - d.recv \in 0..StaleTimeout

\* One bin: the nearer return, snapped up to RangeMin, dropped beyond RangeMax.
MutantFuseBinPrefersLidar(lr, dr) ==
    LET best == IF lr = Inf THEN dr ELSE lr
    IN  IF best < RangeMin THEN RangeMin
        ELSE IF best > RangeMax THEN Inf ELSE best
FuseBin(lr, dr) ==
    LET best == IF dr < lr THEN dr ELSE lr
    IN  IF best < RangeMin THEN RangeMin
        ELSE IF best > RangeMax THEN Inf ELSE best

Fuse(lidar, dbins) == [b \in Bins |-> FuseBin(lidar[b], dbins[b])]

\* timerCbImpl, second part, without the lock: judge the copied depth by the
\* clock, fuse, publish, advance the stamp gate.
TimerPublish ==
    /\ tpc = "fuse"
    /\ tpc' = "idle"
    /\ snap' = NoSnap
    /\ LET used == Fresh(snap.depth)
           dbins == IF used THEN snap.depth.bins ELSE AllInf
       IN  feed' = [stamp |-> snap.scan.stamp, at |-> snap.scan.at,
                    ranges |-> Fuse(snap.scan.bins, dbins),
                    lidar |-> snap.scan.bins, depth |-> dbins, used |-> used,
                    age |-> IF used THEN time - snap.depth.at ELSE 0,
                    depthAt |-> IF used THEN snap.depth.at ELSE feed.depthAt]
    /\ lastPub' = snap.scan.stamp
    /\ UNCHANGED <<clockVars, sensorVars, cloudVars, depth, lastScan>>

\* publish() throws: timerCb catches it, and the stamp gate has not moved.
TimerThrows ==
    /\ tpc = "fuse"
    /\ tpc' = "idle"
    /\ snap' = NoSnap
    /\ UNCHANGED <<clockVars, sensorVars, cloudVars, depth, lastScan, lastPub, feed>>

-----------------------------------------------------------------------------
Environment == Tick \/ SetClock \/ TfArrives \/ CloudArrives \/ LidarScan
CloudGroup == CloudCb \/ LookupTf \/ DiscardCloud \/ CommitDepth
TimerGroup == ScanCb \/ TimerSnapshot \/ TimerPublish \/ TimerThrows

Next == Environment \/ CloudGroup \/ TimerGroup

Spec == Init /\ [][Next]_vars

\* The timer keeps firing, and a publish does not fail for ever.  Nothing is
\* assumed of the cloud group: a cloud may be processed for ever.
TimerFairness ==
    /\ WF_vars(TimerSnapshot)
    /\ SF_vars(TimerPublish)

FairSpec == Spec /\ TimerFairness

-----------------------------------------------------------------------------
(***************************************************************************)
(* Properties.                                                             *)
(***************************************************************************)
Stamps == 0..MaxTime \cup {None}
Scan == [stamp : Stamps, bins : [Bins -> Ranges], at : Stamps]
Depth == [bins : [Bins -> Ranges], recv : Stamps, at : 0..MaxTime]
Message == [stamp : Stamps, at : Stamps, ranges : [Bins -> Ranges],
            lidar : [Bins -> Ranges], depth : [Bins -> Ranges], used : BOOLEAN,
            age : Int, depthAt : 0..MaxTime]

\* Every variable has the type its declaration in the node gives it.
TypeOK ==
    /\ time \in 0..MaxTime
    /\ setback \in 0..MaxSetback /\ setback <= time
    /\ tfReady \in BOOLEAN
    /\ cloudSlot \in BOOLEAN
    /\ scanQueue \in Seq(Scan) /\ Len(scanQueue) <= ScanQueueDepth
    /\ lidarAt \in Stamps
    /\ cpc \in {"idle", "tf", "pcl"}
    /\ lastProc \in Stamps /\ lastProcAt \in Stamps
    /\ depth \in Depth
    /\ lastScan \in Scan
    /\ tpc \in {"idle", "fuse"}
    /\ snap \in [scan : Scan, depth : Depth]
    /\ lastPub \in Stamps
    /\ feed \in Message

\* The depth in a published scan was committed at most StaleTimeout before the
\* timer judged it, whatever the cloud group committed meanwhile.  Setting the
\* system clock back lengthens that by what it was set back, and no more.
PublishedDepthFresh == feed.used => feed.age <= StaleTimeout + MaxSetback

\* The configuration's comment on depth_stale_timeout, "if depth older -> fused =
\* pure LiDAR", read of real time.  It holds on a host whose clock is never set
\* back; else bins the node clock had aged out are judged fresh again.
PublishedDepthWithinTimeout == feed.used => feed.age <= StaleTimeout

\* Fusion never hides an obstacle: a return within RangeMax, of the LiDAR or of
\* fresh depth, is in the published scan at its range or nearer (RangeMin for
\* one that is too close), and every published return is one a sensor made.
FusionKeepsObstacles ==
    \A b \in Bins :
        LET r == feed.ranges[b]
            sensed == {feed.lidar[b], feed.depth[b]}
        IN  /\ r \in RangeMin..RangeMax \cup {Inf}
            /\ \A s \in sensed : s <= RangeMax => r <= s \/ r = RangeMin
            /\ r # Inf => r \in sensed \/ (r = RangeMin /\ \E s \in sensed : s < RangeMin)

\* slam_toolbox never sees a duplicate or a decreasing stamp, although the
\* timer is faster than the LiDAR, publishing may fail and be retried, and the
\* system clock that stamps the scans may be set back.
StampsIncrease == [][feed' # feed => feed'.stamp > feed.stamp]_vars

\* After the clock is set back the stamps of new scans are behind the last one
\* published, and nothing is; but a scan made more than the setback after the
\* last one published always passes the gate.
SilenceBounded ==
    lastScan.stamp # None /\ lastScan.at > feed.at + MaxSetback => StampAdvanced

\* A cloud is dropped by the throttle only within MinPeriod of the last cloud
\* that was taken, so drops never add up to a blackout; a clock set back
\* lengthens that by what it was set back, and no more.
DropsCloud == cloudSlot /\ ~cloudSlot' /\ cpc' = "idle" /\ cpc = "idle"
ThrottleBlackoutBounded ==
    [][DropsCloud => time - lastProcAt < MinPeriod + MaxSetback]_vars

\* The clock was set back: a scan made after the last one published is stamped
\* no later, and the gate holds it back.
HeldBack == lastScan.at > feed.at /\ lastScan.stamp <= feed.stamp

\* Every scan the node has taken is published in the end, or one made after it
\* is, even while the cloud group is stuck in a cloud, even if the host reports
\* a single core and however often publishing fails.  The one exception is the
\* setting back of the clock: a scan waiting for the timer is overwritten by the
\* next, and that one, or the scan itself, may then be behind the gate.
FreshScanPublished ==
    \A a \in 0..MaxTime :
        (lastScan.at = a) ~> (feed.at >= a \/ (lastScan.at >= a /\ HeldBack))

-----------------------------------------------------------------------------
(***************************************************************************)
(* The refinement.  The subscribers see real time and the messages; the    *)
(* age of a message was only recorded for PublishedDepthFresh.             *)
(***************************************************************************)
Published ==
    [stamp |-> feed.stamp, at |-> feed.at, ranges |-> feed.ranges, lidar |-> feed.lidar,
     depth |-> feed.depth, used |-> feed.used, depthAt |-> feed.depthAt]

Feed == INSTANCE FusedFeed WITH
    MaxDepthAge <- StaleTimeout + MaxSetback,
    MaxError <- MaxSetback,
    now <- time,
    msg <- Published

\* Two threads, a lossy queue, snapshots that are fused after the lock is
\* released, failing publications and a clock set back and forth look to a
\* subscriber like one ordered feed of fused scans.
ImplementsFusedFeed == Feed!Spec

=============================================================================
