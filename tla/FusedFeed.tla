------------------------------ MODULE FusedFeed ------------------------------
(***************************************************************************)
(* What the subscribers of /scan_fused (slam_toolbox, Nav2's costmaps) may *)
(* rely on: the abstract specification that ScanFuser implements.  There   *)
(* are no threads, queues, locks or clocks that can be set here, only real *)
(* time and the messages.                                                  *)
(***************************************************************************)
EXTENDS Integers

CONSTANTS
    Bins,         \* the angular bins of a message
    RangeMin,     \* the limits of a published return
    RangeMax,
    Inf,          \* no return
    LidarFrames,  \* what a LiDAR scan may resample to
    DepthFrames,  \* what a depth cloud may bin to
    MaxDepthAge,  \* how old a commit of depth may be when it is published
    MaxError      \* how far a stamp may lag the time it stands for

VARIABLES
    now,   \* real time
    msg    \* the last message, with the real times behind its data

vars == <<now, msg>>

NoReturns == [b \in Bins |-> Inf]

\* Before the first message; any negative stamp and time would do.
Init ==
    /\ now = 0
    /\ msg = [stamp |-> -1, at |-> -1, ranges |-> NoReturns, lidar |-> NoReturns,
              depth |-> NoReturns, used |-> FALSE, depthAt |-> 0]

\* One bin: returns within RangeMax are kept or covered, and none is made up.
Covers(r, sensed) ==
    /\ r \in RangeMin..RangeMax \cup {Inf}
    /\ \A s \in sensed : s <= RangeMax => r <= s \/ r = RangeMin
    /\ r # Inf => r \in sensed \/ (r = RangeMin /\ \E s \in sensed : s < RangeMin)

\* A message covers one LiDAR scan and the depth it used.
Fused(m) ==
    /\ m.lidar \in LidarFrames
    /\ IF m.used THEN m.depth \in DepthFrames ELSE m.depth = NoReturns
    /\ \A b \in Bins : Covers(m.ranges[b], {m.lidar[b], m.depth[b]})

\* Messages follow each other in stamp and in the real order of their scans:
\* no scan comes twice, or after a younger one.
Later(m) ==
    /\ m.stamp > msg.stamp
    /\ m.at > msg.at
    /\ m.at <= now /\ m.at - m.stamp \in 0..MaxError

\* Depth is fresh, and is never followed by depth of an earlier commit.
DepthInOrder(m) ==
    IF m.used THEN m.depthAt \in msg.depthAt..now /\ now - m.depthAt <= MaxDepthAge
              ELSE m.depthAt = msg.depthAt

Publish ==
    /\ Later(msg') /\ DepthInOrder(msg') /\ Fused(msg')
    /\ UNCHANGED now

Pass ==
    /\ now' > now
    /\ UNCHANGED msg

Next == Publish \/ Pass

Spec == Init /\ [][Next]_vars
=============================================================================
