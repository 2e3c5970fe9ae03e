# Formal models of pinky-fused-nav

TLA+ models of the robot's nodes and of its two sensor drivers, the TLC runs that check
them on small instances, and TLAPS proofs of their main properties for every value of
the constants. Paths below are relative to the repository; `pinky_x/...` stands for
`src/pinky_x/...` in it. `PROJECT.json` maps every definition to source lines.

To repeat: `tlc -config X.cfg MCModule` for a run, `tlapm ModuleProofs.tla` for
the proofs.

## 1. The system

Pinky is a two-wheeled robot on ROS 2. A LiDAR and a depth camera see, a fuser
makes one laser scan of both, Nav2 and slam_toolbox (external) drive by it, and
a small Python node turns velocity commands into motor goals.

```
 LiDAR driver --/scan--> scan_fuser --/scan_fused--> Nav2, slam_toolbox <--goals-- web panel, RViz
 depth camera --cloud--->    |                             |  ^                       ^
                         TF (static)                   cmd_vel  odom, tf              | HTTP
                                                           v  |                     browser
                                                        pinky_bringup --serial--> two motors
 stop_pinky.sh: SIGINT navigation, SIGINT bringup, SIGKILL the rest
```

| Component | State it keeps | Operations | What is hard | What makes it correct |
|---|---|---|---|---|
| `scan_fuser` (`pinky_perception/src/scan_fuser_node.cpp`) | depth bins and their time, last scan, throttle time, stamp gate | cloud, scan and timer callbacks in two callback groups on a multi-threaded executor; ignore-sector parsing, resampling | two threads share data under a lock held only briefly; clocks set back; publish throws; angles wrap | published depth is fresh; no obstacle lost or invented; stamps increase; no new scan waits for ever, even with a stuck cloud |
| `pinky_bringup` (`bringup.py`, `dynamixel_driver.py`) | last command time, encoders, pose; goals and torque in the motors | start-up, command callback, timer (watchdog and odometry), shutdown | broadcast writes have no reply; failed start-ups; stale commands in the queue; kill and relaunch; settable clock | wheels stop when commands stop; an orderly exit leaves them still; odometry counts each pulse once; limiting keeps the curve |
| `stop_pinky.sh` | how far it has come | three signals, two pauses | relies on its pauses and on the watchdog | when it is done no wheel turns |
| web panel (`nav2_web_server.py`, `index.html`) | "is it navigating", action goals; in the page the mode and the drag | goal, stop, poll, status; gestures | Flask threads, spin thread, polls that overtake; guesses overwrite status; code after an `await` | the page shows what the robot does; Stop stops everything; a drag is sent as drawn |
| lamp (`pinky_lamp_control/src/main_node.cpp`) | mode, time, index, direction | service, timer | 16-bit index, division by a time of 0, index shared by two modes | even blinking, complete fades, never too bright |
| LiDAR driver (`sllidar_ros2`: node, SDK, dense capsule handler) | commands and messages on the line, loop mode, cached capsule, scan buffers, two events | questions, start and stop, decoding, grabbing and publishing; services | node and decoder thread meet in buffers, events and the awaited type; spoiled bytes; late answers; restarts | a scan is there when the event says so, whole, published in order and in the end; a question takes its own answer |
| depth camera driver (`ros2_astra_camera`: factory, context, start and end of a node) | device list, open device, "connected", the streaming node | query thread, hot-plug listener, node threads | three threads share the factory's fields without a lock; unplugs at any moment; operations fail | the camera has one user; what the driver believes is so; a camera plugged in again comes back |
| IMU (`pinky_imu_bno055`) | none after start | bounded retries, then a timer | failed start goes on | publishes only valid readings |
| LED, emotion, ADC, battery | pixels; the image list | services, timers | partial failure | - |
| deployment script, launch files, description, worlds, test scripts | - | - | - | - |

`scan_fuser` and `pinky_bringup` meet only through Nav2. The panel reaches the
drive base through Nav2 as well, and the drivers reach the fuser through topics
alone. So the models are composed only where the code couples them directly: the stop
script with the drive base. What the fuser's subscribers may rely on is stated
separately, as an abstract specification that the fuser implements.

## 2. Modules

| Module | Models | Used by |
|---|---|---|
| `ScanFuser`, `MCScanFuser`, `ScanFuserProofs` | concurrency, freshness and fusion of the fuser | run `fuser` |
| `FusedFeed` | the abstract promise of `/scan_fused`; `ScanFuser` INSTANCEs it | run `fuser` (`ImplementsFusedFeed`) |
| `ScanResample`, `MCScanResample`, `ScanResampleProofs` | ignore sectors and resampling of one scan | run `resample` |
| `DriveBase`, `MCDriveBase`, `DriveBaseProofs` | node, driver, bus, motors, commander | runs `drive_*` |
| `StopPinky`, `MCStopPinky`, `StopPinkyProofs` | the stop script; EXTENDS `DriveBase` and drives its signals | run `stop_script` |
| `NavPanel`, `MCNavPanel`, `PanelProofs` | server threads, action server, polls, what the page shows | runs `panel*` |
| `MapClick`, `MCMapClick`, `PanelProofs` | gestures on the page's map | run `map_click` |
| `Lamp`, `MCLamp`, `LampProofs` | lamp service and timer | run `lamp` |
| `LidarDriver`, `MCLidarDriver`, `LidarDriverProofs` | device, decoder thread and node thread of the LiDAR driver | run `lidar` |
| `AstraCamera`, `MCAstraCamera`, `AstraCameraProofs` | hot-plugging of the depth camera | run `astra` |

### ScanFuser

Atomicity follows the code: with a callback group only one of its callbacks runs,
so each group has one program counter (`cpc`, `tpc`); `data_mutex_` covers only
the depth commit, the scan commit and the timer's snapshot, and these are the
only steps that touch shared data. `CloudCb` is the throttle; `LookupTf` the
transform; `DiscardCloud` every early return and exception up to the ground removal;
`CommitDepth` the rest. What the point filters compute is any member of
`DepthFrames`: which points survive is not what the properties are about. A
cloud that is queued is only a Boolean, since its contents are chosen when it is
binned. `TimerSnapshot`, `TimerPublish` and `TimerThrows` are `timerCbImpl`
before and after the lock, and the exception caught by `timerCb`. Time passes
between any two steps. `setback` is how far the host's clock, which
rclcpp's node clock and the LiDAR's stamps read, lies behind real time; it may be set to any
member of `Setbacks` at any moment. A scan that waits for the timer is overwritten by the
next, whatever their stamps (`ScanCb`).

### FusedFeed

What a subscriber of `/scan_fused` sees: real time and messages, no threads, queues,
locks or settable clocks. A message is the fusion of one LiDAR scan with no depth or
with a depth frame that is fresh; stamps and the real times of the scans increase
together; depth never goes back to an earlier commit. `Feed` in `ScanFuser` is its
instance, `Published` the mapping: `msg` is the last publication without the age that
is kept for `PublishedDepthFresh` only, and every other step of the node is time
passing or a stutter.

### ScanResample

Angles are integers, `2*HalfTurn` to the circle, the same for degrees and radians.
`NormAngle` translates `fmod` (which keeps the dividend's sign) and its two
corrections; `ParseSector` one turn of the parse loop; `InSector` both
wrap-around cases; `AngleToBin` rounds and wraps; `Ray` is one turn of the loop
over the ranges. The specification side (`OnArc`, `NearCentre`) is written
without `NormAngle`, by whole turns alone. Rounding of doubles is not modelled.

### DriveBase

The node is single threaded, so a callback is one step; start-up and `terminate()`
are several, since a signal or a loss may fall between their bus transactions.
`SyncWrite` is a broadcast without reply: any set of motors may miss it
(`faults` counts such transmissions, the last torque write too). `MaxFaults`,
`MaxSetback`, `MaxLaunches` and `MaxTime` are the environment's bounds. A tick is one timer
period; `Tick` waits until a running executor has called the due timer and, if a
command waits, handled one since the last tick: the assumption that the executor
keeps up, which the bounds of the watchdog rest on. The pose is kept as distance per wheel:
x, y and theta are functions of those sums and of rounding. Signals follow
`main()` (`Interrupt`): only a spinning node is terminated. In the constructor there is no node yet,
not even where a failed start is terminating; after a failed start the port is closed; and a
second SIGINT breaks `terminate()` off.

### StopPinky

The script's steps are guarded by its pauses; `RobotStep` lets everything of the
drive base go on meanwhile. Its signals name the two launches, and either may hang and not hand
the SIGINT on to its nodes; the history `obeyed` says which did. The last
`pkill -9` takes the stragglers one at a time (`KillNav`, `KillBringup`), so the robot may
take a step between two of them. `terminate()` is assumed to take less than the pause
(`ScriptTick`). The script does nothing to the drive base that its environment could not do:
the composition implements `DriveBase` (proved, see 4), whose properties it inherits.

### NavPanel

Each Flask thread first calls the action server, then writes the flag: two steps
(`SendGoal` or `CancelGoal`, then `Mark`), since `wait_for_server` and the
request are outside any lock. The status callback writes the same flag. The
status topic keeps the last message. Polls are answered in any order.
Goals of other clients (RViz) are external.

### MapClick

The release handler is split at its `await`: `PointerUp` up to it, `Answered`
after it, and anything may happen between. A position is the number of the gesture
it belongs to; a press may land beside the map and be released on it, which
without a pointer capture the page sees as a release only.

### Lamp

Service and timer share one thread. Of a colour only its brightness is kept. The
index is the code's `int16_t` to which a double is added; the truncation is exact,
a conversion out of range (undefined in C++) is any value of `Undefined`.

### LidarDriver

Three parties: the device at the end of two byte streams, the SDK's decoder thread, and
the node's thread. A call of the node (`todo`) is a list of questions and commands; what
a question's failure leads to is part of it. `AskDevice`, `Wake`, `TakeAnswer` and
`TimeOut` are `_sendCommandWithResponse` and `waitForData`; `MatchAnswer` and
`StoreAnswer` are two steps since `_waiting_packet_type` is read outside the lock.
`GrabWake` and `GrabScan` are two steps since the event is consumed before the buffers
are locked. `StartUp` starts the scan by `startScanExpress`, `start_motor` by `startScan`, which
stops and asks once more before it does the same. `OnCapsule` is the dense handler: it
publishes the cached capsule when the next one has come. In loop mode the bytes of an
answer or a header pass for the beginning of a capsule and spoil the next one (`torn`), and what is
left over of that one may spoil the next; enough of them fill one (`Filled`). A capsule is one node; a position in a session is a bearing modulo
`Capsules`, and bearing 0 carries the sync bit. Capsules and commands may be spoiled on
the line, answers may be late, the device may already scan when the process starts.
The history `mistaken` says that a question has taken the answer to an earlier one.

### AstraCamera

The query thread (`qpc`), OpenNI's listener (`lpc`) and the streaming node's own
threads. Only the device list has a lock, which the listener holds for its whole call;
`device_uri_`, `device_`, `ob_camera_node_` and `device_connected_` are written one
after the other by whoever comes, and every write is a step. Session numbers tell the
plugs of the one camera apart: an openni::Device opened in an earlier session is dead. A
node that is taken down is `dying` until its threads are joined. An operation on a
camera that is not there fails; on one that is there it may.

## 3. Runs

Numbers are distinct states.

| Run | Module and cfg | Checks | States |
|---|---|---|---|
| `fuser` | `MCScanFuser`, `ScanFuser.cfg` | `TypeOK`, `PublishedDepthFresh`, `StampsIncrease`, `ThrottleBlackoutBounded`, `SilenceBounded`, `FreshScanPublished`, `ImplementsFusedFeed` | 209 k |
| `drive_watchdog` | `MCDriveBase`, `DriveWatchdog.cfg` | `StopsInTime`, `SilenceStops`, `OrderlyExitStops` | 3.2 M |
| `drive_odometry` | `MCDriveBase`, `DriveOdometry.cfg` | `TypeOK`, `OdometryExact`, `VelocityPlausible`, `CurveKept` | 8.0 M |
| `stop_script` | `MCStopPinky`, `StopScript.cfg` | `SafeStop`, `WatchdogBeforeInterrupt` | 250 k |
| `panel` | `MCNavPanel`, `Panel.cfg` | `PanelSettles`, `StopEndsAll`, `DrivingShownUnlessStopped`, `RestShownUnlessSent` | 110 k |
| `map_click` | `MCMapClick`, `MapClick.cfg` | `SinglePose`, `DragSent`, `PreviewEnds` | 59 k |
| `resample` | `MCScanResample`, `Resample.cfg` | `TypeOK`, `MaskExact`, `BinNearest`, `BinsExact` | 105 k |
| `lamp` | `MCLamp`, `Lamp.cfg` | `TypeOK`, `NeverBrighter`, `EvenBlink`, `FadesUpAndDown` | 20 k |
| `lidar` | `MCLidarDriver`, `Lidar.cfg` | `TypeOK`, `ScanBehindEvent`, `ScansWhole`, `AnswersMatch`, `ScansInOrder`, `ScansDelivered` | 4.3 M |
| `astra` | `MCAstraCamera`, `Astra.cfg` | `OneUser`, `BeliefTrue`, `CameraComesBack` | 61 k |
| `drive_failed_start` | `MCDriveBase`, `DriveFailedStart.cfg` | `FailedStartEnds`: **violated** | |
| `panel_late_stop` | `MCNavPanel`, `PanelLateStop.cfg` | `DrivingShown`: **violated** | |

### What they show

*Fuser.* Depth used in a published scan is at most `depth_stale_timeout` old when the
timer judges it, plus what the clock was set back; without a setback that is the promise
of `scan_fuser.yaml:53`. The timer uses the bins and the time it copied together. Stamps
on `/scan_fused` increase strictly, even when publishing throws and when the clock goes
back; the price is silence until the stamps catch up, which a scan made more than the
setback after the last published one ends (`SilenceBounded`). All in all the node
implements `FusedFeed`: no obstacle is lost or made up, no scan comes twice, no depth is
older than the one before. The throttle never adds up to a blackout. Every scan taken is
published, or a later one is, even when a cloud is processed for ever on a host with one core,
because the executor has two threads. The exception is a clock set back by more than the time between
two scans: a scan that waits for the timer is overwritten by one with an older stamp, which
may be behind the gate (`HeldBack`).

*Drive base.* Turning wheels were commanded within
`StopDelay = Timeout + (faults + 1) * (MaxSetback + 1)` ticks. A silent commander's
commands still in the queue each open that window again, hence
`QueueDepth + StopDelay` from its last command. An orderly exit leaves a wheel
turning only if two transmissions were lost. Odometry counts every pulse once over
failed reads and relaunches, as long as the position register stays below half
its range. Limiting to `MAX_RPM` keeps the curve to within truncation.

*Stop script.* With at most one lost transmission no wheel turns at the end if the SIGINT
reached the navigation or the bringup: a navigation that commands to the last does no harm if
the bringup obeyed, nor a bringup that is killed as it runs if the navigation did. If the navigation
obeyed, the watchdog has acted before bringup is interrupted, as the script's comment says. If
neither did, SIGKILL may end a commanded bringup, and the wheels keep turning.

*Panel.* Stop ends every goal that was executing when its request went out,
whoever sent it. The page follows the server's flag; the flag follows the robot
as long as neither `send_goal` nor `cancel_goal` guesses (next section). A drag
on the map is sent as drawn while other requests are awaited, unless the answer
to one arrives while it is held.

*Resampling.* Sectors written in any order, across the back, beyond half a turn
or wider than a turn mask what they span; every kept return is in its
nearest bin at its range or nearer; no bin is invented.

*LiDAR driver.* Whenever the event lets a grab through there is a scan, which is what the
assertion at `sl_lidar_driver.cpp:322` says. An undisturbed scan is
one whole revolution of one session. Where a capsule was spoiled there is a gap; a spoiled sync
capsule merges two revolutions, and only such a scan overflows the buffer, whose last entry is then
overwritten. All this unless a question took the answer to an earlier one. Scans come in order, none more than twice (twice does happen: the event of a scan
that replaced another before it was copied stays set). A completed scan is published in the
end, or a later one is. A question takes its own answer as long as no earlier one
timed out before its answer came; else one that is behind by no more than the questions given up.

*Depth camera driver.* As long as no unplug is heard during a start, the camera never
has two users, the driver's picture of the camera is right whenever it has heard
everything, and a camera plugged in for good is streamed from in the end. The exception
is real, see below.

*Lamp.* Blinking is even for every time, a fade never exceeds the requested
brightness, and a fade whose step reaches a hundredth goes fully up and down.

### Findings (the two violated runs)

1. `drive_failed_start`: after a failed start-up the messages say "Shutting down.",
   but the constructor returns and `main()` spins an empty node for ever
   (`bringup.py:241`).
2. `panel_late_stop`: `cancel_goal` writes `False` after its request went out and may
   overwrite a newer status; a driving robot is shown idle with Stop disabled
   (`nav2_web_server.py:388`).

Met while modelling, without a run:

- Panel: `send_goal` writes `True`, and no status follows a rejected goal, although the
  comment at `nav2_web_server.py:343-345` counts on one: the page shows a resting robot as
  driving (`RestShownUnlessSent` therefore excludes it).
- Map: a drag held while the answer to an earlier request arrives is dropped; the answer to a
  goal undoes a pose mode picked meanwhile; and a press beside the map released on it during an
  awaited request sends the same start again (`index.html:1038-1050`).
- Lamp: with a time above a second the step of the fade is truncated to 0 and the lamp stays
  dark (`main_node.cpp:137`; `FadesUpAndDown` is about the other times).
- With a clock that can be set back both timeouts (depth, watchdog) stretch by the setback.
- Fuser: `scan_fusion_design.md:171` dates the depth by its cloud's stamp; the code dates it by the
  commit, when the processing ends, and so does `PublishedDepthFresh`.
- Depth camera: an unplug heard during a start clears `device_connected_` before the start
  sets it. The driver then holds a dead camera as connected and never looks again, even
  when it is plugged in anew (`raced` in `AstraCamera`). Starting a stream may throw while
  the transforms' thread of the unfinished node runs, which ends the process (`died`).
- LiDAR driver: the result of opening the channel is shadowed, so `openChannelAndBind` always
  succeeds and the branch for a port that cannot be bound is never taken
  (`sl_async_transceiver.cpp:204`); the loop is entered even if `startScan` failed; `start_motor`
  answers true although it failed; after a spoiled capsule with the sync bit two
  revolutions are merged into one scan, against `sl_lidar_driver.h:421-422`. Nothing on the
  line tells one answer from another of the same type, or one session's header from the next one's. After
  four late answers in a row each question takes the previous one's answer, the header of an earlier
  session is taken for the new one's, and a capsule that is dropped as a late answer leaves an unmarked
  gap in a scan; this is why `ScansWhole` is about runs in which no answer was mistaken.

### Bounds, and why they are enough

- `fuser`: three ticks, a throttle period of one and a timeout of 0 (fresh within the tick): depth
  ages out, a clock step makes it fresh again, the throttle drops and takes, and a
  queue of two overflows. The clock is right or two ticks behind, twice the time between two
  scans: after a step the stamps of new scans are equal to the last one's or less. One frame of nine bins meets every pair of LiDAR and depth
  return among too near, within, too far and none. `HwThreads = 1` is the worst host.
- `drive_watchdog`: two launches, so that motors left turning by a kill meet
  a new start; two losses, the number at which an orderly exit may fail; eleven
  ticks, beyond the largest delay the properties allow (`QueueDepth + StopDelay`
  is 9 here), so that a breach would show. `VIEW WithoutOdometry` joins states that
  differ only in odometry: `SkipOdometry` is always possible and no odometry
  variable guards a step or occurs in the properties of the run, so nothing is cut
  off. `StopScript.cfg` uses the same view with the script's variables.
- `drive_odometry`: wheel goals of -1 and -3 (a raw command of -4 and -12, so the
  limit bites and the wheels differ and are mirrored), four ticks, a lost
  transmission, a setback and a relaunch; `Half = 64` is not reached.
- `stop_script`: a pause of six ticks for a timeout of one; the real ratio is two
  seconds to half a second at 30 Hz. Clock setbacks are left to `drive_watchdog`.
- `panel`: one goal of the page and one of another client, two threads, two
  polls (the smallest number that can overtake), one Stop, one crash.
- `map_click`: four gestures: one awaited, one held, one beside the map and one more.
- `resample`: a circle of 12 units, three bins of four: every sector with ends in
  -14..14, rays in either direction.
- `lamp`: every mode, bright, dim and dark, times 0, odd, long and longest.

- `lidar`: three capsules to a revolution and a buffer of as many, so that a whole scan fits and a
  merged one overflows it; eight positions, hence a whole scan after any first
  position and two after the first bearing; two messages on the line, so that an old one can wait behind a new one;
  one fault, one late answer, one service call, so that there is a restart in mid-scan.
- `astra`: three plugs: the node that is taken down, the one being started, and the
  next; two failures: one at the opening and one at the set-up of the same plug.

### Fairness

- Fuser: weak fairness of the timer's snapshot (the executor always has a thread
  for it) and strong fairness of publishing (a publish does not fail for ever). Nothing
  is assumed of the cloud group: that is the point of `FreshScanPublished`.
- Drive base (only for `FailedStartEnds`): callbacks, start-up and shutdown go on.
- Panel: threads run, polls are asked and answered, the action server handles what it
  is sent and finishes goals being canceled. No click and no end of a goal is assumed.
- Map: an awaited request is answered or fails.
- Lamp: its timer goes on.
- LiDAR driver: both threads run and the device obeys commands. That it measures is
  not assumed: a device at rest completes no scan.
- Depth camera: the query thread, the listener and the node's threads run (OpenNI and the
  operating system schedule them); that operations on a camera that is there do not fail for ever is
  `MaxFails`. Plugging in and out is never forced.

`CHECK_DEADLOCK FALSE` where `MaxTime` or a finished script or process really ends
the model.

## 4. Proofs

All theorems hold for every value of the constants that satisfies the modules'
`ASSUME`s (`RangeAssumption`, `FrameAssumption` and `TimeAssumption` of
`ScanFuser`, `DriveAssumption`, `PauseAssumption`, `GridAssumption` and `InputAssumption` of `ScanResample`,
`RequestAssumption` and `UndefinedAssumption` of `Lamp`, `LidarAssumption`,
`CameraAssumption`, `BoundAssumption` of `MapClick`), the bounds on time and faults
included. `OdometryCounts` and `VelocityIsPlausible` assume `NoOverflow` as
well: `MaxRpm * MaxTime < Half`, so that no position register leaves its range. `WatchdogActsFirst`
and `ScriptStopsSafely` assume `LongPause`: the script's pause outlasts the command queue and the watchdog, lost
stops and clock setbacks included (the script waits 2 s; queue, timeout and a lost stop take
less than 1 s; the run has 6 > 5 ticks).

| Module | Theorem | States |
|---|---|---|
| `ScanFuserProofs` | `TypeCorrect` | `TypeOK` |
| | `StampsStrictlyIncrease` | `StampsIncrease` |
| | `DepthIsFresh`, `DepthWithinTimeout` | `PublishedDepthFresh`, and the configuration's promise when `MaxSetback = 0` |
| | `ThrottleBounded` | `ThrottleBlackoutBounded` |
| | `ObstaclesKept` | `FusionKeepsObstacles` |
| | `FuserImplementsFeed` | `Spec => Feed!Spec` (the refinement `ImplementsFusedFeed`) |
| | `SilenceEnds` | `SilenceBounded` |
| `ScanResampleProofs` | `TypeCorrect`, `ResamplingExact` | `TypeOK`, `BinsExact` |
| | `RaysNearBins`, `MaskIsExact` | `BinNearest`, `MaskExact` |
| `DriveBaseProofs` | `TypeCorrect` | `TypeOK` |
| | `WatchdogStops`, `SilentCommanderStops`, `OrderlyExit` | `StopsInTime`, `SilenceStops`, `OrderlyExitStops` |
| | `CurvePreserved` | `CurveKept` |
| | `OdometryCounts`, `VelocityIsPlausible` | `OdometryExact`, `VelocityPlausible` |
| `StopPinkyProofs` | `ScriptIsDriveBase` | `SpecScript => Spec`: the robot with the script implements the drive base |
| | `ScriptStopsSafely`, `WatchdogActsFirst` | `SafeStop`, `WatchdogBeforeInterrupt` |
| `LampProofs` | `TypeCorrect`, `FadeBounded`, `BlinkEven` | `TypeOK`, `NeverBrighter`, `EvenBlink` |
| `LidarDriverProofs` | `TypeCorrect`, `ScanIsThere`, `PublishedInOrder`, `AnswersAreMatched`, `ScansAreWhole` | `TypeOK`, `ScanBehindEvent`, `ScansInOrder`, `AnswersMatch`, `ScansWhole` |
| | `NoWakeUpLost` | `ScanSignalled`: the safety behind `ScansDelivered` |
| `AstraCameraProofs` | `OneUserOfCamera`, `BeliefIsTrue` | `OneUser`, `BeliefTrue` |
| | `NeverOverlooked` | `CameraListed`: the safety behind `CameraComesBack` |
| `PanelProofs` | `PoseOnce`, `DragIsSent` | `SinglePose`, `DragSent` |
| | `ServerSeesDriving`, `ServerSeesRest` | `DrivingTold`, `RestTold` of `NavPanel`: the safety behind `DrivingShownUnlessStopped` and `RestShownUnlessSent` |

The inductive invariants:

- *Stamps* (`GateInv`): the last message's stamp is the gate's, and a scan in the
  timer's hands is newer than the gate. Only the single timer thread moves the gate, so
  the test at the snapshot still holds at the publication.
- *Freshness* (`AgeInv`, with `TakenAt`): every node time that was recorded lies within
  `MaxSetback` behind the real time it was recorded at. The difference of two node
  times is then an age up to one setback, wherever the copy has travelled.
- *Watchdog* (`WatchdogInvariant`): the timer's next call is at most a tick after now
  and now at most `MaxSetback` after it; and while a wheel moves, the next call is no later than
  the last command plus the timeout plus what lost stops have cost. `StopsInTime`
  alone is not inductive: it does not say when the next chance to stop comes.
- *Silence* (`SilenceInvariant`): a queue of n commands needs at most n ticks, so
  the time of the last command handled is within the queue's depth of the last sent.
- *Exit* (`ExitInvariant`): a wheel turning between the two transmissions of
  `terminate()` has missed one already.
- *Script* (`ScriptInv`, `RestInv`): a process that is not up or in an orderly exit has given
  still wheels no goal, `terminate()` is over before the second pause is, and only then does the script go
  on; while it waits for a navigation that obeyed, the last command ages with it, or the
  node has only come up meanwhile and has neither command nor goal. So a bringup that did not get
  its SIGINT has still wheels by then, and SIGKILL leaves them so.
- *Curve*: no invariant but arithmetic. `Cross` and `Truncated` bound what scaling and truncation
  do to the cross product of goals and raw goals, from which `GoalKeepsCurve` follows.
- *Resampling* (`ParsedFirst`): no ray is handled before the mask is complete. Otherwise a
  sector parsed late would hide a ray that is already in its bin; `KeptUnchanged` then says
  that what was kept stays kept.
- *Lamp* (`PhaseCounted`): while the lamp blinks the index counts the ticks of the phase
  and is within the time asked for; for this each request must restart the index.

- *Refinement* (`ScanOrder`, `DepthOrder`): along the path callback, shared data, snapshot,
  publication the real times never decrease, and stamps follow them to within a
  setback; this is what makes every publication a `Publish` of the feed.
- *Sectors and bins*: no invariant but arithmetic. `NormAngleTurns` says that normalising adds whole
  turns, `NearestBin` and `SectorSpansArc` carry that over to the bins and to each way
  a sector can lie.
- *Odometry* (`OdometryInv`): a wheel's true position is bounded by motor speed times time
  (`PosBounded`), so a register read is the position (`ReadTrue`) while it does not overflow; what
  lies between two reads is bounded by the real time between them (`TravelBounded`).
- *Scans* (`GrabInv`): `ScanBehindEvent` with the numbers of the collected, available
  and published scans; how often the newest was published and how often it still can
  be (event set, grab under way) add up to two at most.
- *Answers* (`QuestionInv`): neither the device nor the line changes the order of questions and
  answers (`Before`), and the oldest that is still under way is behind the last question asked by no
  more than were given up (`Oldest`); so the stored one is too.
- *Whole scans*, in two layers. `PlanInv`: a call ends with its scan command, and passes a failed
  question for device information only if it asks again. So the last such question before a scan
  command was answered, and as an answer comes after all the device sent before (`Waits`), nothing
  of an earlier session is under way from that answer to the scan command. So the header that puts the decoder into loop mode is the
  new session's (`Started`), and in loop mode the line holds the session's last capsules in order.
  There the cached capsule is the one before the next, and follows the node collected last
  (`Linked`); without a cached one, a capsule was spoiled since that node. Hence every node that is
  stored follows the last one (`WholeInv`). A revolution fits in the buffer, so a scan that
  overflows it is longer than one and a sync capsule was spoiled in it (`Chained`).
- *One user* (`OneUserInv`): a start finds nothing connected, since `device_connected_` is cleared
  last of all; hence, unless an unplug is heard during it, it has the listener idle and no node to destroy.
- *Belief* (`BeliefInv`): a belief that is out of date has an unplug still to be heard.
- *List* (`ListInv`): plugs and unplugs alternate, so what the listener has not heard yet ends in how
  the camera is now; a call that takes the camera off the list has the next plug still behind it.
- *Drags* (`HeldInv`): from press to release the drag is under way and its start is that press,
  as long as nothing awaited came back.
- *Flag* (`ToldInv`): the status message that waits for the bridge, or its flag when none
  waits, agrees with the robot. `Guesses` makes that inductive: without a click on Stop no thread is
  about to write `False`, and without a goal from the page none is about to write `True`. What remains
  for TLC is that messages and polls arrive.

`DrivingTold`, `RestTold`, `ScanSignalled` and `CameraListed` are not listed in a run: each is
what the liveness property beside it needs of every state, and holds in the states of that run.

Only model-checked: liveness (`FreshScanPublished`, `PanelSettles`, `ScansDelivered`,
`PreviewEnds`, `FadesUpAndDown`, `CameraComesBack` and the like, out of the prover's
reach), which is all that the runs of `NavPanel` check.

## 5. Not modelled

- The point cloud filters, except as a choice of outcomes; rounding of doubles;
  parameter clamping in `loadParams`.
- Trigonometry and covariances of the odometry; joint states; battery warnings.
- Encoder overflow: the code does not wrap the difference of two readings, so a step
  would be off by the whole range after 2^31 pulses (some 88 km); the runs stay below.
- How old a cloud is when it arrives: the commit dates it at the end of processing.
- Panel: maps, costmaps, poses and drawing; the SLAM buttons, which only send a request; a
  second pointer.
- The lamp's destructor and the simulator's lamp plugin.
- LiDAR driver: spurious wake-ups of the event's wait; the race on a decoded message that is overwritten
  while it is read; errors of the channel and an unplugged adapter; the other
  capsule formats and the network transports; the handler's `static` sync bit and its
  threshold on angle gaps, abstracted to "bearing 0 begins a scan"; whether the motor is
  controlled by DTR or by command; distances and angles; the conversion to a `LaserScan`.
- Depth camera driver: the services; frames, transforms and parameters
  (`publish_tf` is taken as true, its default); several cameras and their semaphore
  and shared memory; the factory's destructor; undefined behaviour of two
  simultaneous resets of `ob_camera_node_`, which needs the excluded race.
- IMU, LED, emotion, ADC and battery nodes (see their components' notes); launch files.

The repository's line count is dominated by third-party headers and by code for other
platforms (a JSON library, OpenNI's headers, `magic_enum`, the SDK's Windows and macOS
layers and the handlers of capsule formats this LiDAR does not send), of which the
robot's nodes run little or nothing. The models cover the control of what runs on the
robot, a small share of those lines.

## 6. Plan

Done, in this order: `ScanFuser`, `DriveBase`, `StopPinky`, `ScanResample`, `NavPanel`,
`Lamp`, `MapClick`; then `FusedFeed` and the refinement, `LidarDriver`, `AstraCamera`,
and the proofs above. Next:

1. `DepthPath`: the stages of `processCloud` over a small set of points (gates by
   tier, ground removal, binning by nearest), so that `DepthFrames` is derived.
2. `ImuNode`: bounded retries, the timer started without fusion mode, ignored read results.
3. Display services: partial failure in `led_server`, the lock of `emotion_server`; the
   simulator's lamp plugin as a second instance of `Lamp`.
4. `Params`: clamping in `loadParams`, and that it establishes the `ASSUME`s of `ScanFuser`.
5. Proofs: the safety behind `FreshScanPublished`, `StopEndsAll` and `PanelSettles`.
