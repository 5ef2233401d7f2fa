# Verification of the flight stack

TLA+ models, TLC runs and TLAPS proofs for the quadrotor software of this workspace: a Livox MID-360
driver, FAST-LIO odometry, a pole detector, and the mission node that flies a PX4 autopilot through MAVROS.

Contents: [the system](#1-the-system) · [plan](#2-plan) · [modules and code](#3-modules-and-the-code-they-model) ·
[runs](#4-runs) · [findings](#5-findings) · [proofs](#6-proofs) · [limits](#7-what-is-not-shown)

## 1. The system

`launch/bringup_all.launch.py` starts everything. Data flows in one direction:

```
MID-360 --SDK threads--> livox_ros_driver2 --/livox/lidar, /livox/imu--> FAST-LIO --/Odometry--> odom_to_pose_node
                                        \--> livox_to_pcl --> pole_detection                             |
launch_flag --/offboard/launch, /task--> offb_node <--state, local position-- MAVROS <--vision pose------+
                                         offb_node --setpoints, set_mode, arming--> MAVROS <--> PX4
```

| Component | State it keeps | Operations | How it interacts | What is hard | What makes it correct |
|---|---|---|---|---|---|
| Flight node `offb_node` (`test_task_controller.cpp`, `base_controller.cpp`) | flight state, waypoint index, warm-up counter, "request sent" flags, the last telemetry | 100 ms timer; state, position, launch and task callbacks; replies of three services | asynchronous service calls to MAVROS, topics | replies that are late, refused or lost; telemetry that is stale; emergencies in any state; a pilot who takes over | one call at a time, retries, disarming only at the end, mission order, an emergency that wins |
| Stuck protection, waypoint compression (same files) | clock and last position; none | called from the mission; not called at this commit | calls | a clock that two functions set; a route that turns back on itself | "stuck" means it has not moved; the compressed route passes every waypoint |
| Odometry bridge `odom_to_pose_node` | offset samples, last pose | odometry callback, 100 ms timer | topics | republishes old data with a new stamp | a pose is not sent before the offset is known, and is the newest |
| Driver, handshake (`livox_lidar_callback.cpp`, `lds_lidar.cpp`, `cache_index.cpp`) | one bit per option, connection state, index table | announcement, one answer callback per request | SDK thread, requests to the lidar | answers in any order, timeouts, refusals, repeated announcements, full index table | samples only when configured; forgets no option; ends |
| Driver, packets (`pub_handler.cpp`) | raw queue, points and parameters per lidar, two clocks | SDK callback, worker thread, start and end | two threads, a condition variable | two ways to cut a frame that alternate, lost packets, the end of the thread | every packet in exactly one frame, frames no longer than the interval allows |
| Driver, frame queues (`ldq.cpp`, `lds.cpp`, `semaphore.cpp`, `lddc.cpp`, `driver_node.cpp`) | a ring per lidar without a lock, one semaphore, two exit flags | push, poll, publish, destructor | two threads and the destructor | wrap-around, lost wake-ups, shutdown while waiting | rings are bounded queues; no frame is stuck |
| Driver, IMU queue (`lidar_imu_data_queue.cpp`, `lds.cpp`, `lddc.cpp`) | a list per lidar, one semaphore | push, poll, publish | two threads | the count read without its lock | the last sample is published too |
| Driver, routing (`cache_index.cpp`, `lddc.cpp`) | index table, handle and topic per entry | enter, store, label, publish | callbacks of the SDK, poll thread | a label read long after the frame was stored | a frame keeps the lidar it came from |
| FAST-LIO, pairing (`laserMapping.cpp`, `IMU_Processing.hpp`) | deques of scans, stamps and samples; the package under construction; the filter's clock | two sensor callbacks, 10 ms timer | topics, one thread | boundaries, packages without samples, clocks that step back | each scan has its stamp and its samples; time is counted once |
| FAST-LIO, preprocessing (`preprocess.cpp`) | clocks of the lines, marks of the points | one handler per lidar, extraction of features | called from the sensor callback | times computed from an angle; four passes over the same marks | the time of a point; which run a surface point stands for |
| FAST-LIO, filter (`esekfom.hpp`, `laserMapping.cpp`) | state, covariance, matches | prediction, iterated update | calls | matches of an older pose, turns without a match | a scan counts through fresh matches |
| FAST-LIO, map (`laserMapping.cpp`) | a cube, the tree | move, delete, add | calls | a margin, a cube too small for it | the map is around the lidar |
| FAST-LIO, outputs (`laserMapping.cpp`) | the map of clouds, the last messages | package timer, map timer, save service | topics, one thread | the state and the cloud of different packages | a cloud is placed by its own state |
| Pole detection (`livox_to_pcl.cpp`, `pole_detection.cpp`) | list of poles with identity and lost count | cloud callbacks, timer | topics | association, ageing | an identity names one pole and is never given twice |
| launch_flag, bringup, msg_tool, PD control, hover, rapidjson, matplotlib, mtk | little or none | - | - | - | - |

Every component, with the reason when it is not modelled, is listed in `PROJECT.json` under `components`;
the forty places where the code is hardest to test are listed, at their lines, under `hazards`, with the
properties that cover them. Section 7 names the lesser ones.

## 2. Plan

The order is that of the harm an error would do.

1. **The flight node** (done): `Mission` (abstract), `Offboard`, `OffboardProps`, `MCOffboard`, `OffboardProofs`.
2. **Frame queues of the driver** (done): `Conveyor` (abstract), `LidarStream`, `LidarStreamProofs`.
3. **Handshake of the driver** (done): `LidarSetup`, `LidarSetupProofs`.
4. **Pairing in FAST-LIO** (done): `LioSync`, `LioSyncProofs`.
5. **Poles** (done): `PoleTracker`.
6. **The rest of the driver** (done): `PacketHandler`, `ImuStream`, `FrameRoute`, `MCDriver`, `DriverProofs`.
7. **The rest of FAST-LIO** (done): `ScanFilter`, `FeatureExtraction`, `FilterUpdate`, `LocalMap`, `LioOutputs`, `LioScanProofs`.
8. **Around the flight node** (done): `OdomBridge`, `StuckProtection`, `WaypointCompression`, `CompanionProofs`, which is about the poles too.
   `MCCompanion` runs 5, 7 and 8.
9. Left: one model from the odometry over the bridge to the flight node, for the age of the pose the autopilot flies by; and the
   four hazards without a property.

Modules that compose: `OffboardProps` instantiates `Mission` under a refinement mapping, `LidarStream`
instantiates `Conveyor`. `LidarSetup`, `LidarStream`, `ImuStream` and `FrameRoute` share `connect_state`: the first shows when it becomes
sampling, the others let that happen at any moment, so that what they show holds with the handshake too. `LioSync`
makes packages, and `FilterUpdate`, `LocalMap` and `LioOutputs` take any sequence of them. `MCDriver` and
`MCCompanion` only put parts side by side for TLC: each behaviour runs one part, the parts share no variable.

Constants are parameters with named assumptions, each operation is one action, an invariant is a conjunction of
named parts, and no module declares a RECURSIVE operator. A definition `Faulty_d` is `d` with a plausible
mistake; no action uses it. It records which mistake the properties would notice.

## 3. Modules and the code they model

`PROJECT.json` maps every definition to its lines. Names are the source's where TLA+ allows it.

### Offboard: the flight node, MAVROS and the autopilot

`rclcpp::spin` runs one callback at a time, so a callback is one atomic action. What interleaves is the world.

| In the model | In the code |
|---|---|
| `TickWarmup` ... `TickLand` | `TaskController::timer_callback`, one action per way through `check_task_switch_conditions` and the switch |
| `Execute`, `execute_waypoint_mission`, `tilt_land`, `land` | the step of a flight state, called in the same tick after the state was settled |
| `arm`, `engage_offboard_mode`, `auto_land` | the service calls; `wait_for_service` fails while MAVROS is away |
| `set_mode_callback`, `arm_callback`, `disarm_callback` | the callbacks of the replies |
| `vehicle_state_callback`, `local_position_callback`, `launch_callback`, `task_callback` | the subscriptions |
| `modeRequests`, `armRequests`, `offboardReplies`, `armReplies`, `FcuSetMode`, `FcuArm`, `FcuOwnChange`, `MavrosCrash`, `MavrosRestart`, `Fly` | external: what waits in MAVROS, what the autopilot answers, the pilot, a bridge that dies with what it holds |

A tick that enters a state also executes it: the model keeps that, and the two `static` flags of `tilt_land`.
Positions are points in centimetres; the comparisons of the code (fence, thresholds, the 45 degree line) are
computed without the square root, the 0.05 m band around the line included. Velocities, yaw and the PD control
are left out: `setpoint` records which kind of command the last tick sent.

`Mission` is what the ground crew is promised: the phases in order and never back, the waypoints one after the
other, landing only after all of them, a disarm request only in landing. The refinement mapping takes the flight
state, the waypoint index, and "a disarm request is on its way".

### LidarStream: from a completed frame to the publisher

Three threads: `PushLidarData`/`DropFrame`, `GetCount` and `Signal` are the thread of PubHandler in
`Lds::StoragePointData`; `Poll` is `PointCloudDataPollThread` with one action per shared access;
`RequestExit`, `SetValue`, `Join` are `~DriverNode`. The check of the semaphore's count and the signal are two
steps, as in the code. The rings have no lock and their indices are `volatile`: `wrSeen` is what the poll thread
sees of `wr_idx` and may be late until `Flush`. Assumed: stores become visible in program order (x86), and the
compiler does not move the slot's assignment across the volatile store. C++ promises neither: on a processor with a weaker order than x86
`ConveyorSpec` would need barriers that `ldq.cpp` does not have.
Indices wrap at `IndexSpan` (2^32 in the code), a multiple of `QueueSize` as there.

`Conveyor` is the promise: per lidar a bounded first-in first-out queue, each frame taken once. The mapping reads
the ring from `rd_idx` to `wr_idx`.

### LidarSetup: the handshake

`LidarInfoChangeCallback` is one action (it holds `config_mutex_` while it sets the bits), and each answer
callback has one action per outcome: `OptionSet`, `OptionRefused`, `TimedOut`, `ExtraAnswered`, `WorkModeChanged`,
`Resent`. The four option callbacks differ in their bit only and are one action with a parameter. The SDK is
external: it answers every request, in any order, with success, refusal or timeout; a request that timed out may
have been carried out. `Init` ranges over every configuration file, those with more lidars than indices included.

### LioSync: scans, samples and the filter's clock

`livox_pcl_cbk` (`standard_pcl_cbk` has the same effect here) and `imu_cbk` are the sensor callbacks;
`NoPackage`, `Waiting`, `FirstScan` and `Package` are the ways through `timer_callback`, each with the whole of
`sync_packages`, and `Package` with `Process` (`IMU_init` or `UndistortPcl`) and the map. A scan is a number, a
stamp and a length, a sample its stamp. `Step` is the `dt` of one pair of samples, `predicted` the sum that
`UndistortPcl` feeds to `kf_state.predict`, `odometry` which scan was published under which scan's stamp. The mean of the scan
lengths is any value between the old mean and the new length. `last_lidar_end_time_` is read uninitialised when the first
scan is undistorted: `Init` gives it a value below or above every stamp. A scan may begin before the last
one's end, which is more than a lidar does. `time_sync_en` is false, as in the configuration of the MID-360.

### PacketHandler: from a packet to a frame

`InitLivoxLidar` is the start in its four steps, between which packets already arrive; `OnLivoxLidarPointCloudCallback` and
`OnImuPacket` are the SDK's thread; `TakePacket` with `CheckTimer` is a turn of `RawDataProcess`, `WaitForPacket` and
`WaitFor` its wait, `Uninit` the end. A packet is its number, its stamp and whether it was converted with
its lidar's parameters. Both ways to cut a frame are there and may alternate: `is_timestamp_sync_` is one flag for
all lidars. Packets may be lost, and the worker may be late by `MaxQueue` packets; in the code the queue has no limit.

### ImuStream: a sample from the SDK to the topic

The thread of the SDK reads emptiness, count and signals in three steps, as `StorageImuData` does; the poll thread waits, walks
over the lidars and empties their lists. The lists are locked and have no limit (bounded here), the semaphore is that of the frames.

### FrameRoute: which lidar a frame is attributed to

The entries of `lidars_`, the index cache, and the labels. A frame carries the lidar it came from; `StoragePointData` finds
the entry, the poll thread takes the frame and reads the label from the entry in a later step. The three formats of
`PollingLidarPointCloudData` are there; the one of ROS 1 takes nothing.

### OdomBridge, StuckProtection, WaypointCompression

`radar_cb` and `timer_cb` are the two callbacks of the bridge; the heights are sums, so that the mean stays a whole
number, and the pose in the plane is left out. `StuckProtection` is `check_position_stuck_protection` on the ticks of a
route, with the node's clock and the default time that cannot be subtracted from it: the exception is the end of the behaviour.
`WaypointCompression` is one turn of the loop per step (`KeepPoint`, `MergePoint`), then `CloseRoute`; the result is compared
with what a vehicle passes that flies it.

### PoleTracker: the poles of the list

`custom_msg_callback` filters a cloud, `processPointCloud` is the timer. A cluster is its place on a line and its height and
thickness; `Taken` is the association, each pole after the other, `Smoothed` the low-pass filter of a position, and the list is a set of
poles, since it is always in the order of the ids.

### ScanFilter and FeatureExtraction: preprocessing

One step is one turn of a loop. `ScanFilter` has the handlers of `Preprocess::process` with what they keep and which time a point gets,
`TimedPoint` with the yaw where the message has none. `FeatureExtraction` has the four loops of `give_feature` over a
line; what distances and angles say is chosen freely, so that every way through the loops occurs. The indeterminate length
of a group (`disB` is never set) is one of these choices.

### FilterUpdate, LocalMap, LioOutputs: the filter, the map and what is published

`FilterUpdate` is the loop of `update_iterated_dyn_share_modified` with `h_share_model` in it: which planes are searched again, when
the loop ends, when the covariance takes in the scan. The state is counted by its corrections. `LocalMap` is the cube of
`lasermap_fov_segment` in whole numbers (`HalfRange` and `Slack` scale `det_range` and `cube_side_length` so that no
fraction is left), what its moves delete, and `map_incremental` per voxel. `LioOutputs` is the rest of `timer_callback` with the map timer and
the save service; clouds and states are the numbers of their packages. That the odometry goes out with the covariance
of the update before is in the model (`publish_odometry`) and is not a property of it: nothing says otherwise.

## 4. Runs

| Run | Question | Bounds |
|---|---|---|
| `offboard_safety` | Is the node safe with refusals, a pilot who interferes, a MAVROS crash and positions that jump anywhere? | nine positions, warm-up 1, queue 2, one crash |
| `offboard_live` | Does a mission end, and is arming retried, when the vehicle flies where it is told? | seven positions, no crash |
| `offboard_emergency` | Does the emergency have the last word over a late OFFBOARD, and a launch that is taken back over a late request? | four positions, one crash |
| `offboard_gap`, `offboard_lost_reply` | findings 1 and 2 | as `offboard_live`; one crash |
| `stream_live` | Is every frame published, does the destructor end? | two lidars, one slot, index span 2 |
| `driver` | Ring: is it a bounded queue? Packets: is each in one frame, in order, and does the thread end? IMU: is the last sample published? Route: does a frame keep its lidar? | one lidar, two slots, span 8; two lidars, three packets, four milliseconds; two lidars, two samples waiting; three lidars and entries, two in the file |
| `route_topics` | finding 4 | three lidars, one of them in the file |
| `lidar_setup` | Does the handshake configure, forget nothing, end? | two lidars, one index, two options, two announcements each |
| `lio_sync` | Are scans and samples paired, is time counted once, is every scan processed? | four scans, stamps 0 to 6, two scans waiting |
| `lio_loop_back` | finding 3 | as `lio_sync`, clocks may step back |
| `companion` | Nine parts, one per behaviour: identities, heights, routes, stuck detection, map, matches, clouds, times of points, runs of surface points | seven clouds and four ids; six samples; seven ticks; walks of up to six cells; a plane 12 wide; three points and turns; four packages; four points per scan; lines of three and nine points |

Why the bounds are enough to meet the hard cases:

- *Offboard.* The positions contain each side of every comparison: below and above the touch-down and disarm
  heights, on the 45 degree line, every waypoint, beyond the fence both sideways and upwards. Two queued requests are what is needed to have OFFBOARD behind
  or before AUTO.LAND, and a full queue that loses one. One crash is enough to lose each request, and each reply,
  once; a second one meets the same states. The warm-up of 50 is 1: the comparison is the same.
- *Rings.* An index span of four rounds wraps both the slots and the indices within a run; two
  values of a frame show any overwriting, and a ring that keeps one slot less than it has. Two lidars make them share a token in `stream_live`. `MaxBurst` bounds how many frames come
  while one lidar is polled: in the code the inner loop also ends only because frames are rare.
- *Packets.* An interval of two within four milliseconds lets a frame miss its multiple once, and a clock be synchronised and lost in
  the middle of a frame; a queue of one is enough for the worker to be late.
- *Handshake, routing.* Two options are the least for a last bit; two lidars with one index the least for a lidar without
  one; two announcements give answers of an older one. Three entries hold two lidars of the file and one that is not.
- *LioSync.* Four scans are one to look at, one to initialise, and two undistorted ones, the least for a time
  between scans; stamps to 6 leave room for a sample gap that straddles a scan's end (a model with stamps to 5 reaches no such state).
- *Poles.* Two poles near enough to dispute a candidate, one beyond the association, a wall that is none, and empty clouds
  until a pole is forgotten; four ids let one be found after another was lost.
- *Routes.* Six cells are the least for a line long enough to keep its middle, with a corner or a U-turn behind it.
- *Stuck.* Seven ticks hold a detection (three) and a second one after a waypoint.
- *Map, filter, outputs.* The lidar can cross the cube and come back; three turns are a first, a middle and a last one; four packages are one that builds the map,
  an empty one, and one on each side.
- *Preprocessing.* Four points of two lines turn past one revolution of a line; a line of nine points has five full groups, and one of three none.

**Fairness.** `Offboard`: the executor runs what is ready and the timer keeps firing, MAVROS restarts and answers,
telemetry keeps coming; a request repeated for ever is granted in the end (strong fairness of acceptance, because
it may be refused any number of times); the vehicle flies to the setpoint it is given. Nothing is assumed of the
pilot or of the launch command. `LidarStream`: threads run, store buffers drain, every lidar keeps sending (strong fairness, since its turn comes
only when the storing thread is idle), and a destructor that began goes on. `ExitCompletes` needs those
frames: the poll thread waits for the semaphore without looking at `request_exit_`, so with a silent lidar the
join waits too. `LidarSetup`: every lidar is announced, and a request sent again and again is carried out unless
it is refused. `LioSync`: the timer runs and the IMU goes on sampling; without it a scan waits for ever, as in the code.
`driver`: the worker, the storing and the polling thread run; no packet and no sample is promised, so that the wait of the
worker must end by its time limit and the last sample must be published by its own token.

Deadlock is checked everywhere but in `stream_live`, `driver`, `lidar_setup`, `route_topics` and `companion`, where the system may really stop: after the
destructor, when every request is answered and no lidar is announced again, and at the bounds of the behaviours.

## 5. Findings

1. `offboard_gap`: the tick on which `tilt_land` sees the touch-down publishes no setpoint, against the comment at
   `test_task_controller.cpp:24` (whatever the state, first a setpoint). `SetpointGaps` shows which ticks these
   are, and that there are no others.
2. `offboard_lost_reply`: `apply_arm_flag_` is cleared by the reply only. When MAVROS dies with the call, arming is never requested
   again, against the comment at `test_task_controller.cpp:97`. The same holds of `apply_offboard_flag_`.
3. `lio_loop_back`: a scan stamp that steps back clears `lidar_buffer` and not `time_buffer`, so that from then on every scan is
   processed with an older scan's stamp.
4. `route_topics`: a lidar that is not in the configuration file gets an entry whose handle stays 0
   (`livox_lidar_callback.cpp:54`), and the topic of an entry is named after its handle. Two such lidars publish on one topic, against
   `README.md:147` of the driver. `Attributed` shows that the lidars of the file keep their own.

## 6. Proofs

Every invariant and every action property of the passing runs is proved, for every value of the constants, from the named
assumption of its module (`OffboardAssumption`, `StreamAssumption`, `SetupAssumption`, `SyncAssumption`, `TrackerAssumption`,
`HandlerAssumption`, `RouteAssumption`, `BridgeAssumption`, `StuckAssumption`, `RoutesAssumption`, `FilterAssumption`,
`FeatureAssumption`, `UpdateAssumption`, `MapAssumption`, `OutputsAssumption`; the proof about `ImuStream` needs none). Most of them say that
bounds are numbers and kinds are distinct. Four say more. `TrackerAssumption`: a cloud has finitely many clusters, numbered from 1, at
whole numbers. `RoutesAssumption`: neighbouring waypoints are of different cells, and coordinates are even, so that the middle of
two of them is a pair of whole numbers again, which is a matter of the unit. `StreamAssumption` and `MapAssumption`: see below.

**NumberTheorems.** What the others share. The library's induction takes an operator, which the provers cannot instantiate. Its
well-foundedness of the natural numbers is about a set, however: `SmallestNumber` (a set of numbers has a smallest one) and `SetInduction`
follow from it, and with them everything that is proved here about data of any size. `SumExists`, `SumTakesAny` and `SumOverParts` say
that a fold of + over a finite set is the same sum in any order; `Quotient`, `SmallMultiple` and `RemainderUnique` are about remainders.

**OffboardProofs.** `TypeCorrect` first, by one lemma per group of actions. The invariant `Inductive` is the
conjunction of the types, `RouteOrder` (which waypoint index belongs to which flight state), `WarmedUp`, and the safety properties. Why the
strengthening is needed: `DisarmOnlyInLand` says the route is flown whenever a disarm call exists, and the call is
made in LAND, so one has to know that LAND is only entered with the route flown; that is `RouteOrder`.
`SingleArmCall` and `SingleOffboardCall` are inductive given the types because they also say that a set flag
covers the call from the queue to the reply. Lemmas on queues (`EnqueueRequests`, `TailRequests`,
`AppendAnswers`, `TailAnswers`) say what joining and leaving does to the set of positions of a request; the full queue that
drops its head is the interesting case. `MissionImplemented` maps each step: a tick that enters WAYPOINT and
counts the first waypoint at once is one step of `Mission`, which is why `StartRoute` allows it. From the
invariant follow `ArmCallsSingle`, `OffboardCallsSingle`, `DisarmsInLandOnly`, `GapsAreKnown`, `WarmupFirst`.

Two theorems about disarming need more than `Inductive`. `DisarmFlagIsSound` needs `DisarmInv`: arming calls are ahead of disarming
ones in the queue (arming is requested in INIT only), and a set flag is backed by a call, by a refusal among the replies, or by a
disarmed vehicle that no arming call can arm again. `DisarmCallsSingle` is about an instance without a pilot (`ASSUME ~Pilot`) and needs `OnceInv`: what the node believes of the arming is wrong in one direction only, it still believes
in an armed vehicle after the touch-down, and then the flag is set; so the node asks only an armed vehicle, and for that one a
clear flag means that nothing is outstanding. With a pilot the property is false: the pilot arms the vehicle while an arming call
of INIT is still unanswered and ends the flight; after the touch-down the disarm call queues behind that arming call, the disarmed state
is seen and clears the flag, the late arming call arms the vehicle on the ground, and the node asks a second time.

**LidarStreamProofs.** `TypeCorrect` needs `RingPolled` (a lidar is polled only when its ring is allocated), since
`QueuePrePop` reads a slot. `TokenSingle` holds because only one thread signals and `storing = "signal"` remembers that the count was zero.
`ConveyorImplemented` is the refinement of `Conveyor`, for rings of every size. Its invariant `RingInv` says that no ring holds more than
its slots, that the poll thread sees no frame that is not there (its write index may be late, never early), and that the frame being
popped is still in its slot. Slots are remainders of indices, which wrap: lemmas show that a turn of the indices is a whole
number of turns of the ring (`StreamAssumption`: the span is a multiple of the size) and that indices less than a ring apart have
different slots, so a push never touches a frame that is queued.

**LidarSetupProofs.** The invariant `SetupInv` adds `AskedAreKnown` (requests only to lidars with an index) and
`BitsComplete` (an option that is wanted and whose bit is clear has been carried out, once the lidar was asked).
`SamplingConfigured` needs the second: the last bit may fall by an answer to an older announcement.

**LioSyncProofs.** `SyncTypeCorrect` gives the types, also with clocks that step back. `StampsStayPaired`: while the clock does not step back, every scan has its own stamp. The invariant is
that the two deques have equal length and matching entries; the exception is exactly finding 3. `SamplesAreSplit`: with such a clock
every package has all the samples up to the end of its scan and none behind it, but for one at the end itself. The invariant adds that
the samples that wait are in order and that the last package ended no later than one tick after the newest sample: without
the second a sample could still arrive for a package that has left. `StaleIsExplained` holds with any clocks: scans are numbered as they come, and the
invariant `OdometryInv` says that this order survives the deque, the package, the cloud and the odometry, also when a stamp that
steps back clears the deque under a scan that is already in the package.

`PropagationIsExact`: while the clocks do not step back, the samples of every package move the filter from the end of one scan to the end of
the next, nothing twice and nothing left out. `PropagationInv` adds to the split of the samples where the
filter's own clock stands (`ClockBehind`): not before the last sample it was given, not behind those that wait. The steps of a
package are a fold; `FoldIsSum` makes it a sum, and the sum telescopes: by `SetInduction` its first n steps end at the n-th sample.

**DriverProofs.** `FramesAttributed`: a message goes out under the label of its own lidar, for any number of lidars and entries. `RouteInv`
says that an entry is taken by one lidar and not taken again, and that a frame is in its lidar's entry in the ring, in the
poll thread and in the hands of the publisher; a topic is created once and keeps the name of the entry.
`PacketsAllDelivered` and `PointsConfigured`: a packet that was taken is in a frame, in the cloud or in the queue, once and in order; and
no point is converted before its lidar's parameters are known, because `InitLdsLidar` registers the callback after they are set
(`ConfiguredFirst`). `FramesAreShort`: with all clocks synchronised a frame lasts less than two intervals, and one more for every packet at a
multiple of the interval that was lost. The invariant `SpanInv` says that each point was looked at when it was the last of its cloud. The
bound is a counting argument: a longer frame would need more multiples between its ends than are missing (`MultiplesBetween`).
`TokenBounded`, which no run states: the IMU's semaphore never holds a second token, since only the thread that read the count gives one.

**CompanionProofs.** *Poles.* `IdsStayUnique`: no two poles have the same id, for any clouds and any distance of association. `PoleInv` bounds
every id by the counter; new ids are the counter plus the place of the candidate among the unused ones, and two candidates
never have the same place (`FirstNumbers`). `IdentityIsKept`: a candidate near one pole only is that pole, seen again. The poles choose one after the
other, in the order of their ids; that there is a choice for all of them, and only one, is an induction over the ids.
*Vision pose.* `PosesZeroed`: a pose that is published is the height above the mean of the first samples. `BridgeInv` ties the sum, the
count, the offset and the height that waits for the timer to the samples received so far; the model's fold over the samples is a
sum over their numbers.
*Stuck protection.* `StuckIsSound`: a detection means that the vehicle was near one place for the whole of the waiting time. The property looks back
eight seconds; `StuckInv` says instead that at every tick since the clock was set the vehicle was near the reference place. The clock
starts as another clock's zero, so a first tick near the origin would end the node: in `StuckInit` the vehicle is further
from it than the threshold, as it is when it has taken off.
*Routes.* `RoutesCovered`: the compressed route passes every waypoint of the original, in its order, for any route. `CompressInv` is the
invariant of the loop: what lies before the last waypoint kept is covered, and what lies behind it is straight and does not go back. With a
corner the straight part becomes one leg, or two with the middle of a long line. The geometry is in lemmas: the cross product
of vectors that are parallel to one direction, the order along it, and that a point between two others on a line is on the leg between them.

**LioScanProofs.** *Times.* `TimesRight`: a point whose time comes from its yaw has the time since the first point of its line, and one with
a time of its own keeps that; for scans in which a line lasts less than two turns. `FilterInv` needs the clock of each line that has begun
(`LineClock`): the angle is known but for whole turns, and the one turn that is added is the right one as long as two points of a line are
less than a turn apart. *Features.* `RunsOfSurface`: the runs are exactly the surface points outside the blind range, in order,
each no longer than the thinning allows. `FeatureInv` keeps the marks of the first passes and, while collecting, the open run.
*Update.* `MatchesAreFresh` follows from `UpdateInductive`: while every turn had a point, the state counts the turns, so that in the last
turn the forced search has just been made, unless a small correction already asked for one.
*Local map.* `MapStaysAround`: the cube keeps one and a half times the range around the lidar and holds every point of the map. It is arithmetic about one axis
(the moves gain more than a step loses) and a set argument about what is deleted and added. `MapAssumption` is needed: the cube is
at least three and a half times the range, and a step between scans at most half of it. `mid360.yaml`, which the launch file takes, has 1000 and 100; the
defaults of the code (200 and 300) and `avia.yaml` (1000 and 450) do not satisfy it, and with them the two sides' margins overlap.
*Published map.* `MapIsPlaced`: a cloud that enters the map is placed by the state of its own package or of a later one with only empty
scans in between. The invariant relates the package, the state and the last cloud that was not empty.

`UpdateInductive`, `WarmupFirst` and `TokenBounded` are stated for their own sake, and the type invariants of `LidarSetup`, `LidarStream` and `LioSync` are proved and
no longer checked by a run. Model-checked only: liveness, because fairness and ENABLED are beyond the prover, that is `MissionCompletes`,
`ArmingRetried`, `LaunchRevoked`, `EmergencyLands`, `SetupCompletes`, `FramesPublished`, `ExitCompletes`, `ScansDrain`, `QuitCompletes` and `ImuPublished`.

## 7. What is not shown

- Real time: ticks, delays and timeouts are only ordered. That one missing setpoint is harmless rests on the
  autopilot's half-second timeout.
- Floating point and geometry: the estimate of the filter, planes and their residuals, the angles and distances of the feature
  extraction, the clustering of a cloud, the path along a leg, PD control and hover. Positions are whole numbers on a line or in a plane where a
  property needs them, and free choices elsewhere.
- The layout of messages, the text logs, the reading of JSON. The SDK, MAVROS, PX4 and the kd-tree are modelled as the code uses them and marked external in the map;
  the sources of the ikd-Tree are a submodule that is not in the repository.
- rapidjson, matplotlib's header, the manifold toolkit's types and the variants of the filter that are never instantiated are vendored or dead code.
- Four hazards of `PROJECT.json` have no property and say why: an empty map that is saved, an uninitialised clock, an array without a bound, a mode
  that nobody requests again.
- Smaller hazards that are known and not listed: `wait_for_service` blocks the flight node's only thread for up to a second
  (`base_controller.cpp:77`); a lidar of the
  file with none of the four options never samples, because no bit is ever cleared (`parse_livox_lidar_cfg.cpp:75-94`); the
  status of each SDK call is ignored (`livox_lidar_callback.cpp:64`); a transfer format of 2 pops nothing and spins
  (`lddc.cpp:174`); the raw packet queue and the IMU lists have no limit (`pub_handler.cpp:149`); a scan shorter than half the mean is given the mean length, which may put its end behind the next scan's
  (`laserMapping.cpp:401`); the height offset of the bridge is taken once and its poses are stamped for ever (`odom_to_pose_node.cpp:47`, `:69`); with an empty cloud the
  pole list neither ages nor is published (`pole_detection.cpp:182`).
