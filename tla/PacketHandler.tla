--------------------------- MODULE PacketHandler ----------------------------
(***************************************************************************)
(* PubHandler of livox_ros_driver2: from the packets the SDK delivers to   *)
(* the frames given to Lds::StoragePointData, and InitLdsLidar, which      *)
(* starts it.  The SDK's thread appends packets to raw_packet_queue_;      *)
(* RawDataProcess takes them one by one, appends their points to the cloud *)
(* of their lidar, and CheckTimer decides whether that ends a frame.       *)
(*                                                                         *)
(* A packet stands for its points, all of one millisecond; time is counted *)
(* in milliseconds.  A lidar whose clock is synchronised stamps with the   *)
(* same clock as the host.  Each lidar sends one packet a millisecond at   *)
(* most, and any of them may be lost.                                      *)
(***************************************************************************)
EXTENDS Naturals, Sequences, FiniteSets

CONSTANTS
  Handles,       \* the lidars on the network
  Configured,    \* those of them in the configuration file
  Interval,      \* publish_interval_ms_
  MaxClock,      \* bound: milliseconds of a behaviour
  MaxSent,       \* bound: packets of a lidar
  MaxQueue       \* bound: packets the thread may be behind

ASSUME HandlerAssumption ==
  /\ Configured \subseteq Handles
  /\ Interval \in Nat \ {0} /\ MaxClock \in Nat
  /\ MaxSent \in Nat /\ MaxQueue \in Nat

VARIABLES
  start,              \* where InitLdsLidar is
  lidar_extrinsics_,  \* the lidars whose parameters the handler knows
  clock,              \* the host's clock
  synced,             \* the lidars whose clock is synchronised
  sent,               \* packets of each lidar so far
  sentNow,            \* the lidars that sent one in this millisecond
  raw_packet_queue_,
  is_timestamp_sync_,
  is_quit_,
  worker, raw_data,   \* RawDataProcess: where it is, the packet it works on
  points_clouds_,     \* points of each lidar not yet in a frame
  last_pub_time_,     \* NotSet before the first unsynchronised packet
  delivered           \* history: the ids given to the callback, per lidar

startVars == <<start, lidar_extrinsics_>>
netVars == <<clock, synced, sent, sentNow>>
workVars == <<worker, raw_data>>
frameVars == <<points_clouds_, last_pub_time_, delivered>>
handlerVars == <<startVars, netVars, raw_packet_queue_, is_timestamp_sync_, is_quit_,
                 workVars, frameVars>>

NotSet == MaxClock + 1
NoRawPacket == <<>>

-----------------------------------------------------------------------------
(* InitLdsLidar: the parameters of every configured lidar are handed over   *)
(* before the observer is registered and the thread is started.            *)

\* A configuration that cannot be parsed is an empty one.
InitLivoxLidar ==
  /\ start = "begin"
  /\ start' = "configs"
  /\ UNCHANGED <<lidar_extrinsics_, netVars, raw_packet_queue_,
                 is_timestamp_sync_, is_quit_, workVars, frameVars>>

AddLidarsExtParam(h) ==
  /\ start # "begin"
  /\ h \in Configured \ lidar_extrinsics_
  /\ lidar_extrinsics_' = lidar_extrinsics_ \cup {h}
  /\ UNCHANGED <<start, netVars, raw_packet_queue_, is_timestamp_sync_,
                 is_quit_, workVars, frameVars>>

\* Faulty: packets are let in before the parameters are handed over.
Faulty_SetPointCloudsCallback ==
  /\ start = "configs"
  /\ start' = "observed"
  /\ UNCHANGED <<lidar_extrinsics_, netVars, raw_packet_queue_,
                 is_timestamp_sync_, is_quit_, workVars, frameVars>>

SetPointCloudsCallback ==
  /\ start = "configs"
  /\ Configured \subseteq lidar_extrinsics_
  /\ start' = "observed"
  /\ UNCHANGED <<lidar_extrinsics_, netVars, raw_packet_queue_,
                 is_timestamp_sync_, is_quit_, workVars, frameVars>>

SetPointCloudConfig ==
  /\ start = "observed"
  /\ start' = "running"
  /\ worker' = "loop"
  /\ UNCHANGED <<lidar_extrinsics_, netVars, raw_packet_queue_,
                 is_timestamp_sync_, is_quit_, raw_data, frameVars>>

-----------------------------------------------------------------------------
(* The SDK's thread and the clocks *)

Observing == start \in {"observed", "running"} /\ ~is_quit_

Tick ==
  /\ Observing
  /\ clock < MaxClock
  /\ clock' = clock + 1
  /\ sentNow' = {}
  /\ UNCHANGED <<startVars, synced, sent, raw_packet_queue_,
                 is_timestamp_sync_, is_quit_, workVars, frameVars>>

\* The flag is one for all lidars: each packet sets it to its own clock's state.
OnLivoxLidarPointCloudCallback(h) ==
  /\ Observing
  /\ h \notin sentNow
  /\ sent[h] < MaxSent
  /\ Len(raw_packet_queue_) < MaxQueue
  /\ is_timestamp_sync_' = (h \in synced)
  /\ raw_packet_queue_' =
       Append(raw_packet_queue_, [handle |-> h, id |-> sent[h] + 1, stamp |-> clock])
  /\ sent' = [sent EXCEPT ![h] = @ + 1]
  /\ sentNow' = sentNow \cup {h}
  /\ UNCHANGED <<startVars, clock, synced, is_quit_, workVars, frameVars>>

\* An IMU packet sets the flag too, and goes to the IMU callback (ImuStream).
OnImuPacket(h) ==
  /\ Observing
  /\ is_timestamp_sync_' = (h \in synced)
  /\ UNCHANGED <<startVars, netVars, raw_packet_queue_, is_quit_, workVars, frameVars>>

-----------------------------------------------------------------------------
(* RawDataProcess *)

Quit ==
  /\ worker = "loop" /\ is_quit_
  /\ worker' = "ended"
  /\ UNCHANGED <<startVars, netVars, raw_packet_queue_, is_timestamp_sync_, is_quit_,
                 raw_data, frameVars>>

WaitForPacket ==
  /\ worker = "loop" /\ ~is_quit_
  /\ raw_packet_queue_ = <<>>
  /\ worker' = "waiting"
  /\ UNCHANGED <<startVars, netVars, raw_packet_queue_, is_timestamp_sync_, is_quit_,
                 raw_data, frameVars>>

\* Faulty: a wait without a time limit, which only a packet ends.
Faulty_WaitFor ==
  /\ worker = "waiting"
  /\ raw_packet_queue_ # <<>>
  /\ worker' = "loop"
  /\ UNCHANGED <<startVars, netVars, raw_packet_queue_, is_timestamp_sync_, is_quit_,
                 raw_data, frameVars>>

\* The wait ends by a packet (TakePacket) or after 500 ms; nobody signals is_quit_.
WaitFor ==
  /\ worker = "waiting"
  /\ raw_packet_queue_ = <<>>
  /\ worker' = "loop"
  /\ UNCHANGED <<startVars, netVars, raw_packet_queue_, is_timestamp_sync_, is_quit_,
                 raw_data, frameVars>>

\* The parameters are copied before the lidar's next packet is converted, and kept;
\* a lidar that has none is converted with the default ones of pub_handler.h.
SetLidarsExtParam(h) == h \in lidar_extrinsics_

\* What the loops of the three point formats make of a packet: every point is
\* turned, moved and stamped.
Converted(p) == [id |-> p.id, stamp |-> p.stamp, extrinsic |-> SetLidarsExtParam(p.handle)]

PointCloudProcess(p) ==
  points_clouds_' = [points_clouds_ EXCEPT ![p.handle] = Append(@, Converted(p))]

\* The packet at the front is taken under the lock; its conversion touches
\* nothing another thread does.
TakePacket ==
  /\ worker = "waiting" \/ (worker = "loop" /\ ~is_quit_)
  /\ raw_packet_queue_ # <<>>
  /\ raw_data' = <<Head(raw_packet_queue_)>>
  /\ raw_packet_queue_' = Tail(raw_packet_queue_)
  /\ PointCloudProcess(Head(raw_packet_queue_))
  /\ worker' = "checking"
  /\ UNCHANGED <<startVars, netVars, is_timestamp_sync_, is_quit_, last_pub_time_, delivered>>

GetLidarBaseTime(h) == points_clouds_[h][1].stamp
GetRecentTimeStamp(h) == points_clouds_[h][Len(points_clouds_[h])].stamp

\* Faulty: the tolerance is added to the interval.
Faulty_Tolerance == Interval + 1

Tolerance == Interval - 1

\* With a synchronised clock a frame ends at a packet whose last millisecond is
\* a multiple of the interval, unless the frame has hardly begun.
SyncFrameEnds(h) ==
  /\ GetRecentTimeStamp(h) # 0
  /\ GetRecentTimeStamp(h) % Interval = 0
  /\ GetRecentTimeStamp(h) - GetLidarBaseTime(h) >= Tolerance

\* Without one it ends when the interval has passed on the host's clock.
PubTimePassed == last_pub_time_ # NotSet /\ clock - last_pub_time_ >= Interval

\* Faulty: the cloud is copied instead of swapped.
Faulty_Swapped(h) == points_clouds_[h]

\* What the swap with points_[h], cleared before, leaves behind.
Swapped(h) == <<>>

IdsOf(points) == [i \in DOMAIN points |-> points[i].id]

\* GetLidarPointClouds and PublishPointCloud for the lidars of ls.
Publish(ls) ==
  /\ points_clouds_' = [h \in Handles |-> IF h \in ls THEN Swapped(h) ELSE points_clouds_[h]]
  /\ delivered' = [h \in Handles |->
                     IF h \in ls THEN delivered[h] \o IdsOf(points_clouds_[h]) ELSE delivered[h]]

\* The synchronised branch publishes one lidar, the other one all of them, and
\* the first unsynchronised packet only starts the clock.
CheckTimer ==
  /\ worker = "checking"
  /\ worker' = "loop"
  /\ \/ /\ is_timestamp_sync_ /\ SyncFrameEnds(raw_data[1].handle)
        /\ Publish({raw_data[1].handle})
        /\ UNCHANGED last_pub_time_
     \/ /\ is_timestamp_sync_ /\ ~SyncFrameEnds(raw_data[1].handle)
        /\ UNCHANGED frameVars
     \/ /\ ~is_timestamp_sync_ /\ last_pub_time_ = NotSet
        /\ last_pub_time_' = clock
        /\ UNCHANGED <<points_clouds_, delivered>>
     \/ /\ ~is_timestamp_sync_ /\ PubTimePassed
        /\ last_pub_time_' = last_pub_time_ + Interval
        /\ Publish(Handles)
     \/ /\ ~is_timestamp_sync_ /\ last_pub_time_ # NotSet /\ ~PubTimePassed
        /\ UNCHANGED frameVars
  /\ raw_data' = NoRawPacket
  /\ UNCHANGED <<startVars, netVars, raw_packet_queue_, is_timestamp_sync_, is_quit_>>

\* Uninit: the observer is removed, the flag set, the thread joined.
Uninit ==
  /\ start = "running" /\ ~is_quit_
  /\ is_quit_' = TRUE
  /\ UNCHANGED <<startVars, netVars, raw_packet_queue_, is_timestamp_sync_, workVars, frameVars>>

-----------------------------------------------------------------------------

HandlerInit ==
  /\ start = "begin"
  /\ lidar_extrinsics_ = {}
  /\ clock = 0
  /\ synced \in SUBSET Handles
  /\ sent = [h \in Handles |-> 0]
  /\ sentNow = {}
  /\ raw_packet_queue_ = <<>>
  /\ is_timestamp_sync_ = FALSE
  /\ is_quit_ = FALSE
  /\ worker = "none"
  /\ raw_data = NoRawPacket
  /\ points_clouds_ = [h \in Handles |-> <<>>]
  /\ last_pub_time_ = NotSet
  /\ delivered = [h \in Handles |-> <<>>]

Worker == Quit \/ WaitForPacket \/ WaitFor \/ TakePacket \/ CheckTimer

HandlerNext ==
  \/ InitLivoxLidar \/ SetPointCloudsCallback \/ SetPointCloudConfig
  \/ \E h \in Handles :
       \/ AddLidarsExtParam(h)
       \/ OnLivoxLidarPointCloudCallback(h) \/ OnImuPacket(h)
  \/ Tick \/ Worker \/ Uninit

HandlerSpec == HandlerInit /\ [][HandlerNext]_handlerVars

-----------------------------------------------------------------------------
(* Properties *)

\* What became of the packets of a lidar that the thread has taken.
Done(h) == delivered[h] \o IdsOf(points_clouds_[h])

\* The places of the queue that hold packets of a lidar.
Queued(h) == {i \in DOMAIN raw_packet_queue_ : raw_packet_queue_[i].handle = h}

\* Every packet of a lidar is on its way exactly once and in the order it came:
\* the first ones in a frame already given away or in the cloud, the others in the
\* queue, whichever branch of CheckTimer cut the frames (pub_handler.cpp:164-255).
NothingLost ==
  \A h \in Handles :
    /\ Done(h) = [i \in 1..Len(Done(h)) |-> i] /\ Len(Done(h)) <= sent[h]
    /\ {raw_packet_queue_[i].id : i \in Queued(h)} = Len(Done(h)) + 1 .. sent[h]
    /\ \A i, j \in Queued(h) : i < j => raw_packet_queue_[i].id < raw_packet_queue_[j].id

\* The multiples of the interval at which a frame could have ended and at which
\* no packet came.
Missing(points) ==
  {t \in points[1].stamp + 1 .. points[Len(points)].stamp :
     t % Interval = 0 /\ \A i \in DOMAIN points : points[i].stamp # t}

\* With synchronised clocks a frame lasts less than two intervals, and less than
\* one more for every packet at a multiple of the interval that was lost
\* (pub_handler.cpp:168-176).
FrameSpan ==
  [][\A h \in Handles : synced = Handles /\ delivered'[h] # delivered[h] =>
       LET p == points_clouds_[h] IN
       p[Len(p)].stamp - p[1].stamp < Interval * (2 + Cardinality(Missing(p)))]_handlerVars

\* No point of a lidar of the configuration file is converted with the default
\* parameters, however early its first packet comes (lds_lidar.cpp:77-98).
ConvertedAsConfigured ==
  \A h \in Configured : \A i \in DOMAIN points_clouds_[h] : points_clouds_[h][i].extrinsic

\* The thread ends after Uninit although nobody wakes it (pub_handler.cpp:236).
HandlerFairness == WF_handlerVars(Worker)

QuitCompletes == is_quit_ ~> (worker = "ended")
=============================================================================
