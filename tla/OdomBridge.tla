------------------------------ MODULE OdomBridge ------------------------------
(***************************************************************************)
(* odom_to_pose_node: the odometry of FAST-LIO becomes the vision pose of  *)
(* the autopilot.  The heights of the first samples are only averaged;     *)
(* from then on the mean is subtracted, and a timer publishes the last     *)
(* pose, however old it is.                                                *)
(***************************************************************************)
EXTENDS Integers, Sequences, FiniteSets, FiniteSetsExt

CONSTANTS
  Samples,      \* 10, the samples of the offset
  Heights,      \* the heights the odometry reports, decimetres
  MaxOdom       \* bound: samples of a behaviour

ASSUME BridgeAssumption == Samples \in Nat \ {0} /\ MaxOdom \in Nat /\ Heights \subseteq Int

VARIABLES
  checktime_, sum_offset_,
  offset_,          \* Samples times the offset, so that it stays a whole number
  send_data_,       \* Samples times the height to send
  data_ready_,
  odometry,         \* history: the heights received
  vision_pose       \* the heights published last, with the samples received by then

bridgeVars ==
  <<checktime_, sum_offset_, offset_, send_data_, data_ready_, odometry, vision_pose>>

-----------------------------------------------------------------------------

CollectSample(z) ==
  /\ checktime_' = checktime_ + 1
  /\ sum_offset_' = sum_offset_ + z
  /\ UNCHANGED <<offset_, send_data_, data_ready_>>

\* Faulty: one sample too many goes into the sum.
Faulty_Collecting == checktime_ <= Samples

Collecting == checktime_ < Samples

\* The sample after the last that was summed up sets the offset and is sent.
UpdatePose(z) ==
  /\ offset_' = IF checktime_ = Samples THEN sum_offset_ ELSE offset_
  /\ checktime_' = IF checktime_ = Samples THEN checktime_ + 1 ELSE checktime_
  /\ send_data_' = Samples * z - offset_'
  /\ data_ready_' = TRUE
  /\ UNCHANGED sum_offset_

radar_cb(z) ==
  /\ Len(odometry) < MaxOdom
  /\ odometry' = Append(odometry, z)
  /\ \/ Collecting /\ CollectSample(z)
     \/ ~Collecting /\ UpdatePose(z)
  /\ UNCHANGED vision_pose

\* The stamp is the time of the timer, not that of the odometry.
timer_cb ==
  /\ data_ready_ /\ checktime_ > Samples
  /\ vision_pose' = [height |-> send_data_, received |-> Len(odometry)]
  /\ UNCHANGED <<checktime_, sum_offset_, offset_, send_data_, data_ready_, odometry>>

-----------------------------------------------------------------------------

BridgeInit ==
  /\ checktime_ = 0 /\ sum_offset_ = 0 /\ offset_ = 0
  /\ send_data_ = 0 /\ data_ready_ = FALSE
  /\ odometry = <<>>
  /\ vision_pose = [height |-> 0, received |-> 0]

BridgeNext == timer_cb \/ \E z \in Heights : radar_cb(z)

BridgeSpec == BridgeInit /\ [][BridgeNext]_bridgeVars

-----------------------------------------------------------------------------
(* Properties *)

\* A published height is the newest one received, less the mean of the first
\* samples, none of which is published itself (odom_to_pose_node.cpp:38-62).
HeightZeroed ==
  vision_pose.received # 0 =>
    /\ vision_pose.received > Samples
    /\ vision_pose.height = Samples * odometry[vision_pose.received]
                            - MapThenSumSet(LAMBDA i : odometry[i], 1..Samples)
=============================================================================
