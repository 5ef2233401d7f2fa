------------------------------- MODULE MCDriver -------------------------------
(* The four stages of livox_ros_driver2 a frame passes after the handshake, for   *)
(* TLC: each behaviour runs one of them, the others rest.  They share no variable *)
(* here, so that the invariants of a stage are those of its own specification.    *)
EXTENDS LidarStream, PacketHandler, ImuStream, FrameRoute

VARIABLE stage

driverVars == <<stage, vars, handlerVars, imuVars, routeVars>>

\* A stage that rests keeps one initial state.
DriverInit ==
  /\ stage \in {"packets", "imu", "route", "ring"}
  /\ Init /\ HandlerInit /\ ImuInit /\ RouteInit
  /\ stage # "packets" => synced = {}
  /\ stage # "route" => ~use_multi_topic_ /\ transfer_format_ = "CustomMsg"

PacketStage ==
  stage = "packets" /\ HandlerNext /\ UNCHANGED <<stage, vars, imuVars, routeVars>>
ImuStage ==
  stage = "imu" /\ ImuNext /\ UNCHANGED <<stage, vars, handlerVars, routeVars>>
RouteStage ==
  stage = "route" /\ RouteNext /\ UNCHANGED <<stage, vars, handlerVars, imuVars>>
RingStage ==
  stage = "ring" /\ Next /\ UNCHANGED <<stage, handlerVars, imuVars, routeVars>>

DriverNext == PacketStage \/ ImuStage \/ RouteStage \/ RingStage

\* HandlerFairness and ImuFairness, where the stage is the one that runs.
DriverFairSpec ==
  /\ DriverInit /\ [][DriverNext]_driverVars
  /\ WF_handlerVars(stage = "packets" /\ Worker)
  /\ WF_imuVars(stage = "imu" /\ StorageImuData)
  /\ WF_imuVars(stage = "imu" /\ ImuPoll)
=============================================================================
