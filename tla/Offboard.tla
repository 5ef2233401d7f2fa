------------------------------ MODULE Offboard ------------------------------
(***************************************************************************)
(* The flight node offb_node: TaskController (test_task_controller.cpp) on *)
(* top of BaseController (base_controller.cpp), with the autopilot and the *)
(* MAVROS bridge it talks to.                                              *)
(*                                                                         *)
(* The node runs under rclcpp::spin, one callback at a time, so every      *)
(* callback is one atomic action.  What interleaves is the world: service  *)
(* requests wait in MAVROS, replies wait for the executor, and the         *)
(* vehicle state the node reads is the last one that was delivered.        *)
(*                                                                         *)
(* Lengths are centimetres.  Velocities, yaw and the PD control along a    *)
(* leg are left out: a setpoint is what it asks the vehicle to do.  The    *)
(* stuck protection is left out too: nothing reads ignoring_targets_.      *)
(*                                                                         *)
(* A definition named Faulty_d is d with a plausible mistake: no action    *)
(* uses it, and the property it breaks shows that the check would see it.  *)
(***************************************************************************)
EXTENDS Integers, Sequences

CONSTANTS
  TakeoffHeight,      \* takeoff_height of offb_config.yaml
  WaypointThreshold,  \* waypoint_threshold of offb_config.yaml
  WarmupTicks,        \* setpoints to send before commands (50 in the code)
  Positions,          \* the positions the vehicle may be reported at
  Drift,              \* those it may be reported at whatever was asked of it
  TaskMsgs,           \* the values seen on /task
  Pilot,              \* may the pilot or a failsafe take the autopilot over?
  QueueDepth,         \* bound: requests MAVROS holds before the oldest is lost
  MaxCrashes          \* bound: how often MAVROS dies

Point == [x : Int, y : Int, z : Int]

ASSUME OffboardAssumption ==
  /\ TakeoffHeight \in Nat /\ WaypointThreshold \in Nat
  /\ WarmupTicks \in Nat
  /\ Positions \subseteq Point /\ Drift \subseteq Positions
  /\ TaskMsgs \subseteq Int
  /\ Pilot \in BOOLEAN
  /\ QueueDepth \in Nat \ {0}
  /\ MaxCrashes \in Nat

VARIABLES
  setpoint_ready_, offboard_setpoint_counter_,       \* the warm-up
  flight_state_, current_waypoint_index_,            \* the mission
  stage1_started, stage1_completed,                  \* tilt_land's statics
  launch_flag_, current_task_id_,                    \* commands received
  current_state_, local_position_,                   \* telemetry received
  apply_offboard_flag_, modeRequests, offboardReplies,
  apply_arm_flag_, apply_disarm_flag_, armRequests, armReplies,
  setpoint,                                          \* sent by the last tick
  mavros, crashes, fcu                               \* bridge and autopilot

warmupVars  == <<setpoint_ready_, offboard_setpoint_counter_>>
stageVars   == <<stage1_started, stage1_completed>>
missionVars == <<flight_state_, current_waypoint_index_, stageVars>>
commandVars == <<launch_flag_, current_task_id_>>
inputVars   == <<commandVars, current_state_, local_position_>>
modeVars    == <<apply_offboard_flag_, modeRequests, offboardReplies>>
armVars     == <<apply_arm_flag_, apply_disarm_flag_, armRequests, armReplies>>
worldVars   == <<mavros, crashes, fcu>>
nodeVars    == <<warmupVars, missionVars, setpoint>>
vars == <<nodeVars, inputVars, modeVars, armVars, worldVars>>

FlightState == {"INIT", "TAKEOFF", "WAYPOINT", "TILTLAND", "LAND"}

\* Every mode that is neither of these two is OTHER, the empty one included.
Modes == {"OFFBOARD", "AUTO.LAND", "OTHER"}
VehicleState == [mode : Modes, armed : BOOLEAN]

Kinds == {"boot", "none", "origin", "hold", "takeoff", "waypoint", "tiltline",
          "tiltdescend", "descend", "stop"}

Origin == [x |-> 0, y |-> 0, z |-> 0]

waypoints_ == << [x |-> 200, y |-> 0,    z |-> TakeoffHeight],
                 [x |-> 200, y |-> -200, z |-> TakeoffHeight],
                 [x |-> 0,   y |-> -200, z |-> TakeoffHeight] >>
NumWaypoints == 3

-----------------------------------------------------------------------------
(* Geometry *)

Abs(a) == IF a < 0 THEN -a ELSE a
Square(a) == a * a
SquaredRange(p) == Square(p.x) + Square(p.y)

check_emergency_condition ==
  \/ Abs(local_position_.x) >= 700
  \/ Abs(local_position_.y) >= 700
  \/ Abs(local_position_.z) >= 250

is_at_point(p) ==
  Square(local_position_.x - p.x) + Square(local_position_.y - p.y)
    + Square(local_position_.z - p.z) < Square(WaypointThreshold)

AtTakeoffHeight == Abs(local_position_.z - TakeoffHeight) <= WaypointThreshold

\* |horizontal distance - altitude| > 0.05 m, without the square root.
OffTiltLine(p) ==
  \/ p.z < -5
  \/ SquaredRange(p) > Square(p.z + 5)
  \/ p.z > 5 /\ SquaredRange(p) < Square(p.z - 5)

TouchedDown == local_position_.z < 8

-----------------------------------------------------------------------------
(* What the node sends *)

Publish(kind) == setpoint' = [kind |-> kind, wp |-> 0]
PublishWaypoint(i) == setpoint' = [kind |-> "waypoint", wp |-> i]

\* A service request joins MAVROS's queue; a full queue loses its oldest one.
Enqueue(queue, request) ==
  Append(IF Len(queue) < QueueDepth THEN queue ELSE Tail(queue), request)

\* Faulty: the request is sent and the flag is not set.
Faulty_arm ==
  /\ armRequests' = IF mavros THEN Enqueue(armRequests, TRUE) ELSE armRequests
  /\ UNCHANGED <<apply_arm_flag_, apply_disarm_flag_, armReplies>>

\* wait_for_service fails while MAVROS is away: the flag then stays clear.
arm ==
  /\ IF mavros
     THEN /\ armRequests' = Enqueue(armRequests, TRUE)
          /\ apply_arm_flag_' = TRUE
     ELSE UNCHANGED <<armRequests, apply_arm_flag_>>
  /\ UNCHANGED <<apply_disarm_flag_, armReplies>>

\* Faulty: the same of the OFFBOARD request.
Faulty_engage_offboard_mode ==
  /\ modeRequests' = IF mavros THEN Enqueue(modeRequests, "OFFBOARD") ELSE modeRequests
  /\ UNCHANGED <<apply_offboard_flag_, offboardReplies>>

engage_offboard_mode ==
  /\ IF mavros
     THEN /\ modeRequests' = Enqueue(modeRequests, "OFFBOARD")
          /\ apply_offboard_flag_' = TRUE
     ELSE UNCHANGED <<modeRequests, apply_offboard_flag_>>
  /\ UNCHANGED offboardReplies

\* Faulty: the flag of the OFFBOARD request guards AUTO.LAND too.
Faulty_auto_land ==
  /\ modeRequests' = IF mavros /\ ~apply_offboard_flag_
                     THEN Enqueue(modeRequests, "AUTO.LAND") ELSE modeRequests
  /\ UNCHANGED <<apply_offboard_flag_, offboardReplies>>

\* Sent on every tick of an emergency: no flag guards it.
auto_land ==
  /\ modeRequests' = IF mavros THEN Enqueue(modeRequests, "AUTO.LAND")
                     ELSE modeRequests
  /\ UNCHANGED <<apply_offboard_flag_, offboardReplies>>

\* Faulty: nothing guards against asking twice.
Faulty_MayDisarm == local_position_.z < 3 /\ mavros

MayDisarm == local_position_.z < 3 /\ mavros /\ ~apply_disarm_flag_

\* A disarmed vehicle clears the flag, so that a refused disarm can be retried
\* and a successful one is not repeated while the state message is late.
land ==
  /\ Publish(IF current_state_.armed THEN "descend" ELSE "stop")
  /\ \/ /\ ~current_state_.armed
        /\ apply_disarm_flag_' = FALSE
        /\ UNCHANGED armRequests
     \/ /\ current_state_.armed /\ MayDisarm
        /\ apply_disarm_flag_' = TRUE
        /\ armRequests' = Enqueue(armRequests, FALSE)
     \/ /\ current_state_.armed /\ ~MayDisarm
        /\ UNCHANGED <<apply_disarm_flag_, armRequests>>
  /\ UNCHANGED <<apply_arm_flag_, armReplies>>

-----------------------------------------------------------------------------
(* What the node does in each flight state, once the state is settled *)

\* No setpoint is sent when every waypoint has been reached.
execute_waypoint_mission ==
  LET i == current_waypoint_index_ IN
  \/ /\ i >= NumWaypoints
     /\ Publish("none")
     /\ UNCHANGED current_waypoint_index_
  \/ /\ i < NumWaypoints
     /\ PublishWaypoint(i + 1)
     /\ current_waypoint_index_' = IF is_at_point(waypoints_[i + 1]) THEN i + 1 ELSE i

\* Faulty: the tick that completes stage 1 returns without entering stage 2.
Faulty_tilt_land ==
  \/ /\ TouchedDown
     /\ flight_state_' = "LAND"
     /\ stage1_started' = FALSE /\ stage1_completed' = FALSE
     /\ Publish("none")
  \/ /\ ~TouchedDown /\ ~stage1_completed
     /\ flight_state_' = "TILTLAND"
     /\ stage1_started' = TRUE
     /\ stage1_completed' = (stage1_started /\ ~OffTiltLine(local_position_))
     /\ Publish(IF stage1_completed' THEN "none" ELSE "tiltline")
  \/ /\ ~TouchedDown /\ stage1_completed
     /\ flight_state_' = "TILTLAND"
     /\ Publish("tiltdescend")
     /\ UNCHANGED stageVars

\* The last disjunct is stage 2, which a vehicle on the 45 degree line enters.
tilt_land ==
  \/ /\ TouchedDown
     /\ flight_state_' = "LAND"
     /\ stage1_started' = FALSE /\ stage1_completed' = FALSE
     /\ Publish("none")
  \/ /\ ~TouchedDown /\ ~stage1_completed
     /\ ~stage1_started \/ OffTiltLine(local_position_)
     /\ flight_state_' = "TILTLAND"
     /\ stage1_started' = TRUE /\ UNCHANGED stage1_completed
     /\ Publish("tiltline")
  \/ /\ ~TouchedDown
     /\ \/ stage1_completed
        \/ stage1_started /\ ~OffTiltLine(local_position_)
     /\ flight_state_' = "TILTLAND"
     /\ stage1_completed' = TRUE /\ UNCHANGED stage1_started
     /\ Publish("tiltdescend")

\* The switch statement of timer_callback, for the state s the checks left.
Execute(s) ==
  /\ \/ s = "INIT" /\ Publish("hold")
     \/ s = "TAKEOFF" /\ Publish("takeoff")
     \/ s = "WAYPOINT" /\ execute_waypoint_mission
     \/ s = "TILTLAND" /\ tilt_land
     \/ s = "LAND" /\ land
  /\ s # "WAYPOINT" => UNCHANGED current_waypoint_index_
  /\ s # "TILTLAND" => flight_state_' = s /\ UNCHANGED stageVars

-----------------------------------------------------------------------------
(* timer_callback, every 100 ms: one action for each way through it *)

TickWarmup ==
  /\ ~setpoint_ready_
  /\ Publish("origin")
  /\ offboard_setpoint_counter_' = offboard_setpoint_counter_ + 1
  /\ setpoint_ready_' = (offboard_setpoint_counter_ + 1 > WarmupTicks)
  /\ UNCHANGED <<missionVars, modeVars, armVars>>

\* Faulty: the emergency switches the flight state too.
Faulty_TickEmergency ==
  /\ setpoint_ready_ /\ check_emergency_condition
  /\ auto_land
  /\ Execute("LAND")
  /\ UNCHANGED warmupVars

\* The position is out of range: AUTO.LAND is requested, no check changes the
\* flight state, and the state's own step is still executed.
TickEmergency ==
  /\ setpoint_ready_ /\ check_emergency_condition
  /\ auto_land
  /\ Execute(flight_state_)
  /\ flight_state_ # "LAND" => UNCHANGED armVars
  /\ UNCHANGED warmupVars

Checking(s) == setpoint_ready_ /\ ~check_emergency_condition /\ flight_state_ = s

\* Faulty: the launch command is not looked at again.
Faulty_WantsOffboard == current_state_.mode # "OFFBOARD"

WantsOffboard == launch_flag_ /\ current_state_.mode # "OFFBOARD"
WantsArm == launch_flag_ /\ current_state_ = [mode |-> "OFFBOARD", armed |-> FALSE]
ReadyToFly == launch_flag_ /\ current_state_ = [mode |-> "OFFBOARD", armed |-> TRUE]

TickInit ==
  /\ Checking("INIT")
  /\ \/ /\ WantsOffboard /\ ~apply_offboard_flag_
        /\ engage_offboard_mode
        /\ Execute("INIT")
        /\ UNCHANGED armVars
     \/ /\ WantsArm /\ ~apply_arm_flag_
        /\ arm
        /\ Execute("INIT")
        /\ UNCHANGED modeVars
     \/ /\ ReadyToFly
        /\ Execute("TAKEOFF")
        /\ UNCHANGED <<modeVars, armVars>>
     \/ /\ \/ ~launch_flag_
           \/ (WantsOffboard /\ apply_offboard_flag_)
           \/ (WantsArm /\ apply_arm_flag_)
        /\ Execute("INIT")
        /\ UNCHANGED <<modeVars, armVars>>
  /\ UNCHANGED warmupVars

TickTakeoff ==
  /\ Checking("TAKEOFF")
  /\ Execute(IF AtTakeoffHeight THEN "WAYPOINT" ELSE "TAKEOFF")
  /\ UNCHANGED <<warmupVars, modeVars, armVars>>

\* Faulty: the last waypoint is only flown towards.
Faulty_RouteFlown == current_waypoint_index_ >= NumWaypoints - 1

RouteFlown == current_waypoint_index_ >= NumWaypoints

TickWaypoint ==
  /\ Checking("WAYPOINT")
  /\ Execute(IF RouteFlown THEN "TILTLAND" ELSE "WAYPOINT")
  /\ UNCHANGED <<warmupVars, modeVars, armVars>>

TickTiltLand ==
  /\ Checking("TILTLAND")
  /\ Execute("TILTLAND")
  /\ UNCHANGED <<warmupVars, modeVars, armVars>>

TickLand ==
  /\ Checking("LAND")
  /\ Execute("LAND")
  /\ UNCHANGED <<warmupVars, modeVars>>

timer_callback ==
  /\ \/ TickWarmup \/ TickEmergency \/ TickInit \/ TickTakeoff
     \/ TickWaypoint \/ TickTiltLand \/ TickLand
  /\ UNCHANGED <<inputVars, worldVars>>

-----------------------------------------------------------------------------
(* The subscriptions *)

launch_callback(data) ==
  /\ launch_flag_' = data
  /\ UNCHANGED <<current_task_id_, current_state_, local_position_>>
  /\ UNCHANGED <<nodeVars, modeVars, armVars, worldVars>>

\* Faulty: an invalid task is taken too.
Faulty_task_callback(id) ==
  /\ current_task_id_' = id
  /\ UNCHANGED <<launch_flag_, current_state_, local_position_>>
  /\ UNCHANGED <<nodeVars, modeVars, armVars, worldVars>>

task_callback(id) ==
  /\ current_task_id_' = IF id \in {1, 2} THEN id ELSE current_task_id_
  /\ UNCHANGED <<launch_flag_, current_state_, local_position_>>
  /\ UNCHANGED <<nodeVars, modeVars, armVars, worldVars>>

\* Telemetry comes through MAVROS, and not while it is away.
vehicle_state_callback ==
  /\ mavros
  /\ current_state_' = fcu
  /\ UNCHANGED <<commandVars, local_position_>>
  /\ UNCHANGED <<nodeVars, modeVars, armVars, worldVars>>

local_position_callback(p) ==
  /\ mavros
  /\ local_position_' = p
  /\ UNCHANGED <<commandVars, current_state_>>
  /\ UNCHANGED <<nodeVars, modeVars, armVars, worldVars>>

(* The replies of the services *)

\* Faulty: the flag is never cleared.
Faulty_set_mode_callback ==
  /\ offboardReplies > 0
  /\ offboardReplies' = offboardReplies - 1
  /\ UNCHANGED <<apply_offboard_flag_, modeRequests>>
  /\ UNCHANGED <<nodeVars, inputVars, armVars, worldVars>>

\* Whatever the reply says, the flag is cleared.
set_mode_callback ==
  /\ offboardReplies > 0
  /\ offboardReplies' = offboardReplies - 1
  /\ apply_offboard_flag_' = FALSE
  /\ UNCHANGED modeRequests
  /\ UNCHANGED <<nodeVars, inputVars, armVars, worldVars>>

\* Faulty: a refusal leaves the flag set.
Faulty_arm_callback ==
  /\ armReplies # <<>> /\ Head(armReplies).arm
  /\ armReplies' = Tail(armReplies)
  /\ apply_arm_flag_' = (apply_arm_flag_ /\ ~Head(armReplies).success)
  /\ UNCHANGED <<apply_disarm_flag_, armRequests>>
  /\ UNCHANGED <<nodeVars, inputVars, modeVars, worldVars>>

arm_callback ==
  /\ armReplies # <<>> /\ Head(armReplies).arm
  /\ armReplies' = Tail(armReplies)
  /\ apply_arm_flag_' = FALSE
  /\ UNCHANGED <<apply_disarm_flag_, armRequests>>
  /\ UNCHANGED <<nodeVars, inputVars, modeVars, worldVars>>

\* Faulty: so does a refused disarm.
Faulty_disarm_callback ==
  /\ armReplies # <<>> /\ ~Head(armReplies).arm
  /\ armReplies' = Tail(armReplies)
  /\ UNCHANGED <<apply_arm_flag_, apply_disarm_flag_, armRequests>>
  /\ UNCHANGED <<nodeVars, inputVars, modeVars, worldVars>>

\* The lambda in land: a success keeps the flag until the vehicle is seen disarmed.
disarm_callback ==
  /\ armReplies # <<>> /\ ~Head(armReplies).arm
  /\ armReplies' = Tail(armReplies)
  /\ apply_disarm_flag_' = (apply_disarm_flag_ /\ Head(armReplies).success)
  /\ UNCHANGED <<apply_arm_flag_, armRequests>>
  /\ UNCHANGED <<nodeVars, inputVars, modeVars, worldVars>>

-----------------------------------------------------------------------------
(* The world: MAVROS, the autopilot, the pilot (external) *)

\* A mode request is only forwarded: the autopilot may not switch.
FcuSetMode(accepted) ==
  /\ mavros /\ modeRequests # <<>>
  /\ modeRequests' = Tail(modeRequests)
  /\ fcu' = IF accepted THEN [fcu EXCEPT !.mode = Head(modeRequests)] ELSE fcu
  /\ offboardReplies' = IF Head(modeRequests) = "OFFBOARD"
                        THEN offboardReplies + 1 ELSE offboardReplies
  /\ UNCHANGED <<mavros, crashes, apply_offboard_flag_>>
  /\ UNCHANGED <<nodeVars, inputVars, armVars>>

FcuArm(accepted) ==
  /\ mavros /\ armRequests # <<>>
  /\ armRequests' = Tail(armRequests)
  /\ fcu' = IF accepted THEN [fcu EXCEPT !.armed = Head(armRequests)] ELSE fcu
  /\ armReplies' = Append(armReplies, [arm |-> Head(armRequests), success |-> accepted])
  /\ UNCHANGED <<mavros, crashes, apply_arm_flag_, apply_disarm_flag_>>
  /\ UNCHANGED <<nodeVars, inputVars, modeVars>>

\* The pilot or a failsafe changes the mode or disarms, and may arm by the
\* transmitter only before the node has taken the vehicle off.
FcuOwnChange ==
  /\ Pilot
  /\ fcu' \in VehicleState
  /\ fcu'.armed => fcu.armed \/ flight_state_ = "INIT"
  /\ UNCHANGED <<mavros, crashes>>
  /\ UNCHANGED <<nodeVars, inputVars, modeVars, armVars>>

\* MAVROS dies with the requests and the replies it holds: their callbacks
\* will never run.
MavrosCrash ==
  /\ mavros /\ crashes < MaxCrashes
  /\ mavros' = FALSE
  /\ crashes' = crashes + 1
  /\ modeRequests' = <<>> /\ armRequests' = <<>>
  /\ offboardReplies' = 0 /\ armReplies' = <<>>
  /\ UNCHANGED <<fcu, apply_offboard_flag_, apply_arm_flag_, apply_disarm_flag_>>
  /\ UNCHANGED <<nodeVars, inputVars>>

MavrosRestart ==
  /\ ~mavros
  /\ mavros' = TRUE
  /\ UNCHANGED <<crashes, fcu>>
  /\ UNCHANGED <<nodeVars, inputVars, modeVars, armVars>>

\* Where a vehicle that obeys the last setpoint ends up.
Destination ==
  CASE setpoint.kind = "takeoff"     -> {[Origin EXCEPT !.z = TakeoffHeight]}
    [] setpoint.kind = "waypoint"    -> {waypoints_[setpoint.wp]}
    [] setpoint.kind = "tiltline"    -> {p \in Positions : ~OffTiltLine(p) /\ p.z = local_position_.z}
    [] setpoint.kind = "tiltdescend" -> {p \in Positions : p.z < 8}
    [] setpoint.kind = "descend"     -> {p \in Positions : p.z < 3}
    [] OTHER                         -> {}

\* An armed vehicle in OFFBOARD mode obeys, and reports where it got to.
Fly ==
  /\ fcu = [mode |-> "OFFBOARD", armed |-> TRUE]
  /\ \E p \in Positions :
       p \in Destination \ {local_position_} /\ local_position_callback(p)

-----------------------------------------------------------------------------
Init ==
  /\ setpoint_ready_ = FALSE /\ offboard_setpoint_counter_ = 0
  /\ flight_state_ = "INIT" /\ current_waypoint_index_ = 0
  /\ stage1_started = FALSE /\ stage1_completed = FALSE
  /\ launch_flag_ = FALSE /\ current_task_id_ = 1
  /\ current_state_ = [mode |-> "OTHER", armed |-> FALSE]
  /\ local_position_ = Origin
  /\ apply_offboard_flag_ = FALSE /\ modeRequests = <<>> /\ offboardReplies = 0
  /\ apply_arm_flag_ = FALSE /\ apply_disarm_flag_ = FALSE
  /\ armRequests = <<>> /\ armReplies = <<>>
  /\ setpoint = [kind |-> "boot", wp |-> 0]
  /\ mavros = TRUE /\ crashes = 0
  /\ fcu = [mode |-> "OTHER", armed |-> FALSE]

Next ==
  \/ timer_callback
  \/ \E data \in BOOLEAN : launch_callback(data)
  \/ \E id \in TaskMsgs : task_callback(id)
  \/ vehicle_state_callback
  \/ \E p \in Drift : local_position_callback(p)
  \/ set_mode_callback \/ arm_callback \/ disarm_callback
  \/ \E accepted \in BOOLEAN : FcuSetMode(accepted) \/ FcuArm(accepted)
  \/ FcuOwnChange \/ MavrosCrash \/ MavrosRestart \/ Fly

Spec == Init /\ [][Next]_vars

\* The executor runs every ready callback and the 100 ms timer keeps firing;
\* MAVROS answers, and telemetry keeps coming.  A request repeated for ever is
\* accepted in the end.  Nothing is asked of the pilot or of who commands the
\* launch.
Fairness ==
  /\ WF_vars(timer_callback)
  /\ WF_vars(vehicle_state_callback)
  /\ WF_vars(set_mode_callback) /\ WF_vars(arm_callback) /\ WF_vars(disarm_callback)
  /\ WF_vars(\E accepted \in BOOLEAN : FcuSetMode(accepted))
  /\ WF_vars(\E accepted \in BOOLEAN : FcuArm(accepted))
  /\ SF_vars(FcuSetMode(TRUE)) /\ SF_vars(FcuArm(TRUE))
  /\ WF_vars(MavrosRestart)
  /\ WF_vars(Fly)

FairSpec == Spec /\ Fairness
=============================================================================
