--------------------------- MODULE OffboardProps ----------------------------
(***************************************************************************)
(* The properties of Offboard.                                             *)
(***************************************************************************)
EXTENDS Offboard

\* The values every variable of the node, the bridge and the autopilot has.
TypeOK ==
  /\ setpoint_ready_ \in BOOLEAN /\ offboard_setpoint_counter_ \in Nat
  /\ flight_state_ \in FlightState
  /\ current_waypoint_index_ \in 0..NumWaypoints
  /\ stage1_started \in BOOLEAN /\ stage1_completed \in BOOLEAN
  /\ launch_flag_ \in BOOLEAN /\ current_task_id_ \in {1, 2}
  /\ current_state_ \in VehicleState /\ local_position_ \in Point
  /\ apply_offboard_flag_ \in BOOLEAN
  /\ modeRequests \in Seq({"OFFBOARD", "AUTO.LAND"}) /\ offboardReplies \in Nat
  /\ apply_arm_flag_ \in BOOLEAN /\ apply_disarm_flag_ \in BOOLEAN
  /\ armRequests \in Seq(BOOLEAN)
  /\ armReplies \in Seq([arm : BOOLEAN, success : BOOLEAN])
  /\ setpoint \in [kind : Kinds, wp : 0..NumWaypoints]
  /\ mavros \in BOOLEAN /\ crashes \in 0..MaxCrashes
  /\ fcu \in VehicleState

RequestsOf(queue, request) == {i \in 1..Len(queue) : queue[i] = request}
AtMostOne(S) == \A i, j \in S : i = j

ArmCalls == RequestsOf(armRequests, TRUE)
DisarmCalls == RequestsOf(armRequests, FALSE)
OffboardCalls == RequestsOf(modeRequests, "OFFBOARD")
AnswersTo(replies, request) == {i \in 1..Len(replies) : replies[i].arm = request}
ArmAnswers == AnswersTo(armReplies, TRUE)
DisarmAnswers == AnswersTo(armReplies, FALSE)

\* At most one arming call is between the node and its callback, and while one
\* is, apply_arm_flag_ is set (base_controller.cpp:93, test_task_controller.cpp:96):
\* neither a late reply nor a stale armed state makes the node send a second.
SingleArmCall ==
  /\ AtMostOne(ArmCalls) /\ AtMostOne(ArmAnswers)
  /\ ArmCalls = {} \/ ArmAnswers = {}
  /\ ArmCalls # {} \/ ArmAnswers # {} => apply_arm_flag_

\* The same of the OFFBOARD calls (base_controller.cpp:150), with the AUTO.LAND
\* requests of an emergency in the same queue.
SingleOffboardCall ==
  /\ AtMostOne(OffboardCalls) /\ offboardReplies <= 1
  /\ OffboardCalls = {} \/ offboardReplies = 0
  /\ OffboardCalls # {} \/ offboardReplies > 0 => apply_offboard_flag_

\* However long a request or its reply takes, a disarm call is outstanding only
\* in LAND, with every waypoint reached (base_controller.cpp:181-191).
DisarmOnlyInLand ==
  DisarmCalls # {} \/ DisarmAnswers # {} \/ apply_disarm_flag_ =>
    flight_state_ = "LAND" /\ current_waypoint_index_ = NumWaypoints

\* A disarm flag without an outstanding call means that the vehicle did disarm
\* (base_controller.cpp:203): the node never waits for a state that will not
\* come, unless MAVROS lost the call.
DisarmFlagSound ==
  apply_disarm_flag_ /\ DisarmCalls = {} /\ DisarmAnswers = {} /\ crashes = 0 =>
    ~fcu.armed

\* No second disarm call while one is outstanding (base_controller.cpp:187).
SingleDisarmCall ==
  /\ AtMostOne(DisarmCalls) /\ AtMostOne(DisarmAnswers)
  /\ DisarmCalls = {} \/ DisarmAnswers = {}

\* No service is called, and no flight state entered, before the warm-up sent
\* its setpoints (test_task_controller.cpp:25), AUTO.LAND included.
NothingBeforeWarmup ==
  modeRequests # <<>> \/ armRequests # <<>> \/ flight_state_ # "INIT" =>
    offboard_setpoint_counter_ > WarmupTicks

\* The only ticks that send no setpoint are the touch-down of tilt_land
\* (test_task_controller.cpp:322-328) and those of an emergency that finds the
\* route flown (test_task_controller.cpp:172-174).
SetpointGaps ==
  setpoint.kind = "none" =>
    /\ flight_state_ \in {"WAYPOINT", "LAND"}
    /\ current_waypoint_index_ = NumWaypoints

\* test_task_controller.cpp:24: whatever the state, a setpoint is sent first.
EveryTickPublishes == setpoint.kind # "none"

\* The flight implements the abstract mission.
Abstract == INSTANCE Mission WITH
  phase <- flight_state_, visited <- current_waypoint_index_,
  disarming <- (DisarmCalls # {})
MissionSpec == Abstract!Spec

-----------------------------------------------------------------------------
(* The strengthening the proofs need *)

RouteOrder ==
  /\ flight_state_ \in {"INIT", "TAKEOFF"} => current_waypoint_index_ = 0
  /\ flight_state_ \in {"TILTLAND", "LAND"} => current_waypoint_index_ = NumWaypoints

WarmedUp ==
  /\ setpoint_ready_ => offboard_setpoint_counter_ > WarmupTicks
  /\ ~setpoint_ready_ => modeRequests = <<>> /\ armRequests = <<>> /\ flight_state_ = "INIT"

\* The inductive invariant: the safety properties, how far the route is flown
\* in each flight state, and what the warm-up keeps back.
Inductive ==
  /\ TypeOK /\ RouteOrder /\ WarmedUp
  /\ SingleArmCall /\ SingleOffboardCall /\ DisarmOnlyInLand /\ SetpointGaps

-----------------------------------------------------------------------------
(* Liveness *)

\* A launch that is not taken back ends with the vehicle landed and disarmed.
MissionCompletes ==
  <>[]launch_flag_ => <>(flight_state_ = "LAND" /\ ~fcu.armed)

\* test_task_controller.cpp:97: while the vehicle is not armed, arming is
\* requested again and again.
ArmingRetried ==
  <>[](setpoint_ready_ /\ flight_state_ = "INIT" /\ ~check_emergency_condition /\ WantsArm)
    => []<>(ArmCalls # {})

\* A launch taken back for good leaves no OFFBOARD or arming call behind that
\* could still take effect (test_task_controller.cpp:87).
LaunchRevoked ==
  <>[](~launch_flag_ /\ flight_state_ = "INIT")
    => <>[](ArmCalls = {} /\ OffboardCalls = {})

\* An emergency that lasts brings the autopilot to AUTO.LAND and keeps it there,
\* whatever MAVROS lost before and whatever OFFBOARD call was still under way
\* (test_task_controller.cpp:76-81).
EmergencyLands ==
  <>[]check_emergency_condition => <>[](fcu.mode = "AUTO.LAND")
=============================================================================
