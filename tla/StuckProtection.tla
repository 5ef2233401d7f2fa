--------------------------- MODULE StuckProtection ---------------------------
(***************************************************************************)
(* The stuck protection of the flight node: on every tick in WAYPOINT it   *)
(* compares the position with the place the vehicle was at when the clock  *)
(* was last set, and eight seconds without a move make it ignore targets   *)
(* for one second.  Reaching a waypoint sets the place and the clock anew. *)
(*                                                                         *)
(* A position is a point of a line, the time is counted in ticks.          *)
(***************************************************************************)
EXTENDS Integers, Sequences

CONSTANTS
  Places,       \* the positions in flight
  MoveThreshold,\* waypoint_threshold_
  StuckAfter,   \* 8 s
  IgnoreFor,    \* 1 s
  MaxTicks      \* bound: ticks of a behaviour

ASSUME StuckAssumption ==
  /\ Places \subseteq Int /\ MoveThreshold \in Nat
  /\ StuckAfter \in Nat \ {0} /\ IgnoreFor \in Nat \ {0} /\ MaxTicks \in Nat

VARIABLES
  now,                     \* the node's clock
  local_position_,
  last_position_,          \* last_position_x_, _y_ and _z_
  last_position_time_,     \* NoTime: the default value, of another clock
  position_stuck_detected_,
  ignore_target_until_, ignoring_targets_,
  trail                    \* history: the positions at the ticks so far

stuckVars == <<now, local_position_, last_position_, last_position_time_,
               position_stuck_detected_, ignore_target_until_, ignoring_targets_, trail>>

NoTime == -1

-----------------------------------------------------------------------------

Apart(a, b) == IF a < b THEN b - a ELSE a - b
Moved == Apart(local_position_, last_position_) > MoveThreshold

PositionChanged ==
  /\ Moved
  /\ last_position_time_' = now /\ last_position_' = local_position_
  /\ position_stuck_detected_' = FALSE
  /\ UNCHANGED ignore_target_until_

StuckNow == ~position_stuck_detected_ /\ now - last_position_time_ >= StuckAfter

\* rclcpp refuses to subtract the default time from the node's: the node ends there.
PositionKept ==
  /\ ~Moved /\ last_position_time_ # NoTime
  /\ IF StuckNow
       THEN position_stuck_detected_' = TRUE /\ ignore_target_until_' = now + IgnoreFor
       ELSE UNCHANGED <<position_stuck_detected_, ignore_target_until_>>
  /\ UNCHANGED <<last_position_, last_position_time_>>

\* The ignoring begins with the detection and is over when its time has come.
Ignoring ==
  LET began == position_stuck_detected_' /\ ~position_stuck_detected_ IN
  (began \/ ignoring_targets_) /\ now < ignore_target_until_'

check_position_stuck_protection ==
  /\ PositionChanged \/ PositionKept
  /\ ignoring_targets_' = Ignoring

\* Faulty: the clock keeps running.
Faulty_reset_position_stuck_detection ==
  /\ position_stuck_detected_' = FALSE /\ ignoring_targets_' = FALSE
  /\ last_position_' = local_position_
  /\ UNCHANGED <<last_position_time_, ignore_target_until_>>

reset_position_stuck_detection ==
  /\ position_stuck_detected_' = FALSE /\ ignoring_targets_' = FALSE
  /\ last_position_time_' = now /\ last_position_' = local_position_
  /\ UNCHANGED ignore_target_until_

\* The times can be subtracted, where they are.
TimesComparable == ~Moved => last_position_time_ # NoTime

\* A tick of the mission.  The check comes first; on a tick that reaches a waypoint
\* the reset overwrites what it did.
execute_waypoint_mission ==
  /\ now < MaxTicks
  /\ \/ check_position_stuck_protection
     \/ TimesComparable /\ reset_position_stuck_detection
  /\ now' = now + 1
  /\ trail' = Append(trail, local_position_)
  /\ local_position_' \in {p \in Places : Apart(p, local_position_) <= 2}

-----------------------------------------------------------------------------

\* The first tick in WAYPOINT is at the take-off point, well above the ground.
StuckInit ==
  /\ now = 0
  /\ local_position_ \in {p \in Places : Apart(p, 0) > MoveThreshold}
  /\ last_position_ = 0 /\ last_position_time_ = NoTime
  /\ position_stuck_detected_ = FALSE
  /\ ignore_target_until_ = 0 /\ ignoring_targets_ = FALSE
  /\ trail = <<>>

StuckNext == execute_waypoint_mission

StuckSpec == StuckInit /\ [][StuckNext]_stuckVars

-----------------------------------------------------------------------------
(* Properties *)

\* A vehicle that is taken for stuck was for the whole time near the place it is
\* at, whatever waypoints were reached before; and no tick subtracts times of
\* different clocks (test_task_controller.cpp:256-263).
StuckSound ==
  [][/\ TimesComparable'
     /\ ~position_stuck_detected_ /\ position_stuck_detected_' =>
          \A t \in DOMAIN trail' :
            t > now + 1 - StuckAfter =>
              Apart(trail'[t], local_position_) <= 2 * MoveThreshold]_stuckVars
=============================================================================
