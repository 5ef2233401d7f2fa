------------------------- MODULE WaypointCompression -------------------------
(***************************************************************************)
(* compress_waypoints: the route the ground station sends, one waypoint    *)
(* per cell, loses the waypoints inside its straight lines.  The first     *)
(* and the last waypoint, corners and U-turns are kept, and the middle of  *)
(* a line that loses four waypoints or more is added.  One step is one     *)
(* turn of the loop.                                                       *)
(*                                                                         *)
(* Waypoints are points of the plane, those of neighbouring cells differ;  *)
(* their coordinates are even, so that the middle of two of them is again  *)
(* a pair of integers.                                                     *)
(***************************************************************************)
EXTENDS Integers, Sequences

CONSTANT Routes     \* the routes the ground station sends, sequences of points

ASSUME RoutesAssumption ==
  \A r \in Routes :
    /\ r \in Seq(Int \X Int)
    /\ \A k \in DOMAIN r : r[k][1] % 2 = 0 /\ r[k][2] % 2 = 0
    /\ \A k \in 1..Len(r) - 1 : r[k] # r[k + 1]

VARIABLES
  raw_waypoints, waypoints,
  curr_idx,                  \* the waypoint the loop looks at, i of the code, in 2..Len - 1
  line_start_idx, current_line_points,
  compressed          \* the function has returned

compressVars ==
  <<raw_waypoints, waypoints, curr_idx, line_start_idx, current_line_points, compressed>>

-----------------------------------------------------------------------------

Vector(p, q) == <<q[1] - p[1], q[2] - p[2]>>
Cross(u, v) == u[1] * v[2] - u[2] * v[1]
Dot(u, v) == u[1] * v[1] + u[2] * v[2]
Middle(p, q) == <<(p[1] + q[1]) \div 2, (p[2] + q[2]) \div 2>>

Arriving == Vector(raw_waypoints[curr_idx - 1], raw_waypoints[curr_idx])
Leaving  == Vector(raw_waypoints[curr_idx], raw_waypoints[curr_idx + 1])

is_uturn == Cross(Arriving, Leaving) = 0 /\ Dot(Arriving, Leaving) < 0

\* Faulty: a line that goes back on itself is one line.
Faulty_KeyPoint == Cross(Arriving, Leaving) # 0

KeyPoint == Cross(Arriving, Leaving) # 0 \/ is_uturn

\* The middle of a long line, which ends at its last waypoint but one: the key point
\* after it is not counted.
LineMiddle(last) ==
  IF Len(current_line_points) >= 4
  THEN <<Middle(raw_waypoints[line_start_idx], raw_waypoints[last])>>
  ELSE <<>>

KeepPoint ==
  /\ KeyPoint
  /\ waypoints' = waypoints \o LineMiddle(curr_idx - 1) \o <<raw_waypoints[curr_idx]>>
  /\ line_start_idx' = curr_idx
  /\ current_line_points' = <<>>

MergePoint ==
  /\ ~KeyPoint
  /\ line_start_idx' = IF current_line_points = <<>> THEN curr_idx - 1 ELSE line_start_idx
  /\ current_line_points' = Append(current_line_points, curr_idx)
  /\ UNCHANGED waypoints

VisitWaypoint ==
  /\ ~compressed /\ curr_idx < Len(raw_waypoints)
  /\ KeepPoint \/ MergePoint
  /\ curr_idx' = curr_idx + 1
  /\ UNCHANGED <<raw_waypoints, compressed>>

\* What is left after the loop: the line that is still open, and the end point.
CloseRoute ==
  /\ ~compressed /\ curr_idx = Len(raw_waypoints)
  /\ waypoints' = waypoints \o LineMiddle(curr_idx - 1) \o <<raw_waypoints[curr_idx]>>
  /\ compressed' = TRUE
  /\ UNCHANGED <<raw_waypoints, curr_idx, line_start_idx, current_line_points>>

-----------------------------------------------------------------------------

\* A route of two waypoints or less comes back as it is.
CompressInit ==
  /\ raw_waypoints \in Routes
  /\ compressed = (Len(raw_waypoints) <= 2)
  /\ waypoints = IF compressed THEN raw_waypoints ELSE <<raw_waypoints[1]>>
  /\ curr_idx = 2
  /\ line_start_idx = 1
  /\ current_line_points = <<>>

CompressNext == VisitWaypoint \/ CloseRoute

CompressSpec == CompressInit /\ [][CompressNext]_compressVars

-----------------------------------------------------------------------------
(* Properties *)

\* p lies on the straight line the vehicle flies from a to b.
On(p, a, b) ==
  /\ Cross(Vector(a, b), Vector(a, p)) = 0
  /\ Dot(Vector(p, a), Vector(p, b)) <= 0

\* The vehicle that flies the compressed route, from waypoint to waypoint, comes by
\* every waypoint it was sent, in their order: reaching one of the route's legs and
\* never an earlier leg than for the waypoint before (test_task_controller.cpp:445-598).
RouteCovered ==
  compressed /\ Len(waypoints) >= 2 =>
    \E leg \in [DOMAIN raw_waypoints -> 1..(Len(waypoints) - 1)] :
      /\ \A k \in DOMAIN raw_waypoints :
           On(raw_waypoints[k], waypoints[leg[k]], waypoints[leg[k] + 1])
      /\ \A k \in DOMAIN raw_waypoints : k > 1 => leg[k - 1] <= leg[k]
=============================================================================
