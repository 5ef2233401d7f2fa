------------------------------ MODULE ScanFilter ------------------------------
(***************************************************************************)
(* Preprocess up to the extraction of features: which points of a scan     *)
(* FAST-LIO keeps, and the time each gets.  One step is one turn of a      *)
(* handler's loop, with the point the lidar measured there.                *)
(*                                                                         *)
(* A place is its distance from the lidar, 0 is the lidar itself.  The     *)
(* time of a point is what the lidar has turned since the scan began; when *)
(* the message has no times they are computed from the yaw.                *)
(***************************************************************************)
EXTENDS Integers, Sequences

CONSTANTS
  N_SCANS,            \* the lines of the lidar
  point_filter_num,
  blind,              \* the points nearer than this are dropped
  Distances,          \* the distances that occur
  Turn,               \* a turn of the lidar
  MaxPoints           \* bound: points of a scan

ASSUME FilterAssumption ==
  /\ N_SCANS \in Nat \ {0} /\ point_filter_num \in Nat \ {0}
  /\ blind \in Nat \ {0} /\ Distances \subseteq Nat
  /\ Turn \in Nat \ {0} /\ MaxPoints \in Nat

VARIABLES
  lidar_type, feature_enabled, given_offset_time,
  point_idx, point_time,      \* the turn of the loop, the time of the last point
  valid_num, pl_full,         \* avia_handler: the points counted, the place in pl_full[i - 1]
  first_time, yaw_fp,         \* per line, Unseen before its first point
  time_last,
  last_seen,                  \* per line, when the lidar measured its last point
  kept_points                     \* the points kept, in pl_surf or, for the features, in pl_buff

filterVars == <<lidar_type, feature_enabled, given_offset_time, point_idx, point_time, valid_num, pl_full,
                first_time, yaw_fp, time_last, last_seen, kept_points>>

LidarTypes == {"AVIA", "VELO16", "OUST64", "MID360", "default"}
ScanLines == 0..N_SCANS - 1
Unseen == -1

-----------------------------------------------------------------------------

Near(p) == p.place < blind
Far(p) == p.place > blind

Keep(p, curvature) ==
  kept_points' = Append(kept_points,
    [sent |-> p.time, line |-> p.line, curvature |-> curvature])
Drop == UNCHANGED kept_points

KeepIf(condition, p, curvature) ==
  \/ condition /\ Keep(p, curvature)
  \/ ~condition /\ Drop

\* The features need every point, else every point_filter_num-th is looked at.
Thinned(n) == ~feature_enabled => n % point_filter_num = 0

\* A point of a known line and of a good return is counted.  pl_full[i - 1] is the
\* origin when that point was not looked at.
avia_handler(p) ==
  LET passed == point_idx > 0 /\ p.line \in ScanLines /\ p.good
      chosen == passed /\ Thinned(valid_num + 1)
  IN /\ valid_num' = IF passed /\ ~feature_enabled THEN valid_num + 1 ELSE valid_num
     /\ pl_full' = IF chosen THEN p.place ELSE 0
     /\ KeepIf(chosen /\ p.place # pl_full /\ (feature_enabled \/ Far(p)), p, p.time)
     /\ UNCHANGED <<first_time, yaw_fp, time_last>>

oust64_handler(p) ==
  /\ KeepIf(Thinned(point_idx) /\ ~Near(p) /\ (feature_enabled => p.line \in ScanLines), p, p.time)
  /\ UNCHANGED <<valid_num, pl_full, first_time, yaw_fp, time_last>>

default_handler(p) ==
  /\ KeepIf(Far(p), p, 0)
  /\ UNCHANGED <<valid_num, pl_full, first_time, yaw_fp, time_last>>

-----------------------------------------------------------------------------
(* The times of a message that has none *)

\* The lidar turns against the sense of the yaw.
Yaw(time) == (-time) % Turn

\* What the line has turned since its first point, but for whole turns.
Turned(line, yaw) ==
  IF yaw <= yaw_fp[line] THEN yaw_fp[line] - yaw ELSE yaw_fp[line] - yaw + Turn

\* Faulty: a second turn is not noticed.
Faulty_OffsetTime(line, yaw) == Turned(line, yaw)

\* A time before the line's last one is of the next turn.
OffsetTime(line, yaw) ==
  Turned(line, yaw) + (IF Turned(line, yaw) < time_last[line] THEN Turn ELSE 0)

\* The first point of a line only starts its clock.
FirstOfLine(p) ==
  /\ first_time[p.line] = Unseen
  /\ first_time' = [first_time EXCEPT ![p.line] = p.time]
  /\ yaw_fp' = [yaw_fp EXCEPT ![p.line] = Yaw(p.time)]
  /\ time_last' = [time_last EXCEPT ![p.line] = 0]
  /\ Drop

TimedPoint(kept, p) ==
  LET curvature == OffsetTime(p.line, Yaw(p.time)) IN
  /\ first_time[p.line] # Unseen
  /\ time_last' = [time_last EXCEPT ![p.line] = curvature]
  /\ KeepIf(kept, p, curvature)
  /\ UNCHANGED <<first_time, yaw_fp>>

\* The points are thinned out after the clocks of the lines have seen them.  The lines
\* are asked for only where the features are extracted.
velodyne_handler(p) ==
  LET kept == feature_enabled \/ (Thinned(point_idx) /\ Far(p)) IN
  /\ \/ /\ p.line \notin ScanLines
        /\ Drop /\ UNCHANGED <<first_time, yaw_fp, time_last>>
     \/ /\ p.line \in ScanLines /\ given_offset_time
        /\ KeepIf(kept, p, p.time)
        /\ UNCHANGED <<first_time, yaw_fp, time_last>>
     \/ /\ p.line \in ScanLines /\ ~given_offset_time
        /\ FirstOfLine(p) \/ TimedPoint(kept, p)
  /\ UNCHANGED <<valid_num, pl_full>>

mid360_handler(p) ==
  /\ FirstOfLine(p) \/ TimedPoint(Far(p), p)
  /\ UNCHANGED <<valid_num, pl_full>>

-----------------------------------------------------------------------------
(* process *)

ProcessPoint(p) ==
  \/ lidar_type = "AVIA" /\ avia_handler(p)
  \/ lidar_type = "OUST64" /\ oust64_handler(p)
  \/ lidar_type = "VELO16" /\ velodyne_handler(p)
  \/ lidar_type = "MID360" /\ mid360_handler(p)
  \/ lidar_type = "default" /\ default_handler(p)

LinesAsked == lidar_type \in {"AVIA", "OUST64"} \/ (lidar_type = "VELO16" /\ feature_enabled)

\* A spinning lidar: less than a turn from one point of a line to the next.
Measured ==
  { p \in [line : ScanLines \cup {N_SCANS}, place : Distances,
           time : point_time..point_time + Turn - 1, good : BOOLEAN] :
      /\ p.good \/ lidar_type = "AVIA"
      /\ p.line \in ScanLines \/ LinesAsked
      /\ p.line \in ScanLines /\ first_time[p.line] # Unseen => p.time - last_seen[p.line] < Turn }

FilterNext ==
  /\ point_idx < MaxPoints
  /\ \E p \in Measured :
       /\ ProcessPoint(p)
       /\ point_time' = p.time
       /\ last_seen' = [l \in ScanLines |-> IF l = p.line THEN p.time ELSE last_seen[l]]
  /\ point_idx' = point_idx + 1
  /\ UNCHANGED <<lidar_type, feature_enabled, given_offset_time>>

\* A Velodyne message has times when its last point has; one of the mid360 handler
\* is never asked.
FilterInit ==
  /\ lidar_type \in LidarTypes
  /\ feature_enabled \in BOOLEAN
  /\ given_offset_time \in (IF lidar_type = "VELO16" THEN BOOLEAN ELSE {lidar_type # "MID360"})
  /\ point_idx = 0 /\ point_time = 0
  /\ valid_num = 0 /\ pl_full = 0
  /\ first_time = [l \in ScanLines |-> Unseen]
  /\ yaw_fp = [l \in ScanLines |-> 0] /\ time_last = [l \in ScanLines |-> 0]
  /\ last_seen = [l \in ScanLines |-> 0]
  /\ kept_points = <<>>

FilterSpec == FilterInit /\ [][FilterNext]_filterVars

-----------------------------------------------------------------------------
(* Properties *)

\* The time of a kept point is that of the lidar; when it is computed from the yaw, it
\* counts from the first point of its line and is right for two turns of the line, as
\* long as less than a turn lies between two points of it (preprocess.cpp:430-457).
Steady(p) == \A q \in {kept_points[n] : n \in DOMAIN kept_points} :
  q.line = p.line => q.sent - first_time[q.line] < 2 * Turn
ScanTimes ==
  \A n \in DOMAIN kept_points :
    LET p == kept_points[n] IN
    /\ given_offset_time /\ lidar_type # "default" => p.curvature = p.sent
    /\ ~given_offset_time /\ lidar_type # "default" /\ Steady(p) => p.curvature = p.sent - first_time[p.line]
=============================================================================
