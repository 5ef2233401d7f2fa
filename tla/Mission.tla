------------------------------- MODULE Mission ------------------------------
(***************************************************************************)
(* What the flight promises to the ground crew: it goes through its phases *)
(* in order and never back, it reaches the waypoints one after the other,  *)
(* it starts to land only when all of them have been reached, and only a   *)
(* landing vehicle is sent a disarm request.                               *)
(***************************************************************************)
EXTENDS Naturals

CONSTANT NumWaypoints

VARIABLES phase, visited, disarming

mission == <<phase, visited, disarming>>

Init == phase = "INIT" /\ visited = 0 /\ disarming = FALSE

TakeOff ==
  /\ phase = "INIT" /\ phase' = "TAKEOFF"
  /\ UNCHANGED <<visited, disarming>>

\* The first waypoint may be where the climb ended.
StartRoute ==
  /\ phase = "TAKEOFF" /\ phase' = "WAYPOINT"
  /\ visited' \in {0, 1}
  /\ UNCHANGED disarming

Reach ==
  /\ phase = "WAYPOINT" /\ visited < NumWaypoints
  /\ visited' = visited + 1
  /\ UNCHANGED <<phase, disarming>>

StartLanding ==
  /\ phase = "WAYPOINT" /\ visited = NumWaypoints
  /\ phase' \in {"TILTLAND", "LAND"}
  /\ UNCHANGED <<visited, disarming>>

TouchDown ==
  /\ phase = "TILTLAND" /\ phase' = "LAND"
  /\ UNCHANGED <<visited, disarming>>

Disarm ==
  /\ phase = "LAND"
  /\ disarming' \in BOOLEAN
  /\ UNCHANGED <<phase, visited>>

Next == TakeOff \/ StartRoute \/ Reach \/ StartLanding \/ TouchDown \/ Disarm

Spec == Init /\ [][Next]_mission
=============================================================================
