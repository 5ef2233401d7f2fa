---------------------------- MODULE MCOffboard ------------------------------
(* Values of the constants of Offboard for TLC. *)
EXTENDS OffboardProps

At(px, py, pz) == [x |-> px, y |-> py, z |-> pz]

\* The ground, a skid below 8 cm, the take-off point, the waypoints, a point
\* of the 45 degree line.
InRange == {Origin, At(0, 0, 5), At(0, 0, 110), At(200, 0, 110),
            At(200, -200, 110), At(0, -200, 110), At(0, -110, 110)}

\* Beyond the fence: high up, and sideways on the ground.
OutOfRange == {At(0, -200, 250), At(700, 0, 0)}

MCPositions == InRange \cup OutOfRange
NoDrift == {}

\* For the emergencies: on the ground, in the air and out of range.
FewPositions == {Origin, At(0, 0, 110), At(0, -200, 250), At(700, 0, 0)}
=============================================================================
