------------------------------- MODULE LocalMap -------------------------------
(***************************************************************************)
(* The part of the world FAST-LIO keeps: a cube that moves with the lidar, *)
(* and the points of the ikd-tree, which the cube's moves delete and the   *)
(* scans add.                                                              *)
(*                                                                         *)
(* Lengths are counted so that DET_RANGE is 2 * HalfRange and cube_len is  *)
(* 6 * HalfRange + 20 * Slack, which makes every length of the code whole. *)
(***************************************************************************)
EXTENDS Integers, FiniteSets, FiniteSetsExt

CONSTANTS
  Axes,              \* the axes of the world
  HalfRange,         \* half of DET_RANGE
  Slack,             \* what cube_len has more than three times DET_RANGE, over 20
  Steps,             \* how the lidar moves between two scans, on an axis
  MaxPosition,       \* bound: the places the lidar visits, on an axis
  Landmarks,         \* the points it sees, functions from Axes
  VoxelSide,         \* filter_size_map_min
  NUM_MATCH_POINTS

DET_RANGE == 2 * HalfRange
cube_len == 6 * HalfRange + 20 * Slack
EdgeMargin == 3 * HalfRange     \* MOV_THRESHOLD * DET_RANGE

\* Three times the range and a half fit into the cube, and the lidar cannot cross in
\* one scan what a move of the cube gains.
ASSUME MapAssumption ==
  /\ HalfRange \in Nat \ {0} /\ Slack \in Nat /\ 20 * Slack >= HalfRange
  /\ Steps \subseteq -HalfRange..HalfRange /\ MaxPosition \in Nat
  /\ VoxelSide \in Nat \ {0} /\ NUM_MATCH_POINTS \in Nat \ {0}
  /\ Landmarks \subseteq [Axes -> Int]

VARIABLES
  pos_LiD,
  Localmap_Initialized,
  vertex_min, vertex_max,     \* LocalMap_Points
  ikdtree                     \* the points of the map

mapVars == <<pos_LiD, Localmap_Initialized, vertex_min, vertex_max, ikdtree>>

-----------------------------------------------------------------------------
(* lasermap_fov_segment *)

AxisDistance(a, b) == IF a < b THEN b - a ELSE a - b

\* Faulty: the cube moves to the edge of what is seen, and no further.
Faulty_mov_dist == HalfRange - 1

\* Nine tenths of half the slack, or half the range.
mov_dist == IF 9 * Slack > HalfRange THEN 9 * Slack ELSE HalfRange

AtMin(i, pos) == AxisDistance(pos[i], vertex_min[i]) <= EdgeMargin
AtMax(i, pos) == ~AtMin(i, pos) /\ AxisDistance(pos[i], vertex_max[i]) <= EdgeMargin

\* What the move on axis i leaves behind, the slab of the old cube at its other end.
LeftBehind(i, pos, p) ==
  /\ \A a \in Axes : vertex_min[a] <= p[a] /\ p[a] <= vertex_max[a]
  /\ \/ AtMin(i, pos) /\ p[i] > vertex_max[i] - mov_dist
     \/ AtMax(i, pos) /\ p[i] < vertex_min[i] + mov_dist

MoveOf(i, pos) ==
  IF AtMin(i, pos) THEN -mov_dist ELSE IF AtMax(i, pos) THEN mov_dist ELSE 0

PlaceCube(pos) ==
  /\ Localmap_Initialized' = TRUE
  /\ vertex_min' = [i \in Axes |-> pos[i] - cube_len \div 2]
  /\ vertex_max' = [i \in Axes |-> pos[i] + cube_len \div 2]

MoveCube(pos) ==
  /\ vertex_min' = [i \in Axes |-> vertex_min[i] + MoveOf(i, pos)]
  /\ vertex_max' = [i \in Axes |-> vertex_max[i] + MoveOf(i, pos)]
  /\ UNCHANGED Localmap_Initialized

lasermap_fov_segment(pos) ==
  \/ ~Localmap_Initialized /\ PlaceCube(pos)
  \/ Localmap_Initialized /\ MoveCube(pos)

\* Delete_Point_Boxes.
Segmented(pos) ==
  IF Localmap_Initialized
  THEN {p \in ikdtree : \A i \in Axes : ~LeftBehind(i, pos, p)}
  ELSE ikdtree

-----------------------------------------------------------------------------
(* map_incremental *)

\* The centre of a point's voxel, in halves.
MidPoint(p) == [i \in Axes |-> 2 * VoxelSide * (p[i] \div VoxelSide) + VoxelSide]
ToMid(q, mid) == MapThenSumSet(LAMBDA i : (2 * q[i] - mid[i]) * (2 * q[i] - mid[i]), Axes)
SquareDistance(p, q) == MapThenSumSet(LAMBDA i : (p[i] - q[i]) * (p[i] - q[i]), Axes)

\* The nearest points of the map, as many as NUM_MATCH_POINTS, the nearest first.
NearestPoint(tree, p) == {q \in tree : \A r \in tree : SquareDistance(p, q) <= SquareDistance(p, r)}
KnownPoints(tree, p) ==
  {q \in tree : Cardinality({r \in tree : SquareDistance(p, r) < SquareDistance(p, q)}) < NUM_MATCH_POINTS}

\* The nearest point is of another voxel on every axis.
NoNeedDownsample(tree, p) ==
  \E q \in NearestPoint(tree, p) : \A i \in Axes : AxisDistance(2 * q[i], MidPoint(p)[i]) > VoxelSide

\* Points enough are known here, and one of them is nearer to the centre.
Redundant(tree, p) ==
  /\ Cardinality(tree) >= NUM_MATCH_POINTS
  /\ \E q \in KnownPoints(tree, p) : ToMid(q, MidPoint(p)) < ToMid(p, MidPoint(p))

\* Of a voxel that gets points, the one nearest to its centre stays.
Stays(points, p) ==
  p = CHOOSE q \in {r \in points : MidPoint(r) = MidPoint(p)} :
        \A r \in points : MidPoint(r) = MidPoint(p) => ToMid(q, MidPoint(p)) <= ToMid(r, MidPoint(p))

Downsampled(tree, added) ==
  {p \in tree \cup added :
     (\E a \in added : MidPoint(a) = MidPoint(p)) => Stays(tree \cup added, p)}

\* Every point is judged by the map before the scan.
map_incremental(tree, feats, inited) ==
  LET known == inited /\ tree # {}
      free == {p \in feats : known /\ NoNeedDownsample(tree, p)}
      added == {p \in feats \ free : ~known \/ ~Redundant(tree, p)}
  IN Downsampled(tree, added) \cup free

-----------------------------------------------------------------------------
(* timer_callback *)

InRange(p, pos) == \A i \in Axes : AxisDistance(p[i], pos[i]) <= DET_RANGE

Reachable(pos) ==
  {p \in {[i \in Axes |-> pos[i] + step[i]] : step \in [Axes -> Steps]} :
     \A i \in Axes : p[i] \in -MaxPosition..MaxPosition}

\* An empty tree is built of the points as they are; one whose points were all deleted
\* may still have its root.
BuildMapTree(tree, feats) == tree = {} /\ ikdtree' = feats

\* A scan of what is in range.
LidarScan(pos, feats, inited) ==
  /\ pos_LiD' = pos
  /\ lasermap_fov_segment(pos)
  /\ \/ BuildMapTree(Segmented(pos), feats)
     \/ ikdtree' = map_incremental(Segmented(pos), feats, inited)

ScanNext ==
  \E pos \in Reachable(pos_LiD), inited \in BOOLEAN :
    \E feats \in SUBSET {p \in Landmarks : InRange(p, pos)} : LidarScan(pos, feats, inited)

MapInit ==
  /\ pos_LiD = [i \in Axes |-> 0]
  /\ Localmap_Initialized = FALSE
  /\ vertex_min = [i \in Axes |-> 0] /\ vertex_max = [i \in Axes |-> 0]
  /\ ikdtree = {}

MapSpec == MapInit /\ [][ScanNext]_mapVars

-----------------------------------------------------------------------------
(* Properties *)

\* After every scan the cube reaches one and a half times the range beyond the lidar,
\* on all sides: what the next scan sees is inside, and no point the lidar still sees
\* was ever deleted (laserMapping.cpp:251-275).
LidarInBox ==
  Localmap_Initialized =>
    \A i \in Axes :
      /\ vertex_max[i] - vertex_min[i] = cube_len
      /\ vertex_min[i] + EdgeMargin <= pos_LiD[i]
      /\ pos_LiD[i] + EdgeMargin <= vertex_max[i]

\* What the cube's moves leave behind is out of the map, which would else grow with the
\* flight (laserMapping.cpp:262-279): every point of it is inside the cube.
MapInBox ==
  \A p \in ikdtree : \A i \in Axes : vertex_min[i] <= p[i] /\ p[i] <= vertex_max[i]

\* Both: the lidar is well inside the cube, and all of the map is (laserMapping.cpp:235-281).
MapAround == LidarInBox /\ MapInBox
=============================================================================
