-------------------------- MODULE FeatureExtraction --------------------------
(***************************************************************************)
(* Preprocess with the extraction of features: give_feature walks four     *)
(* times over the points of a scan line and marks them, then gathers the   *)
(* surface points into the points FAST-LIO matches.  One step is one turn  *)
(* of one of its loops; what the distances and angles of the points say is *)
(* chosen freely.                                                          *)
(***************************************************************************)
EXTENDS Integers, Sequences, FiniteSetsExt

CONSTANTS
  LineSizes,          \* the numbers of points of a line that occur
  group_size,         \* a plane has at least so many points
  SurfaceThinning,    \* point_filter_num, where it thins out the surface points
  MaxNear             \* bound: points of a line inside the blind range

ASSUME FeatureAssumption ==
  /\ LineSizes \subseteq Nat \ {0} /\ group_size \in Nat \ {0}
  /\ SurfaceThinning \in Nat \ {0} /\ MaxNear \in Nat

VARIABLES
  plsize, near,               \* the line: its points, those inside the blind range
  pass, cursor, head,         \* the loop, its i, the first point outside the blind range
  last_state,                 \* the last group was a plane
  ftype,
  last_surface,               \* where the open run of surface points began, NoRun
  pl_surf, pl_corn            \* the sets of points averaged into one, the corners

featureVars == <<plsize, near, pass, cursor, head, last_state, ftype, last_surface, pl_surf, pl_corn>>

FeatureTypes == {"Nor", "Poss_Plane", "Real_Plane", "Edge_Jump", "Edge_Plane", "Wire"}
NoRun == -1
LinePoints == 0..plsize - 1
Surface(f) == f \in {"Poss_Plane", "Real_Plane"}

NoneNear(points) == points \cap near = {}

-----------------------------------------------------------------------------

\* Runs past the end when every point is near: such a line is not begun here.
FindHead ==
  /\ pass = "head"
  /\ \/ head \in near /\ head' = head + 1 /\ UNCHANGED <<pass, cursor>>
     \/ head \notin near /\ pass' = "surf" /\ cursor' = head /\ UNCHANGED head
  /\ UNCHANGED <<last_state, ftype, last_surface, pl_surf, pl_corn>>

\* Faulty: the blind range is only asked for the first points of the group.
Faulty_GroupEnds ==
  { n \in cursor + group_size..plsize : NoneNear(cursor..cursor + group_size - 1) }

\* Where a group that begins at the cursor may end; it may end past the last point.
GroupEnds == { n \in cursor + group_size..plsize : NoneNear(cursor..n) }

\* plane_judge: the first near point ends the group before it is judged.
PlaneJudge(verdict, i_nex) ==
  \/ verdict \in {"plane", "no plane"} /\ i_nex \in GroupEnds
  \/ /\ verdict = "near"
     /\ i_nex \in near /\ i_nex > cursor /\ NoneNear(cursor..i_nex - 1)

\* The ends of a plane are only possible members, unless the plane before it ended here.
MarkPlane(i_nex) ==
  \E joint \in (IF last_state THEN {"Edge_Plane", "Real_Plane"} ELSE {"Poss_Plane"}) :
    ftype' = [j \in LinePoints |->
      CASE j = cursor -> joint
        [] j \in cursor + 1..i_nex - 1 -> "Real_Plane"
        [] j = i_nex -> "Poss_Plane"
        [] OTHER -> ftype[j]]

FindPlane ==
  \E i_nex \in 0..plsize :
    \/ /\ PlaneJudge("plane", i_nex)
       /\ MarkPlane(i_nex)
       /\ cursor' = i_nex /\ last_state' = TRUE
    \/ /\ PlaneJudge("no plane", i_nex) \/ PlaneJudge("near", i_nex)
       /\ cursor' = i_nex + 1 /\ last_state' = FALSE
       /\ UNCHANGED ftype

SurfLoop ==
  /\ pass = "surf"
  /\ \/ /\ cursor < plsize - group_size
        /\ \/ cursor \in near /\ cursor' = cursor + 1 /\ UNCHANGED <<last_state, ftype>>
           \/ cursor \notin near /\ FindPlane
        /\ UNCHANGED pass
     \/ /\ cursor >= plsize - group_size
        /\ pass' = "jump" /\ cursor' = head + 3
        /\ UNCHANGED <<last_state, ftype>>
  /\ UNCHANGED <<head, last_surface, pl_surf, pl_corn>>

-----------------------------------------------------------------------------

Mark(i, f) == ftype' = [ftype EXCEPT ![i] = f]

\* edge_jump_judge: two points on the smooth side.
Smooth(i) == NoneNear({i - 1, i - 2}) \/ NoneNear({i + 1, i + 2})

JumpTurn(i) ==
  \/ UNCHANGED ftype
  \/ /\ i \notin near /\ ftype[i] \in {"Nor", "Poss_Plane"}
     /\ \/ Smooth(i) /\ Mark(i, "Edge_Jump")
        \/ ftype[i] = "Nor" /\ Mark(i, "Wire")

JumpLoop ==
  /\ pass = "jump"
  /\ \/ cursor < plsize - 3 /\ JumpTurn(cursor) /\ cursor' = cursor + 1 /\ UNCHANGED pass
     \/ cursor >= plsize - 3 /\ pass' = "small" /\ cursor' = head + 1 /\ UNCHANGED ftype
  /\ UNCHANGED <<head, last_state, last_surface, pl_surf, pl_corn>>

\* Only a point the loop before has judged knows the angle at it.
SmallTurn(i) ==
  \/ UNCHANGED ftype
  \/ /\ NoneNear(i - 1..i + 1) /\ ftype[i] = "Nor"
     /\ i \in head + 3..plsize - 4
     /\ ftype' = [j \in LinePoints |->
          IF j \in i - 1..i + 1 /\ ftype[j] = "Nor" THEN "Real_Plane" ELSE ftype[j]]

SmallLoop ==
  /\ pass = "small"
  /\ \/ cursor < plsize - 1 /\ SmallTurn(cursor) /\ cursor' = cursor + 1 /\ UNCHANGED pass
     \/ cursor >= plsize - 1 /\ pass' = "collect" /\ cursor' = head /\ UNCHANGED ftype
  /\ UNCHANGED <<head, last_state, last_surface, pl_surf, pl_corn>>

-----------------------------------------------------------------------------

\* Of a full run the last point stands for all.
SurfacePoint(j) ==
  LET first == IF last_surface = NoRun THEN j ELSE last_surface IN
  /\ Surface(ftype[j])
  /\ IF j = first + SurfaceThinning - 1
     THEN pl_surf' = Append(pl_surf, [from |-> first, to |-> j, points |-> {j}])
          /\ last_surface' = NoRun
     ELSE last_surface' = first /\ UNCHANGED pl_surf
  /\ UNCHANGED pl_corn

\* Any other point closes the run, which is averaged.
OtherPoint(j) ==
  /\ ~Surface(ftype[j])
  /\ pl_corn' = IF ftype[j] \in {"Edge_Jump", "Edge_Plane"} THEN Append(pl_corn, j) ELSE pl_corn
  /\ pl_surf' = IF last_surface = NoRun THEN pl_surf
                ELSE Append(pl_surf, [from |-> last_surface, to |-> j - 1, points |-> last_surface..j - 1])
  /\ last_surface' = NoRun

\* Faulty: a corner does not close the run.
Faulty_Collect(j) ==
  \/ SurfacePoint(j)
  \/ OtherPoint(j) /\ ftype[j] \notin {"Edge_Jump", "Edge_Plane"}
  \/ /\ ftype[j] \in {"Edge_Jump", "Edge_Plane"} /\ pl_corn' = Append(pl_corn, j)
     /\ UNCHANGED <<last_surface, pl_surf>>

Collect(j) == SurfacePoint(j) \/ OtherPoint(j)

CollectLoop ==
  /\ pass = "collect"
  /\ \/ cursor < plsize /\ Collect(cursor) /\ cursor' = cursor + 1 /\ UNCHANGED pass
     \/ cursor >= plsize /\ pass' = "done" /\ UNCHANGED <<cursor, last_surface, pl_surf, pl_corn>>
  /\ UNCHANGED <<head, last_state, ftype>>

FeatureNext ==
  /\ FindHead \/ SurfLoop \/ JumpLoop \/ SmallLoop \/ CollectLoop
  /\ UNCHANGED <<plsize, near>>

FeatureInit ==
  /\ plsize \in LineSizes
  /\ near \in { s \in SUBSET LinePoints : Cardinality(s) <= MaxNear /\ s # LinePoints }
  /\ pass = "head" /\ cursor = 0 /\ head = 0
  /\ last_state = FALSE
  /\ ftype = [i \in LinePoints |-> "Nor"]
  /\ last_surface = NoRun /\ pl_surf = <<>> /\ pl_corn = <<>>

FeatureSpec == FeatureInit /\ [][FeatureNext]_featureVars

-----------------------------------------------------------------------------
(* Properties *)

Runs == { pl_surf[n] : n \in DOMAIN pl_surf }
Passed == IF pass \in {"collect", "done"} THEN { j \in LinePoints : j < cursor } ELSE {}
OpenRun == IF last_surface = NoRun THEN {} ELSE last_surface..cursor - 1

\* Each point that comes out stands for a run of at most SurfaceThinning neighbouring
\* surface points; the runs do not meet, every surface point seen is in one of them or
\* in the open one, and nothing inside the blind range comes out, as a surface point, a
\* part of an averaged one or a corner (preprocess.cpp:588-895, 905-960).
SurfaceRuns ==
  /\ \A r \in Runs : r.to - r.from < SurfaceThinning /\ NoneNear(r.points)
  /\ \A m, n \in DOMAIN pl_surf : m < n => pl_surf[m].to < pl_surf[n].from
  /\ { j \in Passed : Surface(ftype[j]) } = (UNION { r.from..r.to : r \in Runs }) \cup OpenRun
  /\ \A n \in DOMAIN pl_corn : pl_corn[n] \notin near
=============================================================================
