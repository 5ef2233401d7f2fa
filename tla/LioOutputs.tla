------------------------------ MODULE LioOutputs ------------------------------
(***************************************************************************)
(* What FAST-LIO publishes and saves of its packages.  The node has one    *)
(* thread: the timer that takes a package, the timer that publishes the    *)
(* map and the service that saves it are steps, in any order.              *)
(*                                                                         *)
(* A package, its cloud and the state the filter has with it are numbers,  *)
(* those of the packages; every package has samples of the IMU.            *)
(***************************************************************************)
EXTENDS Integers, Sequences

CONSTANTS
  scan_pub_en, scan_body_pub_en, effect_pub_en, path_en, map_pub_en, pcd_save_en,
  PathEvery,      \* 10, the packages between two poses of the path
  MaxPackages,    \* bound: packages of a behaviour
  MaxMap          \* bound: clouds in pcl_wait_pub

ASSUME OutputsAssumption ==
  /\ {scan_pub_en, scan_body_pub_en, effect_pub_en, path_en, map_pub_en, pcd_save_en} \subseteq BOOLEAN
  /\ PathEvery \in Nat \ {0} /\ MaxPackages \in Nat /\ MaxMap \in Nat

VARIABLES
  dense_pub_en,           \* the parameter publish.dense_publish_en
  package,                \* the number of the last package
  state_point,            \* the package whose samples moved the state last
  feats_undistort, feats_down_body,   \* the packages of the two clouds, NoCloud when empty
  emptyScans,             \* history: the packages of which no point was left
  map_built,              \* ikdtree.Root_Node
  covariance,             \* the package of the covariance in the odometry
  odomAftMapped,          \* the last message: the packages of its pose and its covariance
  jjj, path,
  cloud_registered,       \* the last clouds published, in the world and in the body frame
  cloud_body, cloud_effected,
  pcl_wait_pub,           \* the map: clouds, each with the state that placed it
  Laser_map, saved,       \* how many of them were published, and saved
  failed                  \* the node died of an empty map

scanVars == <<dense_pub_en, package, state_point, feats_undistort, feats_down_body, emptyScans, map_built>>
poseVarsOut == <<covariance, odomAftMapped, jjj, path, cloud_registered, cloud_body, cloud_effected>>
mapOut == <<pcl_wait_pub, Laser_map, saved, failed>>
outputVars == <<scanVars, poseVarsOut, mapOut>>

NoCloud == 0

-----------------------------------------------------------------------------
(* What an updated scan publishes *)

\* The message goes out with the covariance of the update before: it is a member of
\* the node, and the new one is written after the call.
publish_odometry ==
  /\ odomAftMapped' = [pose |-> package', covariance |-> covariance]
  /\ covariance' = package'

publish_path ==
  /\ jjj' = IF path_en THEN jjj + 1 ELSE jjj
  /\ path' = IF path_en /\ jjj' % PathEvery = 0 THEN Append(path, package') ELSE path

\* The cloud for the world frame, of either density.
WorldCloud == IF dense_pub_en THEN feats_undistort ELSE feats_down_body

publish_frame_world ==
  cloud_registered' = IF scan_pub_en THEN WorldCloud' ELSE cloud_registered

publish_frame_body ==
  cloud_body' = IF scan_pub_en /\ scan_body_pub_en THEN feats_undistort' ELSE cloud_body

\* The points of the scan that had a plane in the last turn of the update.
publish_effect_world ==
  cloud_effected' = IF effect_pub_en THEN feats_down_body' ELSE cloud_effected

-----------------------------------------------------------------------------
(* timer_callback, from Process on *)

NextPackage ==
  /\ ~failed /\ package < MaxPackages
  /\ package' = package + 1
  /\ state_point' = package'
  /\ UNCHANGED <<dense_pub_en, mapOut>>

\* The state is predicted, and no point is left: the sparse cloud of before stays.
EmptyScan ==
  /\ NextPackage
  /\ feats_undistort' = NoCloud
  /\ emptyScans' = emptyScans \cup {package'}
  /\ UNCHANGED <<feats_down_body, map_built, poseVarsOut>>

FilteredScan ==
  /\ NextPackage
  /\ feats_undistort' = package' /\ feats_down_body' = package'
  /\ UNCHANGED emptyScans

\* More than five points build the map, fewer than five are not enough for an update.
FewPoints ==
  /\ FilteredScan
  /\ UNCHANGED <<map_built, poseVarsOut>>

BuildMap ==
  /\ ~map_built /\ FilteredScan
  /\ map_built' = TRUE
  /\ UNCHANGED poseVarsOut

UpdatedScan ==
  /\ map_built /\ FilteredScan
  /\ publish_odometry /\ publish_path
  /\ publish_frame_world /\ publish_frame_body /\ publish_effect_world
  /\ UNCHANGED map_built

outputs_timer_callback == EmptyScan \/ FewPoints \/ BuildMap \/ UpdatedScan

-----------------------------------------------------------------------------
(* The map *)

\* Faulty: the dense cloud is never taken.
Faulty_MapCloud == feats_down_body

MapCloud == WorldCloud

\* Every second the cloud of the moment enters the map, once more when no package came.
publish_map ==
  /\ pcl_wait_pub' = IF MapCloud = NoCloud THEN pcl_wait_pub
                     ELSE Append(pcl_wait_pub, [cloud |-> MapCloud, state |-> state_point])
  /\ Laser_map' = Len(pcl_wait_pub')
  /\ UNCHANGED <<saved, failed>>

map_publish_callback ==
  /\ ~failed /\ map_pub_en /\ Len(pcl_wait_pub) < MaxMap
  /\ publish_map
  /\ UNCHANGED <<scanVars, poseVarsOut>>

\* The writer of the point cloud library throws when there is no point.
save_to_pcd ==
  /\ saved' = Len(pcl_wait_pub)
  /\ failed' = (pcl_wait_pub = <<>>)
  /\ UNCHANGED <<pcl_wait_pub, Laser_map>>

map_save_callback ==
  /\ ~failed /\ pcd_save_en
  /\ save_to_pcd
  /\ UNCHANGED <<scanVars, poseVarsOut>>

-----------------------------------------------------------------------------

OutputsInit ==
  /\ dense_pub_en \in BOOLEAN
  /\ package = 0 /\ state_point = 0
  /\ feats_undistort = NoCloud /\ feats_down_body = NoCloud
  /\ emptyScans = {}
  /\ map_built = FALSE
  /\ covariance = 0 /\ odomAftMapped = [pose |-> 0, covariance |-> 0]
  /\ jjj = 0 /\ path = <<>>
  /\ cloud_registered = NoCloud /\ cloud_body = NoCloud /\ cloud_effected = NoCloud
  /\ pcl_wait_pub = <<>> /\ Laser_map = 0 /\ saved = 0
  /\ failed = FALSE

OutputsNext == outputs_timer_callback \/ map_publish_callback \/ map_save_callback

OutputsSpec == OutputsInit /\ [][OutputsNext]_outputVars

-----------------------------------------------------------------------------
(* Properties *)

\* A cloud of the map was placed by the state of its own scan, or by a later one when
\* every scan in between left no point; with the dense cloud there is no such case
\* (laserMapping.cpp:573-583, where feats_down_body may be older than state_point).
CloudsPlaced ==
  \A n \in DOMAIN pcl_wait_pub :
    LET c == pcl_wait_pub[n] IN
    /\ c.cloud <= c.state
    /\ c.cloud + 1 .. c.state \subseteq emptyScans
    /\ dense_pub_en => c.cloud = c.state
=============================================================================
