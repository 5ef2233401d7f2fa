------------------------------ MODULE MCCompanion ------------------------------
(* The parts around the flight node, the driver and FAST-LIO's packages, for TLC: *)
(* each behaviour runs one of them, the others rest.  They share no variable, so  *)
(* that the invariants of a part are those of its own specification.              *)
EXTENDS PoleTracker, OdomBridge, StuckProtection, WaypointCompression,
        LocalMap, FilterUpdate, LioOutputs, ScanFilter, FeatureExtraction

Pole(px) == [x |-> px, bottom |-> -5, top |-> 15, diameter |-> 2]
Wall == [x |-> 10, bottom |-> -5, top |-> 15, diameter |-> 9]
MCClouds ==
  {<<>>, <<Wall>>, <<Pole(5)>>, <<Pole(8), Wall>>, <<Pole(5), Pole(11)>>,
   <<Pole(11), Pole(8)>>, <<Pole(25)>>}

\* Walks of one, five and six cells to the east, the west and the north.
Walk(d, n) ==
  LET Count(k, dir) == Cardinality({j \in 1..k - 1 : d[j] = dir}) IN
  [k \in 1..n + 1 |-> <<2 * (Count(k, "E") - Count(k, "W")), 2 * Count(k, "N")>>]
MCRoutes == {Walk(d, n) : n \in {1, 5, 6}, d \in [1..6 -> {"E", "W", "N"}]}

MCSteps == {-2, 2}
MCLandmarks == {[axis \in Axes |-> IF axis = 1 THEN x ELSE 0] : x \in {-1, 0, 1}}

-----------------------------------------------------------------------------

VARIABLE part

companionVars ==
  <<part, poleVars, bridgeVars, stuckVars, compressVars, mapVars, updateVars, outputVars,
    filterVars, featureVars>>

\* A part that rests keeps one initial state.
CompanionInit ==
  /\ part \in {"poles", "bridge", "stuck", "route", "map", "update", "outputs", "filter", "features"}
  /\ PoleInit /\ BridgeInit /\ MapInit /\ UpdateInit
  /\ StuckInit /\ (part # "stuck" => local_position_ = 4)
  /\ CompressInit /\ (part # "route" => raw_waypoints = <<<<0, 0>>, <<2, 0>>>>)
  /\ OutputsInit /\ (part # "outputs" => dense_pub_en)
  /\ FilterInit /\ (part # "filter" => lidar_type = "default" /\ feature_enabled)
  /\ FeatureInit /\ (part # "features" => near = {} /\ plsize = 3)

Poles ==
  /\ part = "poles" /\ PoleNext
  /\ UNCHANGED <<part, bridgeVars, stuckVars, compressVars, mapVars, updateVars, outputVars,
                 filterVars, featureVars>>
Bridge ==
  /\ part = "bridge" /\ BridgeNext
  /\ UNCHANGED <<part, poleVars, stuckVars, compressVars, mapVars, updateVars, outputVars,
                 filterVars, featureVars>>
Stuck ==
  /\ part = "stuck" /\ StuckNext
  /\ UNCHANGED <<part, poleVars, bridgeVars, compressVars, mapVars, updateVars, outputVars,
                 filterVars, featureVars>>
Route ==
  /\ part = "route" /\ CompressNext
  /\ UNCHANGED <<part, poleVars, bridgeVars, stuckVars, mapVars, updateVars, outputVars,
                 filterVars, featureVars>>
Map ==
  /\ part = "map" /\ ScanNext
  /\ UNCHANGED <<part, poleVars, bridgeVars, stuckVars, compressVars, updateVars, outputVars,
                 filterVars, featureVars>>
Update ==
  /\ part = "update" /\ UpdateNext
  /\ UNCHANGED <<part, poleVars, bridgeVars, stuckVars, compressVars, mapVars, outputVars,
                 filterVars, featureVars>>
Outputs ==
  /\ part = "outputs" /\ OutputsNext
  /\ UNCHANGED <<part, poleVars, bridgeVars, stuckVars, compressVars, mapVars, updateVars,
                 filterVars, featureVars>>
Filter ==
  /\ part = "filter" /\ FilterNext
  /\ UNCHANGED <<part, poleVars, bridgeVars, stuckVars, compressVars, mapVars, updateVars,
                 outputVars, featureVars>>
Features ==
  /\ part = "features" /\ FeatureNext
  /\ UNCHANGED <<part, poleVars, bridgeVars, stuckVars, compressVars, mapVars, updateVars,
                 outputVars, filterVars>>

CompanionNext ==
  Poles \/ Bridge \/ Stuck \/ Route \/ Map \/ Update \/ Outputs \/ Filter \/ Features

CompanionSpec == CompanionInit /\ [][CompanionNext]_companionVars
=============================================================================
