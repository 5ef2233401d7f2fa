----------------------------- MODULE PoleTracker -----------------------------
(***************************************************************************)
(* The poles pole_detection keeps, and the conversion that feeds it.       *)
(* livox_to_pcl cuts a cloud to a box and publishes what is left; each     *)
(* tick of pole_detection finds the poles in the newest cloud, gives them  *)
(* to the poles of its list, one after the other, and adds the rest.       *)
(*                                                                         *)
(* A cloud is a family of clusters on a line through the lidar, in their   *)
(* order, and a filter leaves members of it out.  Lengths are decimetres.  *)
(* The list is in the order of the ids, since new poles are appended with  *)
(* growing ids and old ones are erased in place: it is a set of poles      *)
(* here, and the order is that of their ids.                               *)
(***************************************************************************)
EXTENDS Integers, FiniteSets

CONSTANTS
  Clouds,       \* the clouds the lidar sends, clusters by number
  Association,  \* pole_association_threshold_
  MaxIds        \* bound: poles ever found

ASSUME TrackerAssumption ==
  /\ Association \in Nat /\ MaxIds \in Nat
  /\ \A cloud \in Clouds :
       /\ IsFiniteSet(DOMAIN cloud) /\ DOMAIN cloud \subseteq Nat \ {0}
       /\ \A k \in DOMAIN cloud : cloud[k].x \in Int

VARIABLES
  cloud_, new_data_,          \* what lidarCallback leaves
  PoleList, pole_num_count,
  candidates                  \* history: the poles of the cloud processed last

poleVars == <<cloud_, new_data_, PoleList, pole_num_count, candidates>>

-----------------------------------------------------------------------------
(* livox_to_pcl *)

Clip(z) == IF z > 10 THEN 10 ELSE IF z < -10 THEN -10 ELSE z

InBox(c) == c.x \in 0..20 /\ c.bottom <= 10 /\ c.top >= -10

\* PassThrough on the three axes: points outside the box go, one by one.
applyFilters(cloud) ==
  [i \in {k \in DOMAIN cloud : InBox(cloud[k])} |->
     [cloud[i] EXCEPT !.bottom = Clip(@), !.top = Clip(@)]]

\* A cloud of which nothing is left is not published.  lidarCallback keeps the
\* newest cloud.
custom_msg_callback(cloud) ==
  /\ DOMAIN applyFilters(cloud) # {}
  /\ cloud_' = applyFilters(cloud)
  /\ new_data_' = TRUE
  /\ UNCHANGED <<PoleList, pole_num_count, candidates>>

-----------------------------------------------------------------------------
(* analyzeClusters *)

Abs(n) == IF n < 0 THEN -n ELSE n

\* analyzePoleCandidate: thin, tall, below the roof, not the vehicle itself.
IsPole(c) ==
  /\ c.diameter < 3
  /\ c.top - c.bottom > 2
  /\ c.top < 20
  /\ Abs(c.x) > 1

isPositionInValidRange(x) == 1 <= x /\ x <= 20

CandidatesOf(cloud) ==
  [i \in {k \in DOMAIN cloud : IsPole(cloud[k]) /\ isPositionInValidRange(cloud[k].x)} |-> cloud[i].x]

Distance(p, x) == Abs(p.x - x)

\* Faulty: the first candidate that is free.
Faulty_Nearest(p, cs, free) == CHOOSE u \in free : \A v \in free : u <= v

\* The candidate that is nearest to p, the first one when two are.
Nearest(p, cs, free) ==
  CHOOSE u \in free : \A v \in free :
    Distance(p, cs[u]) < Distance(p, cs[v]) \/ (Distance(p, cs[u]) = Distance(p, cs[v]) /\ u <= v)

NoCandidate == 0

\* Each pole in turn takes the nearest candidate the poles before it left, if that
\* is close enough.
Taken(poles, cs) ==
  LET taken[p \in poles] ==
        LET free == DOMAIN cs \ {taken[q] : q \in {r \in poles : r.id < p.id}} IN
        IF free # {} /\ Distance(p, cs[Nearest(p, cs, free)]) < Association
        THEN Nearest(p, cs, free) ELSE NoCandidate
  IN taken

\* update: a low-pass filter, which begins with the second sighting.
Smoothed(p, x) == IF p.is_initialized THEN (7 * x + 3 * p.x) \div 10 ELSE x

Seen(p, x) ==
  [p EXCEPT !.x = Smoothed(p, x), !.is_initialized = TRUE, !.lost_count = 0, !.detected = TRUE]

Missed(p) == [p EXCEPT !.lost_count = @ + 1, !.detected = FALSE]

Updated(poles, cs) ==
  LET taken == Taken(poles, cs) IN
  {IF taken[p] = NoCandidate THEN Missed(p) ELSE Seen(p, cs[taken[p]]) : p \in poles}

\* A pole is forgotten when six clouds in a row did not show it.
Kept(poles) == {p \in poles : p.lost_count <= 5}

Unused(poles, cs) ==
  DOMAIN cs \ {Taken(poles, cs)[p] : p \in poles}

\* Faulty: the ids begin again where the list ends.
Faulty_NewId(poles, cs, u) ==
  Cardinality(poles) + Cardinality({v \in Unused(poles, cs) : v < u})

\* Ids continue those of all poles ever found, in the order of the candidates.
NewId(poles, cs, u) ==
  pole_num_count + Cardinality({v \in Unused(poles, cs) : v < u})

NewPoles(poles, cs) ==
  {[id |-> NewId(poles, cs, u), x |-> cs[u], lost_count |-> 0,
    is_initialized |-> FALSE, detected |-> TRUE] : u \in Unused(poles, cs)}

\* The timer.  Without a new cloud nothing ages and nothing is published.
processPointCloud ==
  /\ new_data_ /\ DOMAIN cloud_ # {}
  /\ new_data_' = FALSE
  /\ LET cs == CandidatesOf(cloud_) IN
     /\ pole_num_count + Cardinality(Unused(PoleList, cs)) <= MaxIds
     /\ candidates' = cs
     /\ PoleList' = Kept(Updated(PoleList, cs)) \cup NewPoles(PoleList, cs)
     /\ pole_num_count' = pole_num_count + Cardinality(Unused(PoleList, cs))
  /\ UNCHANGED cloud_

-----------------------------------------------------------------------------

PoleInit ==
  /\ cloud_ = <<>> /\ new_data_ = FALSE
  /\ PoleList = {} /\ pole_num_count = 0
  /\ candidates = <<>>

PoleNext == processPointCloud \/ \E cloud \in Clouds : custom_msg_callback(cloud)

PoleSpec == PoleInit /\ [][PoleNext]_poleVars

-----------------------------------------------------------------------------
(* Properties *)

\* pole_detection.cpp:367: ids grow and are never given twice, whatever was
\* forgotten in between.
IdsUnique ==
  /\ \A p, q \in PoleList : p.id = q.id => p = q
  /\ \A p \in PoleList : p.id < pole_num_count

\* A pole keeps its identity while something close to it is close to no other pole
\* of the list, however the poles before it choose (pole_detection.cpp:333).
IdentityKept ==
  [][\A p \in PoleList : \A u \in DOMAIN candidates' :
       /\ new_data_ /\ ~new_data_'
       /\ Distance(p, candidates'[u]) < Association
       /\ \A q \in PoleList \ {p} : Distance(q, candidates'[u]) >= Association
       => \E q \in PoleList' : q.id = p.id /\ q.detected]_poleVars
=============================================================================
