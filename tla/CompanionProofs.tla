--------------------------- MODULE CompanionProofs ---------------------------
(***************************************************************************)
(* What holds of the parts around the flight node: the list of poles, for  *)
(* any clouds and any distance of association (PoleTracker), the vision    *)
(* pose, for any heights (OdomBridge), the stuck protection, for any       *)
(* flight and any threshold (StuckProtection), and the compressed route,   *)
(* for any route (WaypointCompression).                                    *)
(***************************************************************************)
EXTENDS PoleTracker, OdomBridge, StuckProtection, WaypointCompression, NumberTheorems,
        SequenceTheorems

-----------------------------------------------------------------------------
(* The list of poles *)

Fields == {"id", "x", "lost_count", "is_initialized", "detected"}

Numbered(cloud) == IsFiniteSet(DOMAIN cloud) /\ DOMAIN cloud \subseteq Nat

\* IdsUnique counts on the shape of the poles and on the clusters being numbered.
PoleInv ==
  /\ pole_num_count \in Nat
  /\ Numbered(cloud_)
  /\ \A p \in PoleList : DOMAIN p = Fields /\ p.id \in Nat
  /\ IdsUnique

\* The place of a number in a finite set of numbers tells it from the others.
LEMMA PlacesDiffer ==
  ASSUME NEW S, IsFiniteSet(S), S \subseteq Nat, NEW u \in S
  PROVE /\ Cardinality({w \in S : w < u}) \in Nat
        /\ Cardinality({w \in S : w < u}) < Cardinality(S)
        /\ \A v \in S : u < v => Cardinality({w \in S : w < u}) < Cardinality({w \in S : w < v})
<1> DEFINE Below(v) == {w \in S : w < v}
<1>1. ASSUME NEW v \in S PROVE IsFiniteSet(Below(v)) /\ Cardinality(Below(v)) \in Nat
  BY FS_Subset, FS_CardinalityType
<1>2. Cardinality(Below(u)) < Cardinality(S)
  <2>1. Below(u) \subseteq S /\ u \notin Below(u)
    OBVIOUS
  <2>2. Cardinality(Below(u)) <= Cardinality(S) /\ Cardinality(S) # Cardinality(Below(u))
    BY <2>1, FS_Subset
  <2>3. Cardinality(S) \in Nat
    BY FS_CardinalityType
  <2> QED
    BY <1>1, <2>2, <2>3
<1>3. ASSUME NEW v \in S, u < v
      PROVE Cardinality(Below(u)) < Cardinality(Below(v))
  <2>1. IsFiniteSet(Below(v)) /\ Below(u) \in SUBSET Below(v)
    <3>1. ASSUME NEW w \in S, w < u PROVE w < v
      BY <1>3, <3>1
    <3> QED
      BY <1>1, <3>1
  <2>2. u \notin Below(u) /\ u \in Below(v)
    BY <1>3
  <2>3. /\ Cardinality(Below(u)) <= Cardinality(Below(v))
        /\ Cardinality(Below(v)) # Cardinality(Below(u))
    BY <1>1, <2>1, <2>2, FS_Subset
  <2> QED
    BY <1>1, <2>3
<1> QED
  BY <1>1, <1>2, <1>3

\* A pole that was seen or missed is still the pole it was.
LEMMA UpdateKeepsIds ==
  ASSUME NEW cs, PoleInv, NEW e \in Updated(PoleList, cs)
  PROVE \E p \in PoleList :
          /\ e = IF Taken(PoleList, cs)[p] = NoCandidate THEN Missed(p) ELSE Seen(p, cs[Taken(PoleList, cs)[p]])
          /\ DOMAIN e = Fields /\ e.id = p.id
<1>1. PICK p \in PoleList :
        e = IF Taken(PoleList, cs)[p] = NoCandidate THEN Missed(p) ELSE Seen(p, cs[Taken(PoleList, cs)[p]])
  BY DEF Updated
<1>2. DOMAIN p = Fields
  BY DEF PoleInv
<1>3. DOMAIN Missed(p) = Fields /\ Missed(p).id = p.id
  BY <1>2 DEF Missed, Fields
<1>4. ASSUME NEW x
      PROVE DOMAIN Seen(p, x) = Fields /\ Seen(p, x).id = p.id
  BY <1>2 DEF Seen, Fields
<1> QED
  BY <1>1, <1>3, <1>4

\* The poles a tick finds have ids of their own, behind those of all poles before.
LEMMA NewIdsFollow ==
  ASSUME NEW cs, PoleInv, Numbered(cs)
  PROVE LET count == pole_num_count + Cardinality(Unused(PoleList, cs)) IN
        /\ count \in Nat /\ count >= pole_num_count
        /\ \A p \in NewPoles(PoleList, cs) :
             DOMAIN p = Fields /\ p.id \in Nat /\ p.id >= pole_num_count /\ p.id < count
        /\ \A p, q \in NewPoles(PoleList, cs) : p.id = q.id => p = q
<1> DEFINE U == Unused(PoleList, cs)
           Place(u) == Cardinality({v \in U : v < u})
           New(u) == [id |-> NewId(PoleList, cs, u), x |-> cs[u], lost_count |-> 0,
                      is_initialized |-> FALSE, detected |-> TRUE]
<1>1. U \subseteq DOMAIN cs
  BY DEF Unused
<1>2. IsFiniteSet(U) /\ U \subseteq Nat /\ Cardinality(U) \in Nat
  BY <1>1, FS_Subset, FS_CardinalityType DEF Numbered
<1>3. pole_num_count \in Nat
  BY DEF PoleInv
<1>4. ASSUME NEW u \in U
      PROVE Place(u) \in Nat /\ Place(u) < Cardinality(U) /\ \A v \in U : u < v => Place(u) < Place(v)
  BY <1>2, PlacesDiffer
<1>5. ASSUME NEW u \in U
      PROVE DOMAIN New(u) = Fields /\ New(u).id = pole_num_count + Place(u)
  BY DEF Fields, NewId
<1>6. NewPoles(PoleList, cs) = {New(u) : u \in U}
  BY DEF NewPoles
<1> HIDE DEF U, Place, New
<1>7. ASSUME NEW u \in U, NEW v \in U, New(u).id = New(v).id
      PROVE u = v
  <2>1. Place(u) \in Nat /\ Place(v) \in Nat /\ Place(u) = Place(v)
    BY <1>3, <1>4, <1>5, <1>7
  <2>2. u \in Nat /\ v \in Nat
    BY <1>2
  <2>3. ~(u < v) /\ ~(v < u)
    BY <1>4, <2>1
  <2> QED
    BY <2>2, <2>3
<1>8. ASSUME NEW p \in NewPoles(PoleList, cs)
      PROVE \E u \in U : p = New(u)
  BY <1>6
<1>9. ASSUME NEW p \in NewPoles(PoleList, cs)
      PROVE /\ DOMAIN p = Fields /\ p.id \in Nat
            /\ p.id >= pole_num_count /\ p.id < pole_num_count + Cardinality(U)
  <2>1. PICK u \in U : p = New(u)
    BY <1>8
  <2> QED
    BY <1>2, <1>3, <1>4, <1>5, <2>1
<1>10. ASSUME NEW p \in NewPoles(PoleList, cs), NEW q \in NewPoles(PoleList, cs), p.id = q.id
       PROVE p = q
  <2>1. PICK u \in U : p = New(u)
    BY <1>8
  <2>2. PICK v \in U : q = New(v)
    BY <1>8
  <2>3. u = v
    BY <1>7, <1>10, <2>1, <2>2
  <2> QED
    BY <2>1, <2>2, <2>3
<1>11. pole_num_count + Cardinality(U) \in Nat /\ pole_num_count + Cardinality(U) >= pole_num_count
  BY <1>2, <1>3
<1> QED
  BY <1>9, <1>10, <1>11 DEF U

\* A tick of the timer.
LEMMA TickKeepsIds ==
  ASSUME PoleInv, processPointCloud
  PROVE PoleInv'
<1> DEFINE cs == CandidatesOf(cloud_)
           count == pole_num_count + Cardinality(Unused(PoleList, cs))
<1>1. Numbered(cs)
  <2>1. DOMAIN cs \subseteq DOMAIN cloud_
    BY DEF CandidatesOf
  <2> QED
    BY <2>1, FS_Subset DEF PoleInv, Numbered
<1>2. /\ PoleList' = Kept(Updated(PoleList, cs)) \cup NewPoles(PoleList, cs)
      /\ pole_num_count' = count /\ cloud_' = cloud_
  BY DEF processPointCloud
<1>3. /\ count \in Nat /\ count >= pole_num_count
      /\ \A p \in NewPoles(PoleList, cs) :
           DOMAIN p = Fields /\ p.id \in Nat /\ p.id >= pole_num_count /\ p.id < count
      /\ \A p, q \in NewPoles(PoleList, cs) : p.id = q.id => p = q
  BY <1>1, NewIdsFollow
<1> HIDE DEF cs, count
<1>4. ASSUME NEW e \in Kept(Updated(PoleList, cs))
      PROVE DOMAIN e = Fields /\ e.id \in Nat /\ e.id < pole_num_count
  BY UpdateKeepsIds DEF Kept, PoleInv, IdsUnique
<1>5. ASSUME NEW d \in Kept(Updated(PoleList, cs)), NEW e \in Kept(Updated(PoleList, cs)), d.id = e.id
      PROVE d = e
  <2>1. d \in Updated(PoleList, cs) /\ e \in Updated(PoleList, cs)
    BY DEF Kept
  <2>2. PICK p \in PoleList :
          /\ d = IF Taken(PoleList, cs)[p] = NoCandidate THEN Missed(p) ELSE Seen(p, cs[Taken(PoleList, cs)[p]])
          /\ d.id = p.id
    BY <2>1, UpdateKeepsIds
  <2>3. PICK q \in PoleList :
          /\ e = IF Taken(PoleList, cs)[q] = NoCandidate THEN Missed(q) ELSE Seen(q, cs[Taken(PoleList, cs)[q]])
          /\ e.id = q.id
    BY <2>1, UpdateKeepsIds
  <2>4. p = q
    BY <1>5, <2>2, <2>3 DEF PoleInv, IdsUnique
  <2> QED
    BY <2>2, <2>3, <2>4
<1>6. ASSUME NEW d \in PoleList', NEW e \in PoleList', d.id = e.id
      PROVE d = e
  <2>1. CASE d \in Kept(Updated(PoleList, cs)) /\ e \in Kept(Updated(PoleList, cs))
    BY <1>5, <1>6, <2>1
  <2>2. CASE d \in NewPoles(PoleList, cs) /\ e \in NewPoles(PoleList, cs)
    BY <1>3, <1>6, <2>2
  <2>3. CASE d \in Kept(Updated(PoleList, cs)) /\ e \in NewPoles(PoleList, cs)
    BY <1>3, <1>4, <1>6, <2>3 DEF PoleInv
  <2>4. CASE d \in NewPoles(PoleList, cs) /\ e \in Kept(Updated(PoleList, cs))
    BY <1>3, <1>4, <1>6, <2>4 DEF PoleInv
  <2> QED
    BY <1>2, <2>1, <2>2, <2>3, <2>4
<1>7. ASSUME NEW e \in PoleList'
      PROVE DOMAIN e = Fields /\ e.id \in Nat /\ e.id < pole_num_count'
  BY <1>2, <1>3, <1>4 DEF PoleInv
<1> QED
  BY <1>2, <1>3, <1>6, <1>7 DEF PoleInv, IdsUnique

\* A cloud that was cut to the box is still numbered.
LEMMA CloudKeepsIds ==
  ASSUME TrackerAssumption, PoleInv, NEW cloud \in Clouds, custom_msg_callback(cloud)
  PROVE PoleInv'
<1>1. DOMAIN applyFilters(cloud) \subseteq DOMAIN cloud
  BY DEF applyFilters
<1>2. Numbered(applyFilters(cloud))
  BY <1>1, FS_Subset DEF TrackerAssumption, Numbered
<1> QED
  BY <1>2 DEF custom_msg_callback, PoleInv, IdsUnique

\* Every step keeps the ids apart.
LEMMA PoleStep ==
  ASSUME PoleInv, [PoleNext]_poleVars
  PROVE  PoleInv'
<1>1. CASE processPointCloud
  BY <1>1, TickKeepsIds
<1>2. CASE \E cloud \in Clouds : custom_msg_callback(cloud)
  BY <1>2, TrackerAssumption, CloudKeepsIds
<1>3. CASE UNCHANGED poleVars
  BY <1>3 DEF poleVars, PoleInv, IdsUnique
<1> QED
  BY <1>1, <1>2, <1>3 DEF PoleNext

\* No two poles ever have the same id, for any clouds and any distance of association
\* (pole_detection.cpp:367).
THEOREM IdsStayUnique == PoleSpec => []IdsUnique
<1>1. PoleInit => PoleInv
  BY FS_EmptySet DEF PoleInit, PoleInv, IdsUnique, Numbered
<1>2. PoleInv /\ [PoleNext]_poleVars => PoleInv'
  BY PoleStep
<1>3. PoleInv => IdsUnique
  BY DEF PoleInv
<1> QED
  BY <1>1, <1>2, <1>3, PTL DEF PoleSpec

-----------------------------------------------------------------------------
(* What the poles take *)

\* The clusters are numbered from 1 and the poles stand somewhere.
Placed(cloud) == 0 \notin DOMAIN cloud /\ \A k \in DOMAIN cloud : cloud[k].x \in Int

\* IdentityKept is about one tick: what it needs of the state is that the poles before another
\* one can be told by their ids, and distances compared.
IdentityInv == PoleInv /\ Placed(cloud_) /\ \A p \in PoleList : p.x \in Int

\* The candidates of a tick.
Candidates(cs) == IsFiniteSet(DOMAIN cs) /\ DOMAIN cs \subseteq Nat \ {0}
                  /\ \A u \in DOMAIN cs : cs[u] \in Int

\* What the poles before p left, when f says what they took; and what p takes of it.
Left(poles, cs, f, p) == DOMAIN cs \ {f[q] : q \in {r \in poles : r.id < p.id}}
Choice(poles, cs, f, p) ==
  IF Left(poles, cs, f, p) # {}
     /\ Distance(p, cs[Nearest(p, cs, Left(poles, cs, f, p))]) < Association
  THEN Nearest(p, cs, Left(poles, cs, f, p)) ELSE NoCandidate

IsTaken(poles, cs, f) == f = [p \in poles |-> Choice(poles, cs, f, p)]

LEMMA TakenIsChoice ==
  ASSUME NEW poles, NEW cs
  PROVE  Taken(poles, cs) = CHOOSE f : IsTaken(poles, cs, f)
BY DEF Taken, IsTaken, Choice, Left

\* What a pole takes depends on the poles before it only.
LEMMA ChoiceLooksBack ==
  ASSUME NEW poles, NEW cs, NEW f, NEW g, NEW p \in poles,
         \A q \in poles : q.id < p.id => f[q] = g[q]
  PROVE  Choice(poles, cs, f, p) = Choice(poles, cs, g, p)
<1>1. Left(poles, cs, f, p) = Left(poles, cs, g, p)
  BY DEF Left
<1> QED
  BY <1>1 DEF Choice

\* The poles can be gone through in the order of their ids.
LEMMA TakenExists ==
  ASSUME NEW poles, NEW cs, NEW m \in Nat, \A p \in poles : p.id \in Nat /\ p.id < m
  PROVE  IsTaken(poles, cs, Taken(poles, cs))
<1> DEFINE Served(f, n) == \A p \in poles : p.id < n => f[p] = Choice(poles, cs, f, p)
           S == {n \in Nat : \E f : Served(f, n)}
<1>1. 0 \in S
  <2>1. \A p \in poles : ~(p.id < 0)
    OBVIOUS
  <2> QED
    BY <2>1
<1>2. ASSUME NEW n \in Nat, n \in S PROVE n + 1 \in S
  <2>1. PICK f : Served(f, n)
    BY <1>2
  <2> DEFINE g == [p \in poles |-> IF p.id < n THEN f[p] ELSE Choice(poles, cs, f, p)]
  <2>2. ASSUME NEW p \in poles, p.id < n + 1
        PROVE  g[p] = Choice(poles, cs, g, p)
    <3>1. \A q \in poles : q.id < p.id => q.id < n
      BY <2>2
    <3>2. \A q \in poles : q.id < p.id => f[q] = g[q]
      BY <3>1
    <3>3. Choice(poles, cs, f, p) = Choice(poles, cs, g, p)
      BY <3>2, ChoiceLooksBack
    <3>4. g[p] = Choice(poles, cs, f, p)
      BY <2>1
    <3> QED
      BY <3>3, <3>4
  <2>3. Served(g, n + 1)
    BY <2>2
  <2> HIDE DEF g, Served
  <2> QED
    BY <2>3
<1> HIDE DEF S
<1>3. m \in S
  BY <1>1, <1>2, SetInduction
<1>4. PICK f : Served(f, m)
  BY <1>3 DEF S
<1> DEFINE h == [p \in poles |-> f[p]]
<1>5. ASSUME NEW p \in poles PROVE h[p] = Choice(poles, cs, h, p)
  <2>1. Choice(poles, cs, f, p) = Choice(poles, cs, h, p)
    BY ChoiceLooksBack
  <2> QED
    BY <1>4, <2>1
<1>6. IsTaken(poles, cs, h)
  BY <1>5 DEF IsTaken
<1> QED
  BY <1>6, TakenIsChoice

\* The nearest of several candidates is one of them, and no other is nearer.
LEMMA NearestIsNear ==
  ASSUME NEW p, p.x \in Int, NEW cs, Candidates(cs), NEW free \in SUBSET DOMAIN cs, free # {}
  PROVE  /\ Nearest(p, cs, free) \in free
         /\ \A v \in free : Distance(p, cs[Nearest(p, cs, free)]) <= Distance(p, cs[v])
<1> DEFINE D(v) == Distance(p, cs[v])
<1>1. \A v \in free : D(v) \in Nat /\ v \in Nat
  BY DEF Candidates, Distance, Abs
<1> HIDE DEF D
<1>2. PICK d \in {D(v) : v \in free} : \A e \in {D(v) : v \in free} : d <= e
  <2>1. {D(v) : v \in free} \subseteq Nat /\ {D(v) : v \in free} # {}
    BY <1>1
  <2> QED
    BY <2>1, SmallestNumber
<1>3. PICK u \in {v \in free : D(v) = d} : \A v \in {w \in free : D(w) = d} : u <= v
  <2>1. {v \in free : D(v) = d} \subseteq Nat /\ {v \in free : D(v) = d} # {}
    BY <1>1, <1>2
  <2> QED
    BY <2>1, SmallestNumber
<1>4. \A v \in free : D(u) < D(v) \/ (D(u) = D(v) /\ u <= v)
  BY <1>1, <1>2, <1>3
<1>5. \E w \in free : \A v \in free : D(w) < D(v) \/ (D(w) = D(v) /\ w <= v)
  BY <1>3, <1>4
<1>6. Nearest(p, cs, free) = CHOOSE w \in free : \A v \in free : D(w) < D(v) \/ (D(w) = D(v) /\ w <= v)
  BY DEF Nearest, D
<1>7. /\ Nearest(p, cs, free) \in free
      /\ \A v \in free : D(Nearest(p, cs, free)) < D(v)
                         \/ (D(Nearest(p, cs, free)) = D(v) /\ Nearest(p, cs, free) <= v)
  BY <1>5, <1>6
<1>8. \A v \in free : D(Nearest(p, cs, free)) <= D(v)
  BY <1>1, <1>7
<1> QED
  BY <1>7, <1>8 DEF D

\* What a pole takes is a candidate close to it that the poles before it left; it takes
\* nothing only when none of these is close.
LEMMA TakenIsClose ==
  ASSUME IdentityInv, NEW cs, Candidates(cs), NEW p \in PoleList
  PROVE  LET taken == Taken(PoleList, cs) IN
         /\ taken[p] # NoCandidate =>
              taken[p] \in DOMAIN cs /\ Distance(p, cs[taken[p]]) < Association
         /\ \A u \in DOMAIN cs :
              Distance(p, cs[u]) < Association /\ taken[p] = NoCandidate =>
                \E q \in PoleList \ {p} : taken[q] = u
<1> DEFINE taken == Taken(PoleList, cs)
           free == Left(PoleList, cs, taken, p)
<1>1. taken[p] = Choice(PoleList, cs, taken, p)
  <2>1. IsTaken(PoleList, cs, taken)
    BY TakenExists DEF IdentityInv, PoleInv, IdsUnique
  <2> QED
    BY <2>1 DEF IsTaken
<1>2. free \in SUBSET DOMAIN cs
  BY DEF Left
<1>3. p.x \in Int /\ Association \in Nat
  BY TrackerAssumption DEF TrackerAssumption, IdentityInv
<1>4. NoCandidate \notin DOMAIN cs
  BY DEF NoCandidate, Candidates
<1>5. free # {} => /\ Nearest(p, cs, free) \in free
                   /\ \A v \in free : Distance(p, cs[Nearest(p, cs, free)]) <= Distance(p, cs[v])
  BY <1>2, <1>3, NearestIsNear
<1>6. taken[p] # NoCandidate =>
        taken[p] \in DOMAIN cs /\ Distance(p, cs[taken[p]]) < Association
  BY <1>1, <1>2, <1>5 DEF Choice
<1>7. ASSUME NEW u \in DOMAIN cs, Distance(p, cs[u]) < Association, taken[p] = NoCandidate
      PROVE  \E q \in PoleList \ {p} : taken[q] = u
  <2>1. \A v \in DOMAIN cs : Distance(p, cs[v]) \in Nat
    BY <1>3 DEF Candidates, Distance, Abs
  <2>2. u \notin free
    <3> SUFFICES ASSUME u \in free PROVE FALSE
      OBVIOUS
    <3>1. Nearest(p, cs, free) \in DOMAIN cs
      BY <1>2, <1>5
    <3>2. Distance(p, cs[Nearest(p, cs, free)]) < Association
      BY <1>3, <1>5, <1>7, <2>1, <3>1
    <3>3. taken[p] = Nearest(p, cs, free)
      BY <1>1, <3>2 DEF Choice
    <3> QED
      BY <1>4, <1>7, <3>1, <3>3
  <2>3. PICK q \in {r \in PoleList : r.id < p.id} : taken[q] = u
    BY <2>2 DEF Left
  <2>4. q # p
    BY DEF IdentityInv, PoleInv
  <2> QED
    BY <2>3, <2>4
<1> QED
  BY <1>6, <1>7

\* The candidates of a cloud are numbered and placed as its clusters are.
LEMMA CandidatesNumbered ==
  ASSUME IdentityInv
  PROVE  Candidates(CandidatesOf(cloud_))
<1>1. DOMAIN CandidatesOf(cloud_) \subseteq DOMAIN cloud_
  BY DEF CandidatesOf
<1>2. \A u \in DOMAIN CandidatesOf(cloud_) : CandidatesOf(cloud_)[u] = cloud_[u].x
  BY DEF CandidatesOf
<1> QED
  BY <1>1, <1>2, FS_Subset DEF IdentityInv, PoleInv, Numbered, Placed, Candidates

\* Every step leaves the poles somewhere.
LEMMA IdentityStep ==
  ASSUME IdentityInv, PoleInv', [PoleNext]_poleVars
  PROVE  IdentityInv'
<1>1. CASE processPointCloud
  <2> DEFINE cs == CandidatesOf(cloud_)
  <2>1. /\ PoleList' = Kept(Updated(PoleList, cs)) \cup NewPoles(PoleList, cs)
        /\ cloud_' = cloud_
    BY <1>1 DEF processPointCloud
  <2>2. Candidates(cs)
    BY CandidatesNumbered
  <2> HIDE DEF cs
  <2>3. ASSUME NEW e \in Kept(Updated(PoleList, cs)) PROVE e.x \in Int
    <3>1. PICK p \in PoleList :
            e = IF Taken(PoleList, cs)[p] = NoCandidate THEN Missed(p)
                ELSE Seen(p, cs[Taken(PoleList, cs)[p]])
      BY DEF Kept, Updated
    <3>2. p.x \in Int /\ DOMAIN p = Fields
      BY DEF IdentityInv, PoleInv
    <3>3. Missed(p).x = p.x
      BY <3>2 DEF Missed, Fields
    <3>4. ASSUME NEW x \in Int PROVE Seen(p, x).x \in Int
      <4>1. Seen(p, x).x = Smoothed(p, x)
        BY <3>2 DEF Seen, Fields
      <4>2. Smoothed(p, x) \in Int
        BY <3>2 DEF Smoothed
      <4> QED
        BY <4>1, <4>2
    <3>5. Taken(PoleList, cs)[p] # NoCandidate => cs[Taken(PoleList, cs)[p]] \in Int
      BY <2>2, TakenIsClose DEF Candidates
    <3> QED
      BY <3>1, <3>2, <3>3, <3>4, <3>5
  <2>4. \A e \in NewPoles(PoleList, cs) : e.x \in Int
    BY <2>2 DEF NewPoles, Unused, Candidates
  <2> QED
    BY <2>1, <2>3, <2>4 DEF IdentityInv
<1>2. CASE \E cloud \in Clouds : custom_msg_callback(cloud)
  <2>1. PICK cloud \in Clouds : custom_msg_callback(cloud)
    BY <1>2
  <2>2. /\ DOMAIN applyFilters(cloud) \subseteq DOMAIN cloud
        /\ \A k \in DOMAIN applyFilters(cloud) :
             applyFilters(cloud)[k].x = cloud[k].x
    BY DEF applyFilters
  <2>3. Placed(applyFilters(cloud))
    BY <2>2, TrackerAssumption DEF TrackerAssumption, Placed
  <2> QED
    BY <2>1, <2>3 DEF custom_msg_callback, IdentityInv
<1>3. CASE UNCHANGED poleVars
  BY <1>3 DEF poleVars, IdentityInv
<1> QED
  BY <1>1, <1>2, <1>3 DEF PoleNext

\* A pole that has a candidate for itself is seen.
LEMMA SeenAgain ==
  ASSUME IdentityInv, processPointCloud, NEW p \in PoleList, NEW u \in DOMAIN candidates',
         Distance(p, candidates'[u]) < Association,
         \A q \in PoleList \ {p} : Distance(q, candidates'[u]) >= Association
  PROVE  \E q \in PoleList' : q.id = p.id /\ q.detected
<1> DEFINE cs == CandidatesOf(cloud_)
           taken == Taken(PoleList, cs)
<1>1. /\ PoleList' = Kept(Updated(PoleList, cs)) \cup NewPoles(PoleList, cs)
      /\ candidates' = cs
  BY DEF processPointCloud
<1>2. Candidates(cs)
  BY CandidatesNumbered
<1>3. Association \in Nat /\ \A q \in PoleList : q.x \in Int
  BY TrackerAssumption DEF TrackerAssumption, IdentityInv
<1> HIDE DEF cs
<1>4. u \in DOMAIN cs /\ u # NoCandidate
  BY <1>1, <1>2 DEF Candidates, NoCandidate
<1>5. \A q \in PoleList \ {p} : taken[q] # u
  <2> SUFFICES ASSUME NEW q \in PoleList \ {p}, taken[q] = u PROVE FALSE
    OBVIOUS
  <2>1. Distance(q, cs[u]) < Association
    BY <1>2, <1>4, TakenIsClose
  <2>2. Distance(q, cs[u]) >= Association /\ Distance(q, cs[u]) \in Nat
    BY <1>1, <1>2, <1>3, <1>4 DEF Candidates, Distance, Abs
  <2> QED
    BY <1>3, <2>1, <2>2
<1>6. taken[p] # NoCandidate
  BY <1>1, <1>2, <1>4, <1>5, TakenIsClose
<1> DEFINE e == Seen(p, cs[taken[p]])
<1>7. DOMAIN p = Fields
  BY DEF IdentityInv, PoleInv
<1>8. e.id = p.id /\ e.detected /\ e.lost_count = 0
  BY <1>7 DEF Seen, Fields
<1>9. e \in Updated(PoleList, cs)
  BY <1>6 DEF Updated
<1>10. e \in PoleList'
  BY <1>1, <1>8, <1>9 DEF Kept
<1> QED
  BY <1>8, <1>10

\* A pole that something is close to, which is close to no other pole, is recognised, for any
\* clouds, any distance of association and however the poles before it choose
\* (pole_detection.cpp:333).
THEOREM IdentityIsKept == PoleSpec => IdentityKept
<1>1. PoleInit => IdentityInv
  <2> SUFFICES ASSUME PoleInit PROVE IdentityInv
    OBVIOUS
  <2>1. PoleInv
    BY FS_EmptySet DEF PoleInit, PoleInv, IdsUnique, Numbered
  <2> QED
    BY <2>1 DEF PoleInit, IdentityInv, Placed
<1>2. IdentityInv /\ [PoleNext]_poleVars => IdentityInv'
  BY PoleStep, IdentityStep DEF IdentityInv
<1>3. IdentityInv /\ [PoleNext]_poleVars
        => [\A p \in PoleList : \A u \in DOMAIN candidates' :
              /\ new_data_ /\ ~new_data_'
              /\ Distance(p, candidates'[u]) < Association
              /\ \A q \in PoleList \ {p} : Distance(q, candidates'[u]) >= Association
              => \E q \in PoleList' : q.id = p.id /\ q.detected]_poleVars
  <2> SUFFICES ASSUME IdentityInv, PoleNext, new_data_, ~new_data_',
                      NEW p \in PoleList, NEW u \in DOMAIN candidates',
                      Distance(p, candidates'[u]) < Association,
                      \A q \in PoleList \ {p} : Distance(q, candidates'[u]) >= Association
               PROVE  \E q \in PoleList' : q.id = p.id /\ q.detected
    OBVIOUS
  <2>1. processPointCloud
    BY DEF PoleNext, custom_msg_callback
  <2> QED
    BY <2>1, SeenAgain
<1> QED
  BY <1>1, <1>2, <1>3, PTL DEF PoleSpec, IdentityKept

-----------------------------------------------------------------------------
(* The vision pose *)

\* The samples that the sum is made of.
Summed == IF checktime_ > Samples THEN Samples ELSE checktime_

\* HeightZeroed with the sum as a sum over a set.
Zeroed ==
  vision_pose.received # 0 =>
    /\ vision_pose.received > Samples
    /\ vision_pose.height = Samples * odometry[vision_pose.received] - SumOver(1..Samples, odometry)

\* HeightZeroed is about what was published: what makes it inductive is where each value on
\* its way stands, with the samples received so far.
BridgeInv ==
  /\ odometry \in Seq(Int) /\ checktime_ \in Nat /\ send_data_ \in Int
  /\ vision_pose.received \in Nat /\ vision_pose.received <= Len(odometry)
  /\ checktime_ = IF Len(odometry) > Samples THEN Samples + 1 ELSE Len(odometry)
  /\ sum_offset_ = SumOver(1..Summed, odometry)
  /\ checktime_ > Samples =>
       /\ offset_ = sum_offset_
       /\ send_data_ = Samples * odometry[Len(odometry)] - sum_offset_
  /\ Zeroed

\* The sum of the first samples, as the property states it.
LEMMA FirstSamples == Zeroed => HeightZeroed
<1>1. MapThenSumSet(LAMBDA i : odometry[i], 1..Samples) = SumOver(1..Samples, odometry)
  BY DEF MapThenSumSet, MapThenFoldSet, SumOver, SumsOn, IsSumOn
<1> QED
  BY <1>1 DEF Zeroed, HeightZeroed

\* A sample that is appended leaves the sum of those before it, and is added to it.
LEMMA SumGrows ==
  ASSUME NEW q \in Seq(Int), NEW z \in Int, NEW n \in 0..Len(q)
  PROVE  /\ SumOver(1..n, Append(q, z)) = SumOver(1..n, q) /\ SumOver(1..n, q) \in Int
         /\ n = Len(q) => SumOver(1..n + 1, Append(q, z)) = SumOver(1..n, q) + z
<1> DEFINE w == Append(q, z)
<1>1. /\ \A i \in 1..Len(q) : q[i] \in Int /\ w[i] = q[i]
      /\ w[Len(q) + 1] = z
  OBVIOUS
<1> HIDE DEF w
<1>2. \A k \in Nat : IsFiniteSet(1..k)
  BY FS_Interval
<1>3. n \in Nat /\ \A i \in 1..n : i \in 1..Len(q)
  OBVIOUS
<1>4. SumOver(1..n, w) = SumOver(1..n, q)
  BY <1>1, <1>2, <1>3, SumOfEquals
<1>5. SumOver(1..n, q) \in Int
  BY <1>1, <1>2, <1>3, SumOverParts
<1>6. ASSUME n = Len(q) PROVE SumOver(1..n + 1, w) = SumOver(1..n, q) + z
  <2>1. (1..n + 1) \ {n + 1} = 1..n /\ n + 1 \in 1..n + 1 /\ n + 1 \in Nat
    BY <1>3
  <2>2. \A i \in 1..n + 1 : w[i] \in Int
    <3>1. \A i \in 1..n + 1 : i \in 1..n \/ i = n + 1
      BY <1>3
    <3> QED
      BY <1>1, <1>3, <1>6, <3>1
  <2>3. SumOver(1..n + 1, w) = w[n + 1] + SumOver(1..n, w)
    <3>1. IsFiniteSet(1..n + 1)
      BY <1>2, <2>1
    <3>2. SumOver(1..n + 1, w) = w[n + 1] + SumOver((1..n + 1) \ {n + 1}, w)
      BY <2>1, <2>2, <3>1, SumOverParts
    <3> QED
      BY <2>1, <3>2
  <2> QED
    BY <1>1, <1>4, <1>5, <1>6, <2>3
<1> QED
  BY <1>4, <1>5, <1>6 DEF w

\* The odometry keeps the samples below the offset and above the pose.
LEMMA SampleKeepsBridge ==
  ASSUME BridgeAssumption, BridgeInv, NEW z \in Heights, radar_cb(z)
  PROVE  BridgeInv'
<1> DEFINE n == Len(odometry)
<1>1. /\ z \in Int /\ n \in Nat /\ odometry \in Seq(Int) /\ Samples \in Nat /\ Samples > 0
      /\ checktime_ \in Nat
      /\ odometry' = Append(odometry, z) /\ vision_pose' = vision_pose
  BY DEF radar_cb, BridgeInv, BridgeAssumption
<1>2. /\ odometry' \in Seq(Int) /\ Len(odometry') = n + 1 /\ odometry'[n + 1] = z
      /\ \A i \in 1..n : odometry'[i] = odometry[i]
  BY <1>1
<1>3. \A k \in 0..n : SumOver(1..k, odometry') = SumOver(1..k, odometry) /\ SumOver(1..k, odometry) \in Int
  BY <1>1, SumGrows
<1>4. Zeroed'
  <2> SUFFICES ASSUME vision_pose.received # 0
               PROVE  /\ vision_pose.received > Samples
                      /\ vision_pose.height = Samples * odometry'[vision_pose.received]
                           - SumOver(1..Samples, odometry')
    BY <1>1 DEF Zeroed
  <2>1. /\ vision_pose.received > Samples
        /\ vision_pose.height = Samples * odometry[vision_pose.received] - SumOver(1..Samples, odometry)
    BY DEF BridgeInv, Zeroed
  <2>2. vision_pose.received \in 1..n /\ Samples \in 0..n
    BY <1>1, <2>1 DEF BridgeInv
  <2> QED
    BY <1>2, <1>3, <2>1, <2>2
<1>5. CASE Collecting
  <2>1. /\ checktime_ < Samples /\ checktime_ = n
        /\ checktime_' = n + 1 /\ sum_offset_' = sum_offset_ + z
        /\ UNCHANGED <<offset_, send_data_, data_ready_>>
    BY <1>1, <1>5 DEF radar_cb, Collecting, CollectSample, BridgeInv
  <2>2. Summed = n /\ Summed' = n + 1
    BY <1>1, <2>1 DEF Summed, BridgeAssumption
  <2>3. sum_offset_' = SumOver(1..n + 1, odometry')
    BY <1>1, <2>1, <2>2, SumGrows DEF BridgeInv
  <2> QED
    BY <1>1, <1>2, <1>4, <2>1, <2>2, <2>3 DEF BridgeInv
<1>6. CASE ~Collecting
  <2>1. /\ UpdatePose(z) /\ checktime_ >= Samples /\ n >= Samples
        /\ checktime_' = Samples + 1 /\ sum_offset_' = sum_offset_
    BY <1>1, <1>6 DEF radar_cb, Collecting, UpdatePose, BridgeInv, CollectSample
  <2>2. Summed = Samples /\ Summed' = Samples
    BY <1>1, <2>1 DEF Summed, BridgeAssumption, BridgeInv
  <2>3. sum_offset_' = SumOver(1..Summed', odometry') /\ sum_offset_' \in Int
    BY <1>1, <1>3, <2>1, <2>2 DEF BridgeInv
  <2>4. offset_' = sum_offset_' /\ send_data_' = Samples * z - sum_offset_'
    BY <1>1, <2>1 DEF UpdatePose, BridgeInv
  <2>5. /\ checktime_' = IF Len(odometry') > Samples THEN Samples + 1 ELSE Len(odometry')
        /\ checktime_' \in Nat
    BY <1>1, <1>2, <2>1
  <2>6. send_data_' = Samples * odometry'[Len(odometry')] - sum_offset_' /\ send_data_' \in Int
    BY <1>1, <1>2, <2>3, <2>4
  <2>7. vision_pose'.received \in Nat /\ vision_pose'.received <= Len(odometry')
    BY <1>1, <1>2 DEF BridgeInv
  <2> QED
    BY <1>2, <1>4, <2>3, <2>4, <2>5, <2>6, <2>7 DEF BridgeInv
<1> QED
  BY <1>5, <1>6

\* The timer publishes what the odometry left last.
LEMMA TimerKeepsBridge ==
  ASSUME BridgeAssumption, BridgeInv, timer_cb
  PROVE  BridgeInv'
<1>1. /\ checktime_ > Samples /\ checktime_ \in Nat /\ Samples \in Nat
      /\ vision_pose' = [height |-> send_data_, received |-> Len(odometry)]
      /\ UNCHANGED <<checktime_, sum_offset_, offset_, send_data_, data_ready_, odometry>>
  BY DEF timer_cb, BridgeInv, BridgeAssumption
<1>2. Len(odometry) \in Nat /\ Len(odometry) > Samples /\ Summed = Samples
  BY <1>1 DEF BridgeInv, Summed
<1>3. vision_pose'.height = Samples * odometry[Len(odometry)] - SumOver(1..Samples, odometry)
  BY <1>1, <1>2 DEF BridgeInv
<1>4. Zeroed'
  BY <1>1, <1>2, <1>3 DEF Zeroed
<1> QED
  BY <1>1, <1>2, <1>4 DEF BridgeInv, Summed

\* No pose is published that is not the newest height less the mean of the first samples, for
\* any heights and any number of samples (odom_to_pose_node.cpp:38-62).
THEOREM PosesZeroed == BridgeSpec => []HeightZeroed
<1>1. BridgeInit => BridgeInv
  <2> SUFFICES ASSUME BridgeInit PROVE BridgeInv
    OBVIOUS
  <2>1. /\ checktime_ = 0 /\ sum_offset_ = 0 /\ odometry = <<>> /\ vision_pose.received = 0
        /\ send_data_ = 0 /\ Len(odometry) = 0
    BY DEF BridgeInit
  <2>2. Samples \in Nat /\ Samples > 0
    BY BridgeAssumption DEF BridgeAssumption
  <2>3. Summed = 0 /\ 1..0 = {}
    BY <2>1, <2>2 DEF Summed
  <2>4. SumOver({}, odometry) = 0
    BY FS_EmptySet, SumOverParts
  <2> QED
    BY <2>1, <2>2, <2>3, <2>4 DEF BridgeInv, Zeroed
<1>2. BridgeInv /\ [BridgeNext]_bridgeVars => BridgeInv'
  <2> SUFFICES ASSUME BridgeInv, [BridgeNext]_bridgeVars PROVE BridgeInv'
    OBVIOUS
  <2>1. CASE timer_cb
    BY <2>1, BridgeAssumption, TimerKeepsBridge
  <2>2. CASE \E z \in Heights : radar_cb(z)
    BY <2>2, BridgeAssumption, SampleKeepsBridge
  <2>3. CASE UNCHANGED bridgeVars
    BY <2>3 DEF bridgeVars, BridgeInv, Summed, Zeroed
  <2> QED
    BY <2>1, <2>2, <2>3 DEF BridgeNext
<1>3. BridgeInv => HeightZeroed
  BY FirstSamples DEF BridgeInv
<1> QED
  BY <1>1, <1>2, <1>3, PTL DEF BridgeSpec

-----------------------------------------------------------------------------
(* The stuck protection *)

\* StuckSound looks back over eight seconds: what holds of every state is that the vehicle
\* was near its reference place at each tick since the clock was set.
StuckInv ==
  /\ now \in Nat /\ local_position_ \in Int /\ last_position_ \in Int
  /\ trail \in Seq(Int) /\ Len(trail) = now
  /\ last_position_time_ = NoTime => Moved
  /\ last_position_time_ # NoTime =>
       /\ last_position_time_ \in Nat
       /\ \A t \in 1..now : t > last_position_time_ =>
            Apart(trail[t], last_position_) <= MoveThreshold

\* A tick adds the present place to the history.
LEMMA TickTrail ==
  ASSUME StuckAssumption, StuckInv, StuckNext
  PROVE  /\ now' = now + 1 /\ now' \in Nat /\ local_position_' \in Int
         /\ trail' \in Seq(Int) /\ Len(trail') = now'
         /\ trail'[now + 1] = local_position_
         /\ \A t \in 1..now : trail'[t] = trail[t]
<1>1. /\ now' = now + 1 /\ trail' = Append(trail, local_position_) /\ local_position_' \in Places
  BY DEF StuckNext, execute_waypoint_mission
<1> QED
  BY <1>1 DEF StuckInv, StuckAssumption

\* Every tick keeps the reference place and the clock together.
LEMMA StuckStep ==
  ASSUME StuckAssumption, StuckInv, [StuckNext]_stuckVars
  PROVE  StuckInv'
<1>1. CASE StuckNext
  <2>1. /\ now' = now + 1 /\ now \in Nat /\ now' \in Nat /\ local_position_' \in Int
        /\ trail' \in Seq(Int) /\ Len(trail') = now'
        /\ trail'[now + 1] = local_position_
        /\ \A t \in 1..now : trail'[t] = trail[t]
    BY <1>1, TickTrail DEF StuckInv
  <2>2. local_position_ \in Int /\ last_position_ \in Int /\ MoveThreshold \in Nat
    BY DEF StuckInv, StuckAssumption
  <2>3. CASE last_position_time_' = now /\ last_position_' = local_position_
    <3>1. \A t \in 1..now + 1 : t > now => t = now + 1
      BY <2>1
    <3>2. Apart(local_position_, local_position_) = 0 /\ now # NoTime
      BY <2>1, <2>2 DEF Apart, NoTime
    <3> QED
      BY <2>1, <2>2, <2>3, <3>1, <3>2 DEF StuckInv
  <2>4. CASE ~Moved /\ last_position_time_ # NoTime /\ UNCHANGED <<last_position_, last_position_time_>>
    <3>1. Apart(local_position_, last_position_) <= MoveThreshold
      BY <2>2, <2>4 DEF Moved, Apart
    <3>2. \A t \in 1..now + 1 : t \in 1..now \/ t = now + 1
      BY <2>1
    <3> QED
      BY <2>1, <2>2, <2>4, <3>1, <3>2 DEF StuckInv
  <2> QED
    BY <1>1, <2>3, <2>4 DEF StuckNext, execute_waypoint_mission, check_position_stuck_protection,
                            PositionChanged, PositionKept, reset_position_stuck_detection
<1>2. CASE UNCHANGED stuckVars
  BY <1>2 DEF stuckVars, StuckInv, Moved
<1> QED
  BY <1>1, <1>2

\* What a detection says of the ticks before it.
LEMMA DetectedNearby ==
  ASSUME StuckAssumption, StuckInv, StuckNext, ~position_stuck_detected_, position_stuck_detected_',
         NEW t \in DOMAIN trail', t > now + 1 - StuckAfter
  PROVE  Apart(trail'[t], local_position_) <= 2 * MoveThreshold
<1>1. /\ now' = now + 1 /\ now \in Nat /\ trail' \in Seq(Int) /\ Len(trail') = now'
      /\ trail'[now + 1] = local_position_
      /\ \A k \in 1..now : trail'[k] = trail[k]
  BY TickTrail DEF StuckInv
<1>2. local_position_ \in Int /\ last_position_ \in Int /\ MoveThreshold \in Nat
      /\ StuckAfter \in Nat
  BY DEF StuckInv, StuckAssumption
<1>3. PositionKept /\ StuckNow
  BY DEF StuckNext, execute_waypoint_mission, check_position_stuck_protection, PositionChanged,
         PositionKept, reset_position_stuck_detection
<1>4. /\ last_position_time_ \in Nat /\ now - last_position_time_ >= StuckAfter
      /\ Apart(local_position_, last_position_) <= MoveThreshold
      /\ \A k \in 1..now : k > last_position_time_ => Apart(trail[k], last_position_) <= MoveThreshold
  BY <1>2, <1>3 DEF PositionKept, StuckNow, Moved, Apart, StuckInv
<1>5. t \in 1..now + 1 /\ trail'[t] \in Int
  BY <1>1
<1>6. CASE t = now + 1
  BY <1>1, <1>2, <1>6 DEF Apart
<1>7. CASE t \in 1..now
  <2>1. t > last_position_time_
    BY <1>1, <1>2, <1>4, <1>7
  <2>2. Apart(trail'[t], last_position_) <= MoveThreshold
    BY <1>1, <1>4, <1>7, <2>1
  <2> QED
    BY <1>2, <1>4, <1>5, <2>2 DEF Apart
<1> QED
  BY <1>1, <1>5, <1>6, <1>7

\* The vehicle was near its place for the whole time when it is taken for stuck, and times of
\* different clocks are never subtracted, for any flight, any threshold and any waypoints
\* reached in between (test_task_controller.cpp:256-263).
THEOREM StuckIsSound == StuckSpec => StuckSound
<1>1. StuckInit => StuckInv
  <2> SUFFICES ASSUME StuckInit PROVE StuckInv
    OBVIOUS
  <2>1. /\ now = 0 /\ local_position_ \in Int /\ Apart(local_position_, 0) > MoveThreshold
        /\ last_position_ = 0 /\ last_position_time_ = NoTime /\ trail = <<>>
    BY StuckAssumption DEF StuckInit, StuckAssumption
  <2> QED
    BY <2>1 DEF StuckInv, Moved
<1>2. StuckInv /\ [StuckNext]_stuckVars => StuckInv'
  BY StuckAssumption, StuckStep
<1>3. StuckInv /\ StuckInv' /\ [StuckNext]_stuckVars
        => [/\ TimesComparable'
            /\ ~position_stuck_detected_ /\ position_stuck_detected_' =>
                 \A t \in DOMAIN trail' :
                   t > now + 1 - StuckAfter =>
                     Apart(trail'[t], local_position_) <= 2 * MoveThreshold]_stuckVars
  <2> SUFFICES ASSUME StuckInv, StuckInv', StuckNext
               PROVE  /\ TimesComparable'
                      /\ ~position_stuck_detected_ /\ position_stuck_detected_' =>
                           \A t \in DOMAIN trail' :
                             t > now + 1 - StuckAfter =>
                               Apart(trail'[t], local_position_) <= 2 * MoveThreshold
    OBVIOUS
  <2>1. TimesComparable'
    BY DEF StuckInv, TimesComparable
  <2> QED
    BY <2>1, StuckAssumption, DetectedNearby
<1> QED
  BY <1>1, <1>2, <1>3, PTL DEF StuckSpec, StuckSound

-----------------------------------------------------------------------------
(* The compressed route *)

\* Two vectors that are parallel to a third one are parallel, and their product is that of
\* their lengths along it.
LEMMA Parallel ==
  ASSUME NEW v \in Int \X Int, NEW x \in Int \X Int, NEW y \in Int \X Int,
         Cross(v, x) = 0, Cross(v, y) = 0, Dot(v, v) > 0
  PROVE  Cross(x, y) = 0 /\ Dot(v, v) * Dot(x, y) = Dot(v, x) * Dot(v, y)
<1>1. PICK a, b, c, d, e, f \in Int :
        v[1] = a /\ v[2] = b /\ x[1] = c /\ x[2] = d /\ y[1] = e /\ y[2] = f
  OBVIOUS
<1>2. a * d - b * c = 0 /\ a * f - b * e = 0 /\ a * a + b * b > 0
  BY <1>1 DEF Cross, Dot
<1>3. /\ c * f - d * e = 0
      /\ (a * a + b * b) * (c * e + d * f) = (a * c + b * d) * (a * e + b * f)
  BY <1>2
<1> QED
  BY <1>1, <1>3 DEF Cross, Dot

LEMMA SignsMultiply ==
  ASSUME NEW n \in Int, NEW p \in Int, NEW s \in Int, NEW t \in Int, n > 0, n * p = s * t
  PROVE  /\ s <= 0 /\ t >= 0 => p <= 0
         /\ s > 0 /\ p > 0 => t > 0
OBVIOUS

LEMMA VectorNumbers ==
  ASSUME NEW u \in Int \X Int, NEW v \in Int \X Int
  PROVE  Vector(u, v) \in Int \X Int /\ Cross(u, v) \in Int /\ Dot(u, v) \in Int
<1>1. u[1] \in Int /\ u[2] \in Int /\ v[1] \in Int /\ v[2] \in Int
  OBVIOUS
<1> QED
  BY <1>1 DEF Vector, Cross, Dot

\* A point on the line through a in the direction v, and how far along it.
OnLine(v, a, p) == p \in Int \X Int /\ Cross(v, Vector(a, p)) = 0
Along(v, a, p) == Dot(v, Vector(a, p))

\* On a line, a point that is neither before one nor behind another is between them.
LEMMA Between ==
  ASSUME NEW v \in Int \X Int, Dot(v, v) > 0, NEW a \in Int \X Int, NEW p, NEW x, NEW y,
         OnLine(v, a, p), OnLine(v, a, x), OnLine(v, a, y),
         Along(v, a, x) <= Along(v, a, p), Along(v, a, p) <= Along(v, a, y)
  PROVE  On(p, x, y)
<1>1. /\ v[1] \in Int /\ v[2] \in Int /\ a[1] \in Int /\ a[2] \in Int
      /\ p[1] \in Int /\ p[2] \in Int /\ x[1] \in Int /\ x[2] \in Int /\ y[1] \in Int /\ y[2] \in Int
      /\ p \in Int \X Int /\ x \in Int \X Int /\ y \in Int \X Int
  BY DEF OnLine
<1>2. /\ Vector(x, y) \in Int \X Int /\ Vector(x, p) \in Int \X Int
      /\ Vector(p, x) \in Int \X Int /\ Vector(p, y) \in Int \X Int
  BY <1>1, VectorNumbers
<1>3. ASSUME NEW q \in {p, x, y}, NEW r \in {p, x, y}
      PROVE  /\ Cross(v, Vector(q, r)) = 0
             /\ Dot(v, Vector(q, r)) = Along(v, a, r) - Along(v, a, q)
  <2>1. /\ q[1] \in Int /\ q[2] \in Int /\ r[1] \in Int /\ r[2] \in Int
        /\ Cross(v, Vector(a, q)) = 0 /\ Cross(v, Vector(a, r)) = 0
    BY <1>1 DEF OnLine
  <2>2. Cross(v, Vector(q, r)) = Cross(v, Vector(a, r)) - Cross(v, Vector(a, q))
    <3>1. PICK v1, v2, a1, a2, q1, q2, r1, r2 \in Int :
            /\ v[1] = v1 /\ v[2] = v2 /\ a[1] = a1 /\ a[2] = a2
            /\ q[1] = q1 /\ q[2] = q2 /\ r[1] = r1 /\ r[2] = r2
      BY <1>1, <2>1
    <3>2. v1 * (r2 - q2) - v2 * (r1 - q1)
            = (v1 * (r2 - a2) - v2 * (r1 - a1)) - (v1 * (q2 - a2) - v2 * (q1 - a1))
      OBVIOUS
    <3> QED
      BY <3>1, <3>2 DEF Cross, Vector
  <2>3. Dot(v, Vector(q, r)) = Dot(v, Vector(a, r)) - Dot(v, Vector(a, q))
    BY <1>1, <2>1 DEF Dot, Vector
  <2> QED
    BY <2>1, <2>2, <2>3 DEF Along
<1>4. Along(v, a, p) \in Int /\ Along(v, a, x) \in Int /\ Along(v, a, y) \in Int
  BY <1>1 DEF Along, Dot, Vector
<1>5. Cross(Vector(x, y), Vector(x, p)) = 0
  BY <1>2, <1>3, Parallel
<1>6. Dot(v, v) * Dot(Vector(p, x), Vector(p, y)) = Dot(v, Vector(p, x)) * Dot(v, Vector(p, y))
  BY <1>2, <1>3, Parallel
<1>7. /\ Dot(v, Vector(p, x)) <= 0 /\ Dot(v, Vector(p, y)) >= 0
      /\ Dot(v, Vector(p, x)) \in Int /\ Dot(v, Vector(p, y)) \in Int
  BY <1>3, <1>4
<1>8. Dot(Vector(p, x), Vector(p, y)) \in Int /\ Dot(v, v) \in Int
  BY <1>2, VectorNumbers
<1>9. Dot(Vector(p, x), Vector(p, y)) <= 0
  BY <1>6, <1>7, <1>8, SignsMultiply
<1> QED
  BY <1>5, <1>9 DEF On

\* The middle of two points of a line is on it, half way.
LEMMA MiddleOnLine ==
  ASSUME NEW v \in Int \X Int, NEW a \in Int \X Int, NEW b, OnLine(v, a, b),
         a[1] % 2 = 0, a[2] % 2 = 0, b[1] % 2 = 0, b[2] % 2 = 0
  PROVE  OnLine(v, a, Middle(a, b)) /\ 2 * Along(v, a, Middle(a, b)) = Along(v, a, b)
<1> DEFINE m == Middle(a, b)
<1>1. /\ v[1] \in Int /\ v[2] \in Int /\ a[1] \in Int /\ a[2] \in Int /\ b[1] \in Int /\ b[2] \in Int
  BY DEF OnLine
<1>2. ASSUME NEW x \in Int, NEW y \in Int, x % 2 = 0, y % 2 = 0
      PROVE  (x + y) \div 2 \in Int /\ 2 * ((x + y) \div 2) = x + y
  BY <1>2
<1>3. /\ m \in Int \X Int /\ m[1] \in Int /\ m[2] \in Int
      /\ 2 * m[1] = a[1] + b[1] /\ 2 * m[2] = a[2] + b[2]
  BY <1>1, <1>2 DEF Middle
<1> HIDE DEF m
<1>4. 2 * (m[1] - a[1]) = b[1] - a[1] /\ 2 * (m[2] - a[2]) = b[2] - a[2]
  BY <1>1, <1>3
<1>5. 2 * Dot(v, Vector(a, m)) = Dot(v, Vector(a, b))
  BY <1>1, <1>3, <1>4 DEF Dot, Vector
<1>6. 2 * Cross(v, Vector(a, m)) = Cross(v, Vector(a, b)) /\ Cross(v, Vector(a, m)) \in Int
  BY <1>1, <1>3, <1>4 DEF Cross, Vector
<1>7. Cross(v, Vector(a, m)) = 0
  <2>1. Cross(v, Vector(a, b)) = 0
    BY DEF OnLine
  <2> QED
    BY <1>6, <2>1
<1>8. OnLine(v, a, m) /\ 2 * Along(v, a, m) = Along(v, a, b)
  BY <1>3, <1>5, <1>7 DEF OnLine, Along
<1> QED
  BY <1>8 DEF m

\* The first n waypoints of the route lie on the legs of w, in order; those at the end of w
\* wait for the next leg.
Covered(w, n) ==
  \E leg \in [1..n -> 1..Len(w)] :
    /\ \A j \in 1..n : IF leg[j] = Len(w) THEN raw_waypoints[j] = w[Len(w)]
                       ELSE On(raw_waypoints[j], w[leg[j]], w[leg[j] + 1])
    /\ \A j \in 1..n : j > 1 => leg[j - 1] <= leg[j]

\* A leg begins where it begins and ends where it ends.
LEMMA OnItsEnds ==
  ASSUME NEW a \in Int \X Int, NEW b \in Int \X Int
  PROVE  On(a, a, b) /\ On(b, a, b)
<1>1. PICK a1, a2, b1, b2 \in Int : a = <<a1, a2>> /\ b = <<b1, b2>>
  OBVIOUS
<1>2. /\ Vector(a, b) = <<b1 - a1, b2 - a2>> /\ Vector(b, a) = <<a1 - b1, a2 - b2>>
      /\ Vector(a, a) = <<0, 0>> /\ Vector(b, b) = <<0, 0>>
  BY <1>1 DEF Vector
<1>3. \A x, y \in Int : Cross(<<x, y>>, <<0, 0>>) = 0 /\ Dot(<<x, y>>, <<0, 0>>) = 0
                        /\ Dot(<<0, 0>>, <<x, y>>) = 0 /\ Cross(<<x, y>>, <<x, y>>) = 0
  BY DEF Cross, Dot
<1> QED
  BY <1>2, <1>3 DEF On

\* A leg that is added takes the waypoints on it.
LEMMA LegAdded ==
  ASSUME NEW w \in Seq(Int \X Int), Len(w) >= 1, NEW n \in Nat, NEW i \in Nat, n <= i,
         Covered(w, n), NEW p \in Int \X Int,
         \A j \in n + 1 .. i : On(raw_waypoints[j], w[Len(w)], p)
  PROVE  Covered(Append(w, p), i)
<1> DEFINE x == Append(w, p)
           L == Len(w)
<1>1. /\ L \in Nat /\ Len(x) = L + 1 /\ x[L + 1] = p /\ \A k \in 1..L : x[k] = w[k]
      /\ w[L] \in Int \X Int
  OBVIOUS
<1>2. PICK leg \in [1..n -> 1..L] :
        /\ \A j \in 1..n : IF leg[j] = L THEN raw_waypoints[j] = w[L]
                           ELSE On(raw_waypoints[j], w[leg[j]], w[leg[j] + 1])
        /\ \A j \in 1..n : j > 1 => leg[j - 1] <= leg[j]
  BY DEF Covered
<1> HIDE DEF x, L
<1> DEFINE new == [j \in 1..i |-> IF j <= n THEN leg[j] ELSE L]
<1>3. new \in [1..i -> 1..L + 1]
  <2>1. ASSUME NEW j \in 1..i PROVE new[j] \in 1..L /\ (j <= n => j \in 1..n)
    BY <1>1, <1>2 DEF L
  <2>2. \A l \in 1..L : l \in 1..L + 1
    BY <1>1
  <2> QED
    BY <2>1, <2>2
<1>4. ASSUME NEW j \in 1..i
      PROVE  new[j] # L + 1 /\ On(raw_waypoints[j], x[new[j]], x[new[j] + 1])
  <2>1. CASE j <= n /\ leg[j] # L
    <3>1. j \in 1..n /\ leg[j] \in 1..L
      BY <1>2, <2>1
    <3>2. leg[j] + 1 \in 1..L
      <4>1. L \in Nat
        BY <1>1
      <4>2. \A l \in 1..L : l # L => l + 1 \in 1..L
        BY <4>1
      <4> QED
        BY <2>1, <3>1, <4>2
    <3>3. new[j] = leg[j] /\ x[leg[j]] = w[leg[j]] /\ x[leg[j] + 1] = w[leg[j] + 1]
      BY <1>1, <2>1, <3>1, <3>2
    <3>4. leg[j] # L + 1
      BY <1>1, <3>1
    <3> QED
      BY <1>2, <2>1, <3>1, <3>3, <3>4
  <2>2. CASE j <= n /\ leg[j] = L
    <3>1. raw_waypoints[j] = w[L] /\ new[j] = L
      BY <1>2, <2>2
    <3>2. On(w[L], w[L], p)
      BY <1>1, OnItsEnds
    <3>3. L \in 1..L /\ L # L + 1
      BY <1>1 DEF L
    <3> QED
      BY <1>1, <3>1, <3>2, <3>3
  <2>3. CASE ~(j <= n)
    <3>1. j \in n + 1 .. i /\ new[j] = L
      BY <2>3
    <3>2. L \in 1..L /\ L # L + 1
      BY <1>1 DEF L
    <3> QED
      BY <1>1, <3>1, <3>2 DEF L
  <2> QED
    BY <2>1, <2>2, <2>3
<1>5. ASSUME NEW j \in 1..i, j > 1 PROVE new[j - 1] <= new[j]
  <2>1. j - 1 \in 1..i /\ j - 1 >= 1
    BY <1>5
  <2>2. CASE j <= n
    BY <1>2, <1>5, <2>1, <2>2
  <2>3. CASE ~(j <= n) /\ j - 1 <= n
    <3>1. j - 1 \in 1..n /\ new[j - 1] = leg[j - 1] /\ new[j] = L
      BY <1>5, <2>1, <2>3
    <3> QED
      BY <1>1, <1>2, <3>1
  <2>4. CASE ~(j <= n) /\ ~(j - 1 <= n)
    BY <1>1, <2>1, <2>4
  <2> QED
    BY <2>2, <2>3, <2>4
<1> HIDE DEF new
<1>6. Covered(x, i)
  BY <1>1, <1>3, <1>4, <1>5 DEF Covered
<1> QED
  BY <1>6 DEF x

\* With the last waypoint at its end, no waypoint waits for a leg.
LEMMA RouteClosed ==
  ASSUME NEW w \in Seq(Int \X Int), Len(w) >= 2, NEW n \in Nat, Covered(w, n)
  PROVE  \E leg \in [1..n -> 1..(Len(w) - 1)] :
           /\ \A k \in 1..n : On(raw_waypoints[k], w[leg[k]], w[leg[k] + 1])
           /\ \A k \in 1..n : k > 1 => leg[k - 1] <= leg[k]
<1> DEFINE L == Len(w)
<1>1. L \in Nat /\ L >= 2 /\ \A k \in 1..L : w[k] \in Int \X Int
  OBVIOUS
<1>2. PICK leg \in [1..n -> 1..L] :
        /\ \A j \in 1..n : IF leg[j] = L THEN raw_waypoints[j] = w[L]
                           ELSE On(raw_waypoints[j], w[leg[j]], w[leg[j] + 1])
        /\ \A j \in 1..n : j > 1 => leg[j - 1] <= leg[j]
  BY DEF Covered
<1> HIDE DEF L
<1> DEFINE new == [j \in 1..n |-> IF leg[j] = L THEN L - 1 ELSE leg[j]]
<1>3. ASSUME NEW j \in 1..n
      PROVE  /\ new[j] \in 1..(L - 1) /\ leg[j] \in 1..L
             /\ On(raw_waypoints[j], w[new[j]], w[new[j] + 1])
  <2>1. leg[j] \in 1..L
    BY <1>2
  <2>2. CASE leg[j] = L
    <3>1. /\ new[j] = L - 1 /\ L - 1 \in 1..(L - 1) /\ (L - 1) + 1 = L /\ L - 1 \in 1..L /\ L \in 1..L
      BY <1>1, <2>2
    <3>2. On(w[L], w[L - 1], w[L])
      BY <1>1, <3>1, OnItsEnds
    <3> QED
      BY <1>2, <2>2, <3>1, <3>2
  <2>3. CASE leg[j] # L
    <3>1. new[j] = leg[j] /\ leg[j] \in 1..(L - 1)
      BY <1>1, <2>1, <2>3
    <3> QED
      BY <1>2, <2>1, <2>3, <3>1
  <2> QED
    BY <2>1, <2>2, <2>3
<1>4. ASSUME NEW j \in 1..n, j > 1 PROVE new[j - 1] <= new[j]
  <2>1. j - 1 \in 1..n
    BY <1>4
  <2>2. leg[j - 1] <= leg[j] /\ leg[j - 1] \in 1..L /\ leg[j] \in 1..L
    BY <1>2, <1>3, <1>4, <2>1
  <2> QED
    BY <1>1, <2>1, <2>2
<1>5. new \in [1..n -> 1..(L - 1)]
  BY <1>3
<1> HIDE DEF new
<1> QED
  BY <1>3, <1>4, <1>5 DEF L

\* The last waypoint that was kept, and where the route went from there.
Corner == curr_idx - 1 - Len(current_line_points)
DirectionFrom(c) == Vector(raw_waypoints[c], raw_waypoints[c + 1])

\* From c to i the route is straight, and does not go back.
Straight(c, i) ==
  LET v == DirectionFrom(c)
      a == raw_waypoints[c]
  IN
  /\ \A j \in c..i : OnLine(v, a, raw_waypoints[j])
  /\ \A j, l \in c..i : j <= l => Along(v, a, raw_waypoints[j]) <= Along(v, a, raw_waypoints[l])
  /\ Cross(v, Vector(raw_waypoints[i - 1], raw_waypoints[i])) = 0
  /\ Dot(v, Vector(raw_waypoints[i - 1], raw_waypoints[i])) > 0

\* RouteCovered is about the finished route: the loop keeps what lies before the last corner
\* covered and what lies behind it straight.
CompressInv ==
  /\ raw_waypoints \in Routes
  /\ compressed => RouteCovered
  /\ ~compressed =>
       /\ curr_idx \in 2..Len(raw_waypoints)
       /\ current_line_points \in Seq(Int)
       /\ Corner \in 1..curr_idx - 1
       /\ current_line_points # <<>> => line_start_idx = Corner
       /\ waypoints \in Seq(Int \X Int) /\ Len(waypoints) >= 1
       /\ waypoints[Len(waypoints)] = raw_waypoints[Corner]
       /\ Covered(waypoints, Corner)
       /\ Straight(Corner, curr_idx)

\* A point is the pair of its coordinates.
LEMMA PointPair ==
  ASSUME NEW p \in Int \X Int
  PROVE  p[1] \in Int /\ p[2] \in Int /\ p = <<p[1], p[2]>>
OBVIOUS

\* By way of a point.
LEMMA VectorsAdd ==
  ASSUME NEW v \in Int \X Int, NEW a \in Int \X Int, NEW p \in Int \X Int, NEW q \in Int \X Int
  PROVE  /\ Cross(v, Vector(a, q)) = Cross(v, Vector(a, p)) + Cross(v, Vector(p, q))
         /\ Dot(v, Vector(a, q)) = Dot(v, Vector(a, p)) + Dot(v, Vector(p, q))
<1>1. PICK v1, v2, a1, a2, p1, p2, q1, q2 \in Int :
        /\ v[1] = v1 /\ v[2] = v2 /\ a[1] = a1 /\ a[2] = a2
        /\ p[1] = p1 /\ p[2] = p2 /\ q[1] = q1 /\ q[2] = q2
  BY PointPair
<1>2. /\ v1 * (q2 - a2) - v2 * (q1 - a1)
          = (v1 * (p2 - a2) - v2 * (p1 - a1)) + (v1 * (q2 - p2) - v2 * (q1 - p1))
      /\ v1 * (q1 - a1) + v2 * (q2 - a2)
          = (v1 * (p1 - a1) + v2 * (p2 - a2)) + (v1 * (q1 - p1) + v2 * (q2 - p2))
  OBVIOUS
<1> QED
  BY <1>1, <1>2 DEF Cross, Dot, Vector

\* The waypoints of the route.
LEMMA RoutePoints ==
  ASSUME raw_waypoints \in Routes
  PROVE  /\ raw_waypoints \in Seq(Int \X Int) /\ Len(raw_waypoints) \in Nat
         /\ DOMAIN raw_waypoints = 1..Len(raw_waypoints)
         /\ \A k \in 1..Len(raw_waypoints) :
              /\ raw_waypoints[k] \in Int \X Int
              /\ raw_waypoints[k][1] % 2 = 0 /\ raw_waypoints[k][2] % 2 = 0
         /\ \A k \in 1..Len(raw_waypoints) - 1 :
              LET v == DirectionFrom(k) IN v \in Int \X Int /\ Dot(v, v) > 0
<1>1. /\ raw_waypoints \in Seq(Int \X Int) /\ Len(raw_waypoints) \in Nat
      /\ DOMAIN raw_waypoints = 1..Len(raw_waypoints)
      /\ \A k \in 1..Len(raw_waypoints) : raw_waypoints[k] \in Int \X Int
  BY RoutesAssumption
<1>2. ASSUME NEW k \in 1..Len(raw_waypoints) - 1
      PROVE  DirectionFrom(k) \in Int \X Int /\ Dot(DirectionFrom(k), DirectionFrom(k)) > 0
  <2>1. k \in 1..Len(raw_waypoints) /\ k + 1 \in 1..Len(raw_waypoints)
    BY <1>1
  <2>2. raw_waypoints[k] # raw_waypoints[k + 1]
    BY RoutesAssumption
  <2>3. PICK a1, a2, b1, b2 \in Int :
          raw_waypoints[k] = <<a1, a2>> /\ raw_waypoints[k + 1] = <<b1, b2>>
    <3>1. raw_waypoints[k] \in Int \X Int /\ raw_waypoints[k + 1] \in Int \X Int
      BY <1>1, <2>1
    <3> QED
      BY ONLY <3>1, PointPair
  <2>4. b1 - a1 # 0 \/ b2 - a2 # 0
    BY <2>2, <2>3
  <2>5. \A x, y \in Int : x # 0 \/ y # 0 => x * x + y * y > 0
    OBVIOUS
  <2>6. DirectionFrom(k) = <<b1 - a1, b2 - a2>>
    BY <2>3 DEF DirectionFrom, Vector
  <2> QED
    BY <2>4, <2>5, <2>6 DEF Dot
<1> QED
  BY <1>1, <1>2, RoutesAssumption

\* A straight line with the next waypoint in its direction is straight as far as there.
LEMMA StraightOn ==
  ASSUME raw_waypoints \in Routes, NEW c \in Nat, NEW i \in Nat,
         1 <= c, c < i, i < Len(raw_waypoints), Straight(c, i),
         Cross(Vector(raw_waypoints[i - 1], raw_waypoints[i]), DirectionFrom(i)) = 0,
         ~(Dot(Vector(raw_waypoints[i - 1], raw_waypoints[i]), DirectionFrom(i)) < 0)
  PROVE  Straight(c, i + 1)
<1> DEFINE r == raw_waypoints
           v == DirectionFrom(c)
           a == r[c]
           b == DirectionFrom(i - 1)
           d == DirectionFrom(i)
<1>1. /\ i - 1 \in 1..Len(r) - 1 /\ i \in 1..Len(r) - 1 /\ c \in 1..Len(r) - 1
      /\ c \in 1..Len(r) /\ i \in 1..Len(r) /\ i + 1 \in 1..Len(r) /\ (i - 1) + 1 = i
      /\ \A j \in c..i + 1 : j \in 1..Len(r)
  <2>1. Len(raw_waypoints) \in Nat
    BY RoutePoints
  <2> QED
    BY <2>1
<1>2. /\ v \in Int \X Int /\ Dot(v, v) > 0 /\ b \in Int \X Int /\ Dot(b, b) > 0
      /\ d \in Int \X Int /\ Dot(d, d) > 0
      /\ a \in Int \X Int /\ r[i] \in Int \X Int /\ r[i + 1] \in Int \X Int
  BY <1>1, RoutePoints
<1>3. /\ Vector(r[i - 1], r[i]) = b /\ Vector(r[i], r[i + 1]) = d
      /\ Cross(v, b) = 0 /\ Dot(v, b) > 0 /\ Cross(b, d) = 0 /\ ~(Dot(b, d) < 0)
  BY <1>1 DEF Straight, DirectionFrom
<1> HIDE DEF v, b, d, r
<1>4. Cross(b, v) = 0 /\ Dot(b, v) = Dot(v, b)
  <2>1. PICK v1, v2, b1, b2 \in Int : v = <<v1, v2>> /\ b = <<b1, b2>>
    BY <1>2
  <2>2. v1 * b2 - v2 * b1 = 0 => b1 * v2 - b2 * v1 = 0
    OBVIOUS
  <2>3. b1 * v1 + b2 * v2 = v1 * b1 + v2 * b2
    OBVIOUS
  <2> QED
    BY <1>3, <2>1, <2>2, <2>3 DEF Cross, Dot
<1>5. Cross(v, d) = 0 /\ Dot(b, b) * Dot(v, d) = Dot(b, v) * Dot(b, d)
  BY <1>2, <1>3, <1>4, Parallel
<1>6. Dot(b, d) \in Int /\ Dot(v, d) \in Int /\ Dot(b, b) \in Int /\ Dot(v, b) \in Int
      /\ Dot(d, d) \in Int
  BY <1>2, VectorNumbers
<1>7. Dot(b, d) > 0
  <2>1. Cross(b, b) = 0
    <3>1. PICK b1, b2 \in Int : b = <<b1, b2>>
      BY <1>2
    <3>2. b1 * b2 - b2 * b1 = 0
      OBVIOUS
    <3> QED
      BY <3>1, <3>2 DEF Cross
  <2>2. Dot(b, b) * Dot(d, d) = Dot(b, d) * Dot(b, d)
    BY <1>2, <1>3, Parallel
  <2>3. ASSUME NEW m \in Int, NEW n \in Int, m > 0, n > 0 PROVE m * n > 0
    BY <2>3
  <2>4. Dot(b, d) # 0
    <3>1. Dot(b, b) * Dot(d, d) > 0
      BY <1>2, <1>6, <2>3
    <3>2. ASSUME NEW k \in Int, k * k > 0 PROVE k # 0
      BY <3>2
    <3> QED
      BY <1>6, <2>2, <3>1, <3>2
  <2> QED
    BY <1>3, <1>6, <2>4
<1>8. Dot(v, d) > 0
  <2>1. \A n, p, s, t \in Int : n > 0 /\ s > 0 /\ t > 0 /\ n * p = s * t => p > 0
    OBVIOUS
  <2> QED
    BY <1>2, <1>3, <1>4, <1>5, <1>6, <1>7, <2>1
<1>9. /\ \A j \in c..i : OnLine(v, a, r[j])
      /\ \A j, l \in c..i : j <= l => Along(v, a, r[j]) <= Along(v, a, r[l])
  BY DEF Straight, v, r
<1>10. /\ Cross(v, Vector(a, r[i + 1])) = Cross(v, Vector(a, r[i])) + Cross(v, d)
       /\ Along(v, a, r[i + 1]) = Along(v, a, r[i]) + Dot(v, d)
  <2>1. /\ Cross(v, Vector(a, r[i + 1])) = Cross(v, Vector(a, r[i])) + Cross(v, Vector(r[i], r[i + 1]))
        /\ Dot(v, Vector(a, r[i + 1])) = Dot(v, Vector(a, r[i])) + Dot(v, Vector(r[i], r[i + 1]))
    <3>1. v \in Int \X Int /\ a \in Int \X Int /\ r[i] \in Int \X Int /\ r[i + 1] \in Int \X Int
      BY <1>2
    <3> HIDE DEF a
    <3> QED
      BY ONLY <3>1, VectorsAdd
  <2> QED
    BY <1>3, <2>1 DEF Along
<1>11. /\ i \in c..i /\ \A j \in c..i + 1 : j \in c..i \/ j = i + 1
  OBVIOUS
<1>12. OnLine(v, a, r[i + 1])
  BY <1>2, <1>5, <1>9, <1>10, <1>11 DEF OnLine
<1>13. \A j \in c..i + 1 : OnLine(v, a, r[j])
  BY <1>9, <1>11, <1>12
<1>14. \A j \in c..i + 1 : Along(v, a, r[j]) \in Int
  <2>1. ASSUME NEW p, OnLine(v, a, p) PROVE Along(v, a, p) \in Int
    BY <1>2, <2>1, VectorNumbers DEF OnLine, Along
  <2> QED
    BY <1>13, <2>1
<1>15. ASSUME NEW j \in c..i + 1, NEW l \in c..i + 1, j <= l
       PROVE  Along(v, a, r[j]) <= Along(v, a, r[l])
  <2>1. CASE l \in c..i
    BY <1>9, <1>11, <1>15, <2>1
  <2>2. CASE l = i + 1 /\ j \in c..i
    <3>1. Along(v, a, r[j]) <= Along(v, a, r[i])
      BY <1>9, <1>11, <2>2
    <3>2. Along(v, a, r[i]) \in Int /\ Along(v, a, r[j]) \in Int /\ Along(v, a, r[i + 1]) \in Int
      BY <1>11, <1>14, <2>2
    <3> QED
      BY <1>6, <1>8, <1>10, <2>2, <3>1, <3>2
  <2>3. CASE l = i + 1 /\ j = i + 1
    BY <1>14, <2>3
  <2> QED
    BY <1>11, <2>1, <2>2, <2>3
<1>16. (i + 1) - 1 = i
  OBVIOUS
<1> QED
  BY <1>3, <1>5, <1>8, <1>13, <1>15, <1>16 DEF Straight, v, r

\* The leg to the end of a straight line takes all of it, by way of its middle too.
LEMMA LineCovered ==
  ASSUME raw_waypoints \in Routes, NEW c \in Nat, NEW i \in Nat,
         1 <= c, c < i, i <= Len(raw_waypoints), Straight(c, i),
         NEW w \in Seq(Int \X Int), Len(w) >= 1, w[Len(w)] = raw_waypoints[c], Covered(w, c)
  PROVE  LET m == Middle(raw_waypoints[c], raw_waypoints[i - 1])
         IN  /\ m \in Int \X Int
             /\ Covered(Append(w, raw_waypoints[i]), i)
             /\ Covered(Append(Append(w, m), raw_waypoints[i]), i)
<1> DEFINE r == raw_waypoints
           v == DirectionFrom(c)
           a == r[c]
           m == Middle(a, r[i - 1])
<1>1. /\ c \in 1..Len(r) - 1 /\ c \in 1..Len(r) /\ i \in 1..Len(r) /\ i - 1 \in 1..Len(r)
      /\ c \in c..i /\ i \in c..i /\ i - 1 \in c..i /\ i - 1 <= i /\ \A j \in c..i : c <= j /\ j <= i
  <2>1. Len(raw_waypoints) \in Nat
    BY RoutePoints
  <2> QED
    BY <2>1
<1>2. /\ v \in Int \X Int /\ Dot(v, v) > 0 /\ a \in Int \X Int /\ r[i] \in Int \X Int
  BY <1>1, RoutePoints
<1>3. /\ \A j \in c..i : OnLine(v, a, r[j])
      /\ \A j, l \in c..i : j <= l => Along(v, a, r[j]) <= Along(v, a, r[l])
  BY DEF Straight
<1>4. OnLine(v, a, m) /\ 2 * Along(v, a, m) = Along(v, a, r[i - 1])
  <2>1. /\ a[1] % 2 = 0 /\ a[2] % 2 = 0 /\ r[i - 1][1] % 2 = 0 /\ r[i - 1][2] % 2 = 0
    BY <1>1, RoutePoints
  <2> QED
    BY <1>1, <1>2, <1>3, <2>1, MiddleOnLine
<1> HIDE DEF m, v, r
<1>5. ASSUME NEW p, OnLine(v, a, p) PROVE Along(v, a, p) \in Int
  BY <1>2, <1>5, VectorNumbers DEF OnLine, Along
<1>6. /\ \A j \in c..i : Along(v, a, r[j]) \in Int
      /\ Along(v, a, m) \in Int
  BY <1>3, <1>4, <1>5
<1>7. Along(v, a, a) = 0
  <2>1. Dot(v, Vector(a, a)) = Dot(v, Vector(a, a)) + Dot(v, Vector(a, a))
    BY <1>2, VectorsAdd
  <2> QED
    BY <1>1, <1>6, <2>1 DEF Along
<1>8. /\ \A j \in c..i : Along(v, a, a) <= Along(v, a, r[j]) /\ Along(v, a, r[j]) <= Along(v, a, r[i])
      /\ Along(v, a, a) <= Along(v, a, m) /\ Along(v, a, m) <= Along(v, a, r[i])
  <2>1. \A j \in c..i : Along(v, a, a) <= Along(v, a, r[j]) /\ Along(v, a, r[j]) <= Along(v, a, r[i])
    BY <1>1, <1>3
  <2>2. 0 <= Along(v, a, r[i - 1]) /\ Along(v, a, r[i - 1]) <= Along(v, a, r[i])
    BY <1>1, <1>7, <2>1
  <2> QED
    <3>1. \A x, y, z \in Int : 2 * x = y /\ 0 <= y /\ y <= z => 0 <= x /\ x <= z
      OBVIOUS
    <3>2. Along(v, a, r[i - 1]) \in Int /\ Along(v, a, r[i]) \in Int
      BY <1>1, <1>6
    <3>3. 0 <= Along(v, a, m) /\ Along(v, a, m) <= Along(v, a, r[i])
      BY <1>4, <1>6, <2>2, <3>1, <3>2
    <3> QED
      BY <1>7, <2>1, <3>3
<1>9. Covered(Append(w, r[i]), i)
  <2>1. ASSUME NEW j \in c + 1 .. i PROVE On(r[j], a, r[i])
    <3>1. j \in c..i
      OBVIOUS
    <3> QED
      BY <1>1, <1>2, <1>3, <1>8, <3>1, Between
  <2> QED
    <3>1. \A j \in c + 1 .. i : On(raw_waypoints[j], w[Len(w)], r[i])
      BY <2>1 DEF r
    <3>2. c <= i /\ r[i] \in Int \X Int
      BY <1>2
    <3> QED
      BY <3>1, <3>2, LegAdded
<1>10. PICK t \in c..i : /\ \A j \in c..t : Along(v, a, r[j]) <= Along(v, a, m)
                         /\ \A j \in t + 1 .. i : Along(v, a, m) <= Along(v, a, r[j])
  <2> DEFINE T == {j \in c + 1 .. i : Along(v, a, m) <= Along(v, a, r[j])}
  <2>1. T \subseteq Nat /\ i \in T
    BY <1>8
  <2>2. PICK x \in T : \A y \in T : x <= y
    BY <2>1, SmallestNumber
  <2>3. x \in c + 1 .. i /\ x - 1 \in c..i /\ (x - 1) + 1 = x /\ x \in c..i
    BY <2>2
  <2>4. ASSUME NEW j \in c..x - 1 PROVE Along(v, a, r[j]) <= Along(v, a, m)
    <3>1. CASE j = c
      BY <1>8, <3>1
    <3>2. CASE j # c
      <4>1. j \in c + 1 .. i /\ j \in c..i /\ ~(x <= j)
        BY <2>3, <3>2
      <4> QED
        BY <1>6, <2>2, <4>1
    <3> QED
      BY <3>1, <3>2
  <2>5. ASSUME NEW j \in x..i PROVE Along(v, a, m) <= Along(v, a, r[j])
    <3>1. j \in c..i /\ x <= j
      BY <2>3
    <3>2. Along(v, a, r[x]) <= Along(v, a, r[j]) /\ Along(v, a, m) <= Along(v, a, r[x])
      BY <1>3, <2>2, <2>3, <3>1
    <3> QED
      BY <1>6, <2>3, <3>1, <3>2
  <2> QED
    BY <2>3, <2>4, <2>5
<1>11. t \in Nat /\ c <= t /\ t <= i /\ \A j \in c..t : j \in c..i
  BY <1>10
<1>12. Covered(Append(w, m), t)
  <2>1. ASSUME NEW j \in c + 1 .. t PROVE On(r[j], a, m)
    <3>1. j \in c..t /\ j \in c..i
      BY <1>11
    <3> QED
      BY <1>1, <1>2, <1>3, <1>4, <1>8, <1>10, <3>1, Between
  <2>2. m \in Int \X Int
    BY <1>4 DEF OnLine
  <2> QED
    BY <1>2, <1>11, <2>1, <2>2, LegAdded DEF r
<1>13. Covered(Append(Append(w, m), r[i]), i)
  <2> DEFINE x == Append(w, m)
  <2>1. m \in Int \X Int
    BY <1>4 DEF OnLine
  <2>2. x \in Seq(Int \X Int) /\ Len(x) >= 1 /\ x[Len(x)] = m
    BY <2>1
  <2>3. ASSUME NEW j \in t + 1 .. i PROVE On(r[j], m, r[i])
    <3>1. j \in c..i
      BY <1>11
    <3> QED
      BY <1>1, <1>2, <1>3, <1>4, <1>8, <1>10, <3>1, Between
  <2> HIDE DEF x
  <2>4. Covered(Append(x, r[i]), i)
    BY <1>2, <1>11, <1>12, <2>2, <2>3, LegAdded DEF r, x
  <2> QED
    BY <2>4 DEF x
<1> QED
  BY <1>4, <1>9, <1>13 DEF OnLine, m, r

\* A line of two waypoints is straight.
LEMMA StraightStart ==
  ASSUME raw_waypoints \in Routes, NEW c \in Nat, 1 <= c, c < Len(raw_waypoints)
  PROVE  Straight(c, c + 1)
<1> DEFINE r == raw_waypoints
           v == DirectionFrom(c)
           a == r[c]
           b == r[c + 1]
<1>1. /\ c \in 1..Len(r) - 1 /\ c \in 1..Len(r) /\ c + 1 \in 1..Len(r) /\ (c + 1) - 1 = c
      /\ \A j \in c..c + 1 : j = c \/ j = c + 1
  <2>1. Len(raw_waypoints) \in Nat
    BY RoutePoints
  <2> QED
    BY <2>1
<1>2. /\ v \in Int \X Int /\ Dot(v, v) > 0 /\ a \in Int \X Int /\ b \in Int \X Int
      /\ Vector(a, b) = v /\ Dot(v, v) \in Int
  <2>1. v \in Int \X Int /\ Dot(v, v) > 0 /\ a \in Int \X Int /\ b \in Int \X Int
    BY <1>1, RoutePoints
  <2> QED
    BY <2>1, VectorNumbers DEF DirectionFrom
<1> HIDE DEF v, a, b
<1>3. Cross(v, v) = 0
  <2>1. v[1] \in Int /\ v[2] \in Int
    BY <1>2
  <2> QED
    BY <2>1 DEF Cross
<1>4. Cross(v, Vector(a, a)) = 0 /\ Dot(v, Vector(a, a)) = 0
  <2>1. /\ Cross(v, Vector(a, b)) = Cross(v, Vector(a, a)) + Cross(v, Vector(a, b))
        /\ Dot(v, Vector(a, b)) = Dot(v, Vector(a, a)) + Dot(v, Vector(a, b))
    BY <1>2, VectorsAdd
  <2>2. /\ Vector(a, a) \in Int \X Int /\ Cross(v, Vector(a, a)) \in Int /\ Dot(v, Vector(a, a)) \in Int
    BY <1>2, VectorNumbers
  <2> QED
    BY <1>2, <1>3, <2>1, <2>2
<1>5. OnLine(v, a, a) /\ OnLine(v, a, b) /\ Along(v, a, a) = 0 /\ Along(v, a, b) = Dot(v, v)
  BY <1>2, <1>3, <1>4 DEF OnLine, Along
<1>6. \A j \in c..c + 1 : OnLine(v, a, r[j])
  BY <1>1, <1>5 DEF a, b
<1>7. ASSUME NEW j \in c..c + 1, NEW l \in c..c + 1, j <= l
      PROVE  Along(v, a, r[j]) <= Along(v, a, r[l])
  <2>1. (r[j] = a /\ r[l] = a) \/ (r[j] = a /\ r[l] = b) \/ (r[j] = b /\ r[l] = b)
    BY <1>1, <1>7 DEF a, b
  <2> QED
    BY <1>2, <1>5, <2>1
<1> QED
  BY <1>1, <1>2, <1>3, <1>6, <1>7 DEF Straight, v, a, b

\* What the loop appends covers the route up to the waypoint it keeps.
LEMMA NextWaypoints ==
  ASSUME CompressInv, ~compressed
  PROVE  LET x == waypoints \o LineMiddle(curr_idx - 1) \o <<raw_waypoints[curr_idx]>>
         IN  /\ x \in Seq(Int \X Int) /\ Len(x) >= 2
             /\ x[Len(x)] = raw_waypoints[curr_idx]
             /\ Covered(x, curr_idx)
<1> DEFINE p == raw_waypoints[curr_idx]
           m == Middle(raw_waypoints[Corner], raw_waypoints[curr_idx - 1])
           x == waypoints \o LineMiddle(curr_idx - 1) \o <<p>>
<1>1. /\ raw_waypoints \in Routes /\ Len(raw_waypoints) \in Nat
      /\ curr_idx \in 2..Len(raw_waypoints) /\ Corner \in 1..curr_idx - 1
      /\ waypoints \in Seq(Int \X Int) /\ Len(waypoints) >= 1
      /\ waypoints[Len(waypoints)] = raw_waypoints[Corner]
      /\ Covered(waypoints, Corner) /\ Straight(Corner, curr_idx)
      /\ current_line_points # <<>> => line_start_idx = Corner
  BY RoutePoints DEF CompressInv
<1>2. /\ Corner \in Nat /\ curr_idx \in Nat /\ 1 <= Corner /\ Corner < curr_idx
      /\ curr_idx <= Len(raw_waypoints) /\ curr_idx \in 1..Len(raw_waypoints)
  BY <1>1
<1>3. m \in Int \X Int /\ Covered(Append(waypoints, p), curr_idx)
      /\ Covered(Append(Append(waypoints, m), p), curr_idx)
  BY <1>1, <1>2, LineCovered
<1>4. p \in Int \X Int
  BY <1>1, <1>2, RoutePoints
<1>5. LineMiddle(curr_idx - 1) = <<>> \/ LineMiddle(curr_idx - 1) = <<m>>
  <2>1. CASE Len(current_line_points) >= 4
    <3>1. current_line_points # <<>>
      BY <2>1
    <3> QED
      BY <1>1, <2>1, <3>1 DEF LineMiddle
  <2> QED
    BY <2>1 DEF LineMiddle
<1> HIDE DEF p, m
<1>6. x = Append(waypoints, p) \/ x = Append(Append(waypoints, m), p)
  <2>1. CASE LineMiddle(curr_idx - 1) = <<>>
    <3>1. waypoints \o <<>> = waypoints
      BY <1>1, ConcatEmptySeq
    <3> QED
      BY <1>1, <1>4, <2>1, <3>1, AppendIsConcat
  <2>2. CASE LineMiddle(curr_idx - 1) = <<m>>
    <3>1. waypoints \o <<m>> = Append(waypoints, m) /\ Append(waypoints, m) \in Seq(Int \X Int)
      BY <1>1, <1>3, AppendIsConcat, AppendProperties
    <3> QED
      BY <1>4, <2>2, <3>1, AppendIsConcat
  <2> QED
    BY <1>5, <2>1, <2>2
<1>7. CASE x = Append(waypoints, p)
  <2>1. x \in Seq(Int \X Int) /\ Len(x) >= 2 /\ x[Len(x)] = p
    <3> HIDE DEF x
    <3> QED
      BY <1>1, <1>4, <1>7, AppendProperties
  <2> QED
    BY <1>3, <1>7, <2>1 DEF p
<1>8. CASE x = Append(Append(waypoints, m), p)
  <2>1. x \in Seq(Int \X Int) /\ Len(x) >= 2 /\ x[Len(x)] = p
    <3>1. Append(waypoints, m) \in Seq(Int \X Int) /\ Len(Append(waypoints, m)) >= 2
      BY <1>1, <1>3, AppendProperties
    <3> HIDE DEF x
    <3> QED
      BY <1>4, <1>8, <3>1, AppendProperties
  <2> QED
    BY <1>3, <1>8, <2>1 DEF p
<1> QED
  BY <1>6, <1>7, <1>8

LEMMA KeepPointCovered ==
  ASSUME CompressInv, VisitWaypoint, KeepPoint
  PROVE  CompressInv'
<1> DEFINE i == curr_idx
<1>1. /\ raw_waypoints \in Routes /\ i \in 2..Len(raw_waypoints) /\ i < Len(raw_waypoints)
      /\ ~compressed /\ Len(raw_waypoints) \in Nat
  BY RoutePoints DEF CompressInv, VisitWaypoint
<1>2. /\ curr_idx' = i + 1 /\ current_line_points' = <<>> /\ line_start_idx' = i
      /\ raw_waypoints' = raw_waypoints /\ ~compressed'
      /\ waypoints' = waypoints \o LineMiddle(curr_idx - 1) \o <<raw_waypoints[i]>>
  BY <1>1 DEF VisitWaypoint, KeepPoint
<1>3. Corner' = i /\ i \in 1..(i + 1) - 1 /\ i + 1 \in 2..Len(raw_waypoints)
  BY <1>1, <1>2 DEF Corner
<1>4. /\ waypoints' \in Seq(Int \X Int) /\ Len(waypoints') >= 1
      /\ waypoints'[Len(waypoints')] = raw_waypoints[i]
      /\ Covered(waypoints', i)
  BY <1>1, <1>2, NextWaypoints
<1>5. Straight(i, i + 1)
  BY <1>1, StraightStart
<1>6. Covered(waypoints, Corner)' /\ Straight(Corner, curr_idx)'
  BY <1>2, <1>3, <1>4, <1>5 DEF Covered, Straight, DirectionFrom
<1> QED
  BY <1>1, <1>2, <1>3, <1>4, <1>6 DEF CompressInv

LEMMA MergePointCovered ==
  ASSUME CompressInv, VisitWaypoint, MergePoint
  PROVE  CompressInv'
<1> DEFINE i == curr_idx
           n == Len(current_line_points)
<1>1. /\ raw_waypoints \in Routes /\ i \in 2..Len(raw_waypoints) /\ i < Len(raw_waypoints)
      /\ ~compressed /\ Len(raw_waypoints) \in Nat /\ current_line_points \in Seq(Int)
      /\ Corner \in 1..i - 1 /\ Straight(Corner, i) /\ Covered(waypoints, Corner)
      /\ current_line_points # <<>> => line_start_idx = Corner
      /\ waypoints \in Seq(Int \X Int) /\ Len(waypoints) >= 1
      /\ waypoints[Len(waypoints)] = raw_waypoints[Corner]
  BY RoutePoints DEF CompressInv, VisitWaypoint
<1>2. /\ curr_idx' = i + 1 /\ current_line_points' = Append(current_line_points, i)
      /\ line_start_idx' = IF current_line_points = <<>> THEN i - 1 ELSE line_start_idx
      /\ raw_waypoints' = raw_waypoints /\ ~compressed' /\ waypoints' = waypoints /\ ~KeyPoint
  BY <1>1 DEF VisitWaypoint, MergePoint
<1>3. /\ n \in Nat /\ Len(current_line_points') = n + 1 /\ current_line_points' \in Seq(Int)
      /\ Corner = i - 1 - n /\ Corner' = (i + 1) - 1 - (n + 1)
      /\ current_line_points = <<>> => n = 0
  BY <1>1, <1>2 DEF Corner
<1>4. Corner' = Corner /\ i + 1 \in 2..Len(raw_waypoints) /\ Corner \in 1..(i + 1) - 1
      /\ line_start_idx' = Corner
  BY <1>1, <1>2, <1>3
<1>5. Straight(Corner, i + 1)
  <2>1. /\ Cross(Vector(raw_waypoints[i - 1], raw_waypoints[i]), DirectionFrom(i)) = 0
        /\ ~(Dot(Vector(raw_waypoints[i - 1], raw_waypoints[i]), DirectionFrom(i)) < 0)
    BY <1>2 DEF KeyPoint, is_uturn, Arriving, Leaving, DirectionFrom
  <2> QED
    BY <1>1, <2>1, StraightOn
<1>6. Covered(waypoints, Corner)' /\ Straight(Corner, curr_idx)'
  BY <1>1, <1>2, <1>4, <1>5 DEF Covered, Straight, DirectionFrom
<1> QED
  BY <1>1, <1>2, <1>3, <1>4, <1>6 DEF CompressInv

LEMMA CloseRouteCovered ==
  ASSUME CompressInv, CloseRoute
  PROVE  CompressInv'
<1>1. /\ raw_waypoints \in Routes /\ curr_idx = Len(raw_waypoints) /\ Len(raw_waypoints) \in Nat
      /\ ~compressed /\ compressed' /\ raw_waypoints' = raw_waypoints
      /\ waypoints' = waypoints \o LineMiddle(curr_idx - 1) \o <<raw_waypoints[curr_idx]>>
      /\ DOMAIN raw_waypoints = 1..Len(raw_waypoints)
  BY RoutePoints DEF CompressInv, CloseRoute
<1>2. /\ waypoints' \in Seq(Int \X Int) /\ Len(waypoints') >= 2
      /\ Covered(waypoints', Len(raw_waypoints))
  BY <1>1, NextWaypoints
<1>3. \E leg \in [1..Len(raw_waypoints) -> 1..(Len(waypoints') - 1)] :
        /\ \A k \in 1..Len(raw_waypoints) :
             On(raw_waypoints[k], waypoints'[leg[k]], waypoints'[leg[k] + 1])
        /\ \A k \in 1..Len(raw_waypoints) : k > 1 => leg[k - 1] <= leg[k]
  BY <1>1, <1>2, RouteClosed
<1>4. RouteCovered'
  BY <1>1, <1>3 DEF RouteCovered
<1> QED
  BY <1>1, <1>4 DEF CompressInv

LEMMA CompressStarts == CompressInit => CompressInv
<1> SUFFICES ASSUME CompressInit PROVE CompressInv
  OBVIOUS
<1> DEFINE r == raw_waypoints
<1>1. /\ r \in Routes /\ r \in Seq(Int \X Int) /\ Len(r) \in Nat /\ DOMAIN r = 1..Len(r)
      /\ curr_idx = 2 /\ line_start_idx = 1 /\ current_line_points = <<>> /\ Corner = 1
      /\ \A k \in 1..Len(r) : r[k] \in Int \X Int
  BY RoutePoints DEF CompressInit, Corner
<1>2. CASE compressed
  <2>1. Len(r) <= 2 /\ waypoints = r
    BY <1>2 DEF CompressInit
  <2>2. ASSUME Len(r) >= 2
        PROVE  \E leg \in [DOMAIN r -> 1..(Len(r) - 1)] :
                 /\ \A k \in DOMAIN r : On(r[k], r[leg[k]], r[leg[k] + 1])
                 /\ \A k \in DOMAIN r : k > 1 => leg[k - 1] <= leg[k]
    <3>1. Len(r) = 2 /\ DOMAIN r = 1..2 /\ r[1] \in Int \X Int /\ r[2] \in Int \X Int
      BY <1>1, <2>1, <2>2
    <3> DEFINE one == [k \in 1..2 |-> 1]
    <3>2. \A k \in 1..2 : (k = 1 \/ k = 2) /\ one[k] = 1 /\ one[k] + 1 = 2 /\ 1 \in 1..(2 - 1)
      OBVIOUS
    <3>3. \A k \in 1..2 : On(r[k], r[1], r[2])
      BY <3>1, <3>2, OnItsEnds
    <3>4. \A k \in 1..2 : k > 1 => one[k - 1] <= one[k]
      OBVIOUS
    <3>5. one \in [1..2 -> 1..(2 - 1)]
      BY <3>2
    <3> QED
      BY <3>1, <3>2, <3>3, <3>4, <3>5
  <2> QED
    BY <1>1, <1>2, <2>1, <2>2 DEF CompressInv, RouteCovered
<1>3. CASE ~compressed
  <2>1. Len(r) > 2 /\ waypoints = <<r[1]>>
    <3>1. ~(Len(r) <= 2) /\ waypoints = <<r[1]>>
      BY <1>3, Zenon DEF CompressInit
    <3> QED
      BY <1>1, <3>1
  <2>2. Straight(1, 2)
    BY <1>1, <2>1, StraightStart
  <2>3. r[1] \in Int \X Int
    BY <1>1, <2>1
  <2>4. Len(waypoints) = 1 /\ waypoints[1] = r[1] /\ waypoints \in Seq(Int \X Int)
    BY <2>1, <2>3
  <2>5. Covered(waypoints, 1)
    <3> DEFINE one == [k \in 1..1 |-> 1]
    <3>1. one \in [1..1 -> 1..Len(waypoints)] /\ \A k \in 1..1 : k = 1 /\ one[k] = 1
      BY <2>4
    <3>2. \A k \in 1..1 : ~(k > 1) /\ one[k] = Len(waypoints) /\ r[k] = waypoints[Len(waypoints)]
      BY <2>4, <3>1
    <3> HIDE DEF one
    <3> QED
      BY <3>1, <3>2 DEF Covered
  <2> QED
    BY <1>1, <1>3, <2>1, <2>2, <2>4, <2>5 DEF CompressInv
<1> QED
  BY <1>2, <1>3

LEMMA CompressStep == CompressInv /\ [CompressNext]_compressVars => CompressInv'
<1> SUFFICES ASSUME CompressInv, [CompressNext]_compressVars PROVE CompressInv'
  OBVIOUS
<1>1. CASE VisitWaypoint
  BY <1>1, KeepPointCovered, MergePointCovered DEF VisitWaypoint
<1>2. CASE CloseRoute
  BY <1>2, CloseRouteCovered
<1>3. CASE UNCHANGED compressVars
  <2>1. /\ raw_waypoints' = raw_waypoints /\ waypoints' = waypoints /\ curr_idx' = curr_idx
        /\ line_start_idx' = line_start_idx /\ current_line_points' = current_line_points
        /\ compressed' = compressed
    BY <1>3 DEF compressVars
  <2>2. Corner' = Corner
    BY <2>1 DEF Corner
  <2>3. /\ RouteCovered' = RouteCovered
        /\ Covered(waypoints, Corner)' = Covered(waypoints, Corner)
        /\ Straight(Corner, curr_idx)' = Straight(Corner, curr_idx)
    BY <2>1, <2>2 DEF RouteCovered, Covered, Straight, DirectionFrom
  <2> QED
    BY <2>1, <2>2, <2>3 DEF CompressInv
<1> QED
  BY <1>1, <1>2, <1>3 DEF CompressNext

\* The vehicle that flies the compressed route comes by every waypoint it was sent, in their
\* order, whatever the route: what the compression takes out lies on the legs between the
\* waypoints that stay, a middle that it adds lies on the leg it divides, and a line that
\* goes back on itself is cut where it turns (test_task_controller.cpp:445-598).
THEOREM RoutesCovered == CompressSpec => []RouteCovered
<1>1. CompressInv => RouteCovered
  BY DEF CompressInv, RouteCovered
<1> QED
  BY <1>1, CompressStarts, CompressStep, PTL DEF CompressSpec
=============================================================================
