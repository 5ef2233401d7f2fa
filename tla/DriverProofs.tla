----------------------------- MODULE DriverProofs -----------------------------
(***************************************************************************)
(* What holds of the stages of the driver between the SDK and the rings    *)
(* and behind them, for any number of lidars, packets and entries: which   *)
(* label a frame gets (FrameRoute), what becomes of the packets and how    *)
(* long a frame lasts (PacketHandler), how many tokens the IMU's semaphore *)
(* holds (ImuStream).                                                      *)
(***************************************************************************)
EXTENDS FrameRoute, PacketHandler, ImuStream, NumberTheorems

-----------------------------------------------------------------------------
(* The label of a frame *)

RouteTypeOK ==
  /\ map_index_ \in [RouteHandles -> 0..Entries]
  /\ index_cache_ \subseteq Indices
  /\ deviceHandle \in [Indices -> RouteHandles \cup {NoHandle}]
  /\ ring \in [Indices -> Seq(RouteHandles)]
  /\ storingFrame # NoFrame => storingFrame \in RouteHandles \X Indices
  /\ takenFrame # NoFrame => takenFrame \in RouteHandles \X Indices
  /\ private_pub_ \in [Indices -> Seq(RouteHandles \cup {NoHandle})]

\* No two lidars have one entry, and no entry is taken again.
OwnEntry ==
  \A h \in RouteHandles : map_index_[h] # NoIndex =>
    /\ map_index_[h] \in index_cache_
    /\ \A k \in RouteHandles : map_index_[k] = map_index_[h] => k = h

\* A lidar of the file has its handle in its entry from the first.
Labelled ==
  \A h \in InFile : map_index_[h] # NoIndex => deviceHandle[map_index_[h]] = h

\* A frame is where its lidar's entry is, at each stage.
InPlace ==
  /\ \A i \in Indices : \A k \in DOMAIN ring[i] : map_index_[ring[i][k]] = i
  /\ storingFrame # NoFrame => map_index_[storingFrame[1]] = storingFrame[2]
  /\ takenFrame # NoFrame => map_index_[takenFrame[1]] = takenFrame[2]

\* The topic of an entry is named after the handle the entry still has.
TopicKept ==
  \A i \in Indices : private_pub_[i] # NoTopic =>
    i \in index_cache_ /\ private_pub_[i] = <<deviceHandle[i]>>

\* Attributed is about the last message only: what makes the next one right is that the
\* entry of a frame does not change from the ring to the message.
RouteInv == RouteTypeOK /\ OwnEntry /\ Labelled /\ InPlace /\ TopicKept /\ Attributed

\* An entry is taken by one lidar, and nothing that has an entry is touched.
LEMMA EntryTaken ==
  ASSUME RouteAssumption, RouteInv, NEW h \in RouteHandles, NEW i \in Indices, GetFreeIndex(h, i),
         deviceHandle' = deviceHandle \/ deviceHandle' = [deviceHandle EXCEPT ![i] = h],
         h \in InFile => deviceHandle' = [deviceHandle EXCEPT ![i] = h],
         UNCHANGED <<ring, storingFrame, takenFrame, private_pub_, message>>
  PROVE  RouteInv'
<1>1. /\ map_index_[h] = NoIndex /\ i \notin index_cache_ /\ i # NoIndex
      /\ map_index_' = [map_index_ EXCEPT ![h] = i]
      /\ index_cache_' = index_cache_ \cup {i}
  BY DEF GetFreeIndex, Free, Indices, NoIndex, RouteAssumption
<1>2. /\ map_index_'[h] = i
      /\ \A k \in RouteHandles : k # h => map_index_'[k] = map_index_[k]
      /\ \A k \in RouteHandles : map_index_[k] # i
      /\ \A k \in RouteHandles : map_index_[k] # NoIndex => k # h /\ map_index_'[k] = map_index_[k]
  BY <1>1 DEF RouteInv, RouteTypeOK, OwnEntry
<1>3. /\ \A j \in Indices : j # i => deviceHandle'[j] = deviceHandle[j]
      /\ h \in InFile => deviceHandle'[i] = h
  BY DEF RouteInv, RouteTypeOK
<1>4. RouteTypeOK'
  <2>1. i \in 0..Entries
    BY DEF Indices, RouteAssumption
  <2>2. map_index_' \in [RouteHandles -> 0..Entries] /\ index_cache_' \subseteq Indices
    BY <1>1, <2>1 DEF RouteInv, RouteTypeOK
  <2>3. deviceHandle' \in [Indices -> RouteHandles \cup {NoHandle}]
    BY DEF RouteInv, RouteTypeOK
  <2> QED
    BY <2>2, <2>3 DEF RouteInv, RouteTypeOK
<1>5. OwnEntry'
  BY <1>1, <1>2 DEF RouteInv, OwnEntry, RouteTypeOK
<1>6. Labelled'
  <2> SUFFICES ASSUME NEW k \in InFile, map_index_'[k] # NoIndex
               PROVE  deviceHandle'[map_index_'[k]] = k
    BY DEF Labelled
  <2>1. k \in RouteHandles
    BY DEF RouteAssumption
  <2>2. CASE k = h
    BY <1>2, <1>3, <2>2
  <2>3. CASE k # h
    <3>1. map_index_'[k] = map_index_[k] /\ map_index_[k] \in Indices /\ map_index_[k] # i
      BY <1>2, <2>1, <2>3 DEF RouteInv, RouteTypeOK, OwnEntry
    <3> QED
      BY <1>3, <3>1 DEF RouteInv, Labelled
  <2> QED
    BY <2>2, <2>3
<1>7. InPlace'
  <2>1. \A j \in Indices : \A k \in DOMAIN ring[j] : ring[j][k] \in RouteHandles
    BY DEF RouteInv, RouteTypeOK
  <2>2. \A j \in Indices : j # NoIndex
    BY DEF Indices, NoIndex, RouteAssumption
  <2> QED
    BY <1>2, <2>1, <2>2 DEF RouteInv, RouteTypeOK, InPlace
<1>8. TopicKept'
  BY <1>1, <1>3 DEF RouteInv, TopicKept
<1> QED
  BY <1>4, <1>5, <1>6, <1>7, <1>8 DEF RouteInv, Attributed

\* A message carries the label of the frame it is made of.
LEMMA PublishKeepsRoute ==
  ASSUME RouteAssumption, RouteInv, PublishFrame
  PROVE  RouteInv'
<1> DEFINE f == takenFrame[1]
           i == takenFrame[2]
           topic == IF use_multi_topic_ THEN TopicOf(i) ELSE Shared
<1>1. /\ f \in RouteHandles /\ i \in Indices /\ i = map_index_[f] /\ i # NoIndex
      /\ i \in index_cache_
  BY DEF PublishFrame, RouteInv, RouteTypeOK, InPlace, OwnEntry, Indices, NoIndex, RouteAssumption
<1>2. /\ UNCHANGED <<cacheVars, ring, storingFrame>> /\ takenFrame' = NoFrame
      /\ private_pub_' = IF use_multi_topic_ THEN [private_pub_ EXCEPT ![i] = topic]
                         ELSE private_pub_
      /\ \/ message' = CustomMsg(takenFrame, topic)
         \/ message' = PointCloud2(takenFrame, topic)
  BY DEF PublishFrame
<1>3. TopicOf(i) = <<deviceHandle[i]>>
  BY <1>1 DEF TopicOf, RouteInv, TopicKept
<1>4. f \in InFile => deviceHandle[i] = f
  BY <1>1 DEF RouteInv, Labelled
<1>5. Attributed'
  <2>1. topic \in {<<deviceHandle[i]>>, Shared}
    BY <1>3
  <2>2. CASE message' = CustomMsg(takenFrame, topic)
    BY <1>4, <2>1, <2>2 DEF CustomMsg, Attributed
  <2>3. CASE message' = PointCloud2(takenFrame, topic)
    BY <1>4, <2>1, <2>3 DEF PointCloud2, Attributed
  <2> QED
    BY <1>2, <2>2, <2>3
<1>6. TopicKept'
  BY <1>1, <1>2, <1>3 DEF RouteInv, RouteTypeOK, TopicKept, cacheVars
<1>7. RouteTypeOK'
  <2>1. deviceHandle[i] \in RouteHandles \cup {NoHandle}
    BY <1>1 DEF RouteInv, RouteTypeOK
  <2>2. <<deviceHandle[i]>> \in Seq(RouteHandles \cup {NoHandle})
    BY <2>1
  <2> QED
    BY <1>2, <1>3, <2>2 DEF RouteInv, RouteTypeOK, cacheVars
<1> QED
  BY <1>2, <1>5, <1>6, <1>7 DEF RouteInv, OwnEntry, Labelled, InPlace, cacheVars, NoFrame

\* Every step keeps the invariant.
LEMMA RouteStep ==
  ASSUME RouteAssumption, RouteInv, [RouteNext]_routeVars
  PROVE  RouteInv'
<1>1. CASE \E h \in RouteHandles, i \in Indices : InitDevice(h, i)
  BY <1>1, EntryTaken DEF InitDevice
<1>2. CASE \E h \in RouteHandles, i \in Indices : AddDevice(h, i)
  <2>1. PICK h \in RouteHandles, i \in Indices : AddDevice(h, i)
    BY <1>2
  <2>2. GetFreeIndex(h, i) /\ h \notin InFile
        /\ UNCHANGED <<deviceHandle, ring, storingFrame, takenFrame, private_pub_, message>>
    BY <2>1 DEF AddDevice
  <2> QED
    BY <2>2, EntryTaken
<1>3. CASE \E h \in RouteHandles : RouteSampling(h)
  BY <1>3 DEF RouteSampling, cacheVars, RouteInv, RouteTypeOK, OwnEntry, Labelled, InPlace,
              TopicKept, Attributed
<1>4. CASE \E h \in RouteHandles : GetIndex(h)
  <2>1. PICK h \in RouteHandles : GetIndex(h)
    BY <1>4
  <2>2. /\ storingFrame' = <<h, map_index_[h]>> /\ map_index_[h] \in Indices
        /\ UNCHANGED <<cacheVars, ring, takenFrame, private_pub_, message>>
    BY <2>1 DEF GetIndex, RouteInv, RouteTypeOK, NoIndex, Indices, RouteAssumption
  <2> QED
    BY <2>2 DEF RouteInv, RouteTypeOK, OwnEntry, Labelled, InPlace, TopicKept, Attributed, cacheVars
<1>5. CASE PushFrame
  <2> DEFINE f == storingFrame[1]
             i == storingFrame[2]
  <2>1. f \in RouteHandles /\ i \in Indices /\ map_index_[f] = i
    BY <1>5 DEF PushFrame, RouteInv, RouteTypeOK, InPlace
  <2>2. /\ storingFrame' = NoFrame
        /\ UNCHANGED <<cacheVars, takenFrame, private_pub_, message>>
        /\ ring' = [ring EXCEPT ![i] = IF Len(@) < MaxRing THEN Append(@, f) ELSE @]
    BY <1>5 DEF PushFrame
  <2> HIDE DEF f, i
  <2>3. ring[i] \in Seq(RouteHandles)
    BY <2>1 DEF RouteInv, RouteTypeOK
  <2>4. /\ Append(ring[i], f) \in Seq(RouteHandles)
        /\ \A k \in DOMAIN Append(ring[i], f) :
             Append(ring[i], f)[k] = f \/ (k \in DOMAIN ring[i] /\ Append(ring[i], f)[k] = ring[i][k])
    BY <2>1, <2>3
  <2>5. ring' \in [Indices -> Seq(RouteHandles)]
    BY <2>1, <2>2, <2>4 DEF RouteInv, RouteTypeOK
  <2>6. \A j \in Indices : \A k \in DOMAIN ring'[j] : map_index_[ring'[j][k]] = j
    <3> SUFFICES ASSUME NEW j \in Indices, NEW k \in DOMAIN ring'[j]
                 PROVE  map_index_[ring'[j][k]] = j
      OBVIOUS
    <3>1. ring'[j] = ring[j] \/ (j = i /\ ring'[j] = Append(ring[i], f))
      BY <2>1, <2>2 DEF RouteInv, RouteTypeOK
    <3> QED
      BY <2>1, <2>4, <3>1 DEF RouteInv, InPlace
  <2> QED
    BY <2>2, <2>5, <2>6 DEF RouteInv, RouteTypeOK, OwnEntry, Labelled, InPlace, TopicKept, Attributed,
                            cacheVars, NoFrame
<1>6. CASE \E i \in Indices : PopFrame(i)
  <2>1. PICK i \in Indices : PopFrame(i)
    BY <1>6
  <2>2. /\ ring[i] \in Seq(RouteHandles) /\ ring[i] # <<>>
        /\ takenFrame' = <<Head(ring[i]), i>> /\ ring' = [ring EXCEPT ![i] = Tail(@)]
        /\ UNCHANGED <<cacheVars, storingFrame, private_pub_, message>>
    BY <2>1 DEF PopFrame, RouteInv, RouteTypeOK
  <2>3. /\ Head(ring[i]) = ring[i][1] /\ 1 \in DOMAIN ring[i] /\ Head(ring[i]) \in RouteHandles
        /\ Tail(ring[i]) \in Seq(RouteHandles)
        /\ \A k \in DOMAIN Tail(ring[i]) :
             k + 1 \in DOMAIN ring[i] /\ Tail(ring[i])[k] = ring[i][k + 1]
    BY <2>2
  <2>4. map_index_[Head(ring[i])] = i
    BY <2>3 DEF RouteInv, InPlace
  <2>5. \A j \in Indices : \A k \in DOMAIN ring'[j] : map_index_[ring'[j][k]] = j
    <3> SUFFICES ASSUME NEW j \in Indices, NEW k \in DOMAIN ring'[j]
                 PROVE  map_index_[ring'[j][k]] = j
      OBVIOUS
    <3>1. CASE j = i
      <4>1. ring'[j] = Tail(ring[i])
        BY <2>2, <3>1 DEF RouteInv, RouteTypeOK
      <4>2. k + 1 \in DOMAIN ring[i] /\ ring'[j][k] = ring[i][k + 1]
        BY <2>3, <4>1
      <4> QED
        BY <3>1, <4>2 DEF RouteInv, InPlace
    <3>2. CASE j # i
      <4>1. ring'[j] = ring[j]
        BY <2>2, <3>2 DEF RouteInv, RouteTypeOK
      <4> QED
        BY <4>1 DEF RouteInv, InPlace
    <3> QED
      BY <3>1, <3>2
  <2>6. ring' \in [Indices -> Seq(RouteHandles)]
    BY <2>2, <2>3 DEF RouteInv, RouteTypeOK
  <2> QED
    BY <2>2, <2>3, <2>4, <2>5, <2>6 DEF RouteInv, RouteTypeOK, OwnEntry, Labelled, InPlace,
                                        TopicKept, Attributed, cacheVars
<1>7. CASE PublishFrame
  BY <1>7, PublishKeepsRoute
<1>8. CASE UNCHANGED routeVars
  BY <1>8 DEF routeVars, cacheVars, RouteInv, RouteTypeOK, OwnEntry, Labelled, InPlace, TopicKept,
              Attributed
<1> QED
  BY <1>1, <1>2, <1>3, <1>4, <1>5, <1>6, <1>7, <1>8 DEF RouteNext

\* A frame of a lidar of the configuration file has its own handle and topic, for any
\* number of lidars, entries and frames that wait (lddc.cpp:360-365, 656-665).
THEOREM FramesAttributed == RouteSpec => []Attributed
<1>1. RouteInit => RouteInv
  BY RouteAssumption DEF RouteInit, RouteInv, RouteTypeOK, OwnEntry, Labelled, InPlace, TopicKept,
                         Attributed, RouteAssumption, NoIndex, Indices, NoTopic, NoFrame, NoHandle
<1>2. RouteInv /\ [RouteNext]_routeVars => RouteInv'
  BY RouteAssumption, RouteStep
<1>3. RouteInv => Attributed
  BY DEF RouteInv
<1> QED
  BY <1>1, <1>2, <1>3, PTL DEF RouteSpec

-----------------------------------------------------------------------------
(* The packets *)

RawPackets == [handle : Handles, id : Nat, stamp : Nat]
Points == [id : Nat, stamp : Nat, extrinsic : BOOLEAN]

HandlerTypeOK ==
  /\ start \in {"begin", "configs", "observed", "running"}
  /\ lidar_extrinsics_ \subseteq Handles /\ synced \subseteq Handles
  /\ clock \in Nat
  /\ sent \in [Handles -> Nat]
  /\ raw_packet_queue_ \in Seq(RawPackets)
  /\ points_clouds_ \in [Handles -> Seq(Points)]
  /\ delivered \in [Handles -> Seq(Nat)]
  /\ worker = "checking" =>
       \E h \in Handles : \E id, stamp \in Nat :
         raw_data = <<[handle |-> h, id |-> id, stamp |-> stamp]>>

\* A packet waits only after every configured lidar has its parameters.
ConfiguredFirst ==
  raw_packet_queue_ # <<>> \/ start \in {"observed", "running"}
    => start \in {"observed", "running"} /\ Configured \subseteq lidar_extrinsics_

\* ConvertedAsConfigured is about the clouds: what makes it inductive is the order in which
\* InitLdsLidar starts, which the packets that still wait depend on.
PacketInv == HandlerTypeOK /\ ConfiguredFirst /\ ConvertedAsConfigured /\ NothingLost

LEMMA IdsType ==
  ASSUME NEW c \in Seq(Points)
  PROVE  /\ IdsOf(c) \in Seq(Nat) /\ Len(IdsOf(c)) = Len(c) /\ DOMAIN IdsOf(c) = 1..Len(c)
         /\ \A i \in 1..Len(c) : IdsOf(c)[i] = c[i].id
<1>1. /\ Len(c) \in Nat /\ DOMAIN c = 1..Len(c)
      /\ \A i \in 1..Len(c) : c[i] \in Points
  OBVIOUS
<1>2. \A i \in 1..Len(c) : c[i].id \in Nat
  BY <1>1 DEF Points
<1>3. IdsOf(c) = [i \in 1..Len(c) |-> c[i].id]
  BY <1>1 DEF IdsOf
<1>4. IdsOf(c) \in [1..Len(c) -> Nat]
  BY <1>2, <1>3
<1>5. \A m \in Nat : \A f \in [1..m -> Nat] : f \in Seq(Nat) /\ Len(f) = m
  OBVIOUS
<1> QED
  BY <1>1, <1>3, <1>4, <1>5

\* The numbers of a cloud with one more point.
LEMMA IdsOfAppend ==
  ASSUME NEW c \in Seq(Points), NEW p \in Points
  PROVE  /\ IdsOf(c) \in Seq(Nat) /\ Len(IdsOf(c)) = Len(c)
         /\ Append(c, p) \in Seq(Points)
         /\ IdsOf(Append(c, p)) = Append(IdsOf(c), p.id)
<1>1. IdsOf(c) \in Seq(Nat) /\ Len(IdsOf(c)) = Len(c) /\ DOMAIN IdsOf(c) = 1..Len(c)
      /\ \A i \in 1..Len(c) : IdsOf(c)[i] = c[i].id
  BY IdsType
<1>2. /\ Append(c, p) \in Seq(Points) /\ DOMAIN Append(c, p) = 1..Len(c) + 1
      /\ Append(c, p)[Len(c) + 1] = p
      /\ \A i \in 1..Len(c) : Append(c, p)[i] = c[i]
  OBVIOUS
<1>3. /\ IdsOf(Append(c, p)) = [i \in 1..Len(c) + 1 |-> Append(c, p)[i].id]
  BY <1>2 DEF IdsOf
<1>4. /\ p.id \in Nat /\ Append(IdsOf(c), p.id) \in Seq(Nat)
      /\ DOMAIN Append(IdsOf(c), p.id) = 1..Len(c) + 1
      /\ Append(IdsOf(c), p.id)[Len(c) + 1] = p.id
      /\ \A i \in 1..Len(c) : Append(IdsOf(c), p.id)[i] = IdsOf(c)[i]
  BY <1>1 DEF Points
<1>5. ASSUME NEW i \in 1..Len(c) + 1
      PROVE  Append(c, p)[i].id = Append(IdsOf(c), p.id)[i]
  <2>1. i \in 1..Len(c) \/ i = Len(c) + 1
    OBVIOUS
  <2> QED
    BY <1>1, <1>2, <1>4, <2>1
<1>6. Append(IdsOf(c), p.id) = [i \in 1..Len(c) + 1 |-> Append(IdsOf(c), p.id)[i]]
  BY <1>4
<1> QED
  BY <1>1, <1>2, <1>3, <1>5, <1>6

LEMMA ConcatAppend ==
  ASSUME NEW s \in Seq(Nat), NEW t \in Seq(Nat), NEW x \in Nat
  PROVE  s \o Append(t, x) = Append(s \o t, x)
OBVIOUS

LEMMA ConcatEmpty ==
  ASSUME NEW s \in Seq(Nat)
  PROVE  s \o <<>> = s
OBVIOUS

\* A sequence that counts from 1 goes on counting when the next number is appended.
LEMMA CountingOn ==
  ASSUME NEW s \in Seq(Nat), s = [i \in 1..Len(s) |-> i]
  PROVE  LET t == Append(s, Len(s) + 1) IN t = [i \in 1..Len(t) |-> i]
<1> DEFINE t == Append(s, Len(s) + 1)
<1>1. /\ t \in Seq(Nat) /\ Len(t) = Len(s) + 1 /\ DOMAIN t = 1..Len(s) + 1
      /\ t[Len(s) + 1] = Len(s) + 1 /\ \A i \in 1..Len(s) : t[i] = s[i]
  OBVIOUS
<1>2. \A i \in 1..Len(s) : s[i] = i
  OBVIOUS
<1> HIDE DEF t
<1>3. ASSUME NEW i \in 1..Len(s) + 1 PROVE t[i] = i
  <2>1. i \in 1..Len(s) \/ i = Len(s) + 1
    OBVIOUS
  <2> QED
    BY <1>1, <1>2, <2>1
<1>4. t = [i \in 1..Len(s) + 1 |-> t[i]]
  BY <1>1
<1> QED
  BY <1>1, <1>3, <1>4 DEF t

\* What is done with a packet changes neither its type nor the numbers before it.
LEMMA DoneType ==
  ASSUME HandlerTypeOK, NEW h \in Handles
  PROVE  /\ Done(h) \in Seq(Nat) /\ IdsOf(points_clouds_[h]) \in Seq(Nat)
         /\ Len(Done(h)) = Len(delivered[h]) + Len(points_clouds_[h])
<1>1. points_clouds_[h] \in Seq(Points) /\ delivered[h] \in Seq(Nat)
  BY DEF HandlerTypeOK
<1>2. IdsOf(points_clouds_[h]) \in Seq(Nat) /\ Len(IdsOf(points_clouds_[h])) = Len(points_clouds_[h])
  BY <1>1, IdsType
<1> HIDE DEF IdsOf
<1>3. \A s, t \in Seq(Nat) : s \o t \in Seq(Nat) /\ Len(s \o t) = Len(s) + Len(t)
  OBVIOUS
<1> QED
  BY <1>1, <1>2, <1>3 DEF Done

\* A packet that arrives goes behind the others of its lidar.
LEMMA ArrivalKeepsPackets ==
  ASSUME PacketInv, NEW h \in Handles, OnLivoxLidarPointCloudCallback(h)
  PROVE  PacketInv'
<1> DEFINE q == raw_packet_queue_
           n == Len(q)
           p == [handle |-> h, id |-> sent[h] + 1, stamp |-> clock]
<1>1. /\ q \in Seq(RawPackets) /\ n \in Nat /\ p \in RawPackets /\ sent \in [Handles -> Nat]
      /\ sent' = [sent EXCEPT ![h] = @ + 1] /\ sent' \in [Handles -> Nat]
      /\ q' = Append(q, p)
      /\ start \in {"observed", "running"}
      /\ UNCHANGED <<startVars, clock, synced, workVars, frameVars>>
  BY DEF OnLivoxLidarPointCloudCallback, Observing, PacketInv, HandlerTypeOK, RawPackets
<1>2. /\ q' \in Seq(RawPackets) /\ DOMAIN q = 1..n /\ DOMAIN q' = 1..n + 1 /\ q'[n + 1] = p
      /\ \A i \in 1..n : q'[i] = q[i]
  BY <1>1
<1>3. HandlerTypeOK' /\ ConfiguredFirst' /\ ConvertedAsConfigured'
  BY <1>1, <1>2 DEF PacketInv, HandlerTypeOK, ConfiguredFirst, ConvertedAsConfigured, startVars,
                    workVars, frameVars
<1>4. ASSUME NEW k \in Handles
      PROVE  /\ Done(k)' = [i \in 1..Len(Done(k)') |-> i]
             /\ Len(Done(k)') <= sent'[k]
             /\ {q'[i].id : i \in Queued(k)'} = Len(Done(k)') + 1 .. sent'[k]
             /\ \A i, j \in Queued(k)' : i < j => q'[i].id < q'[j].id
  <2>1. Done(k)' = Done(k) /\ Len(Done(k)) \in Nat
    <3>1. Done(k)' = Done(k)
      BY <1>1 DEF Done, frameVars
    <3>2. Done(k) \in Seq(Nat)
      BY DoneType DEF PacketInv
    <3> QED
      BY <3>1, <3>2
  <2>2. /\ Done(k) = [i \in 1..Len(Done(k)) |-> i] /\ Len(Done(k)) <= sent[k]
        /\ {q[i].id : i \in Queued(k)} = Len(Done(k)) + 1 .. sent[k]
        /\ \A i, j \in Queued(k) : i < j => q[i].id < q[j].id
    BY DEF PacketInv, NothingLost
  <2>3. /\ Queued(k) \subseteq 1..n
        /\ Queued(k)' = IF k = h THEN Queued(k) \cup {n + 1} ELSE Queued(k)
    <3>1. Queued(k) = {i \in 1..n : q[i].handle = k}
      BY <1>2 DEF Queued
    <3>2. Queued(k)' = {i \in 1..n + 1 : q'[i].handle = k}
      BY <1>2 DEF Queued
    <3>3. 1..n + 1 = (1..n) \cup {n + 1}
      BY <1>1
    <3>4. p.handle = h
      OBVIOUS
    <3> QED
      BY <1>2, <3>1, <3>2, <3>3, <3>4
  <2>4. \A i \in Queued(k) : q'[i] = q[i] /\ i < n + 1 /\ i # n + 1 /\ ~(n + 1 < i)
    BY <1>1, <1>2, <2>3
  <2>5. CASE k # h
    <3>1. sent'[k] = sent[k]
      BY <1>1, <2>5
    <3> QED
      BY <2>1, <2>2, <2>3, <2>4, <2>5, <3>1
  <2>6. CASE k = h
    <3>1. sent'[k] = sent[k] + 1 /\ sent[k] \in Nat /\ q'[n + 1].id = sent[k] + 1
      BY <1>1, <1>2, <2>6
    <3>2. {q'[i].id : i \in Queued(k)'} = {q[i].id : i \in Queued(k)} \cup {sent[k] + 1}
      BY <2>3, <2>4, <2>6, <3>1
    <3>4. Len(Done(k)) + 1 .. sent[k] + 1 = (Len(Done(k)) + 1 .. sent[k]) \cup {sent[k] + 1}
      BY <2>1, <2>2, <2>6, <3>1
    <3>5. ASSUME NEW i \in Queued(k) PROVE q[i].id < sent[k] + 1
      <4>1. q[i].id \in Len(Done(k)) + 1 .. sent[k]
        BY <2>2
      <4> QED
        BY <2>1, <3>1, <4>1
    <3>6. \A i, j \in Queued(k)' : i < j => q'[i].id < q'[j].id
      BY <2>2, <2>3, <2>4, <2>6, <3>1, <3>5
    <3>7. Len(Done(k)') <= sent'[k]
      BY <2>1, <2>2, <2>6, <3>1
    <3>8. {q'[i].id : i \in Queued(k)'} = Len(Done(k)') + 1 .. sent'[k]
      BY <2>1, <2>2, <2>6, <3>1, <3>2, <3>4
    <3>9. Done(k)' = [i \in 1..Len(Done(k)') |-> i]
      BY <2>1, <2>2
    <3> QED
      BY <3>6, <3>7, <3>8, <3>9
  <2> QED
    BY <2>5, <2>6
<1>5. NothingLost'
  BY <1>4 DEF NothingLost
<1> QED
  BY <1>3, <1>5 DEF PacketInv

\* The thread takes the oldest packet of its lidar, and adds it behind what is done.
LEMMA TakeKeepsPackets ==
  ASSUME PacketInv, TakePacket
  PROVE  PacketInv'
<1> DEFINE q == raw_packet_queue_
           n == Len(q)
<1>0. /\ q \in Seq(RawPackets) /\ q # <<>> /\ n \in Nat /\ n >= 1 /\ DOMAIN q = 1..n
      /\ Head(q) = q[1] /\ Head(q) \in RawPackets
      /\ q' = Tail(q) /\ q' \in Seq(RawPackets) /\ DOMAIN q' = 1..n - 1
      /\ \A i \in 1..n - 1 : q'[i] = q[i + 1] /\ i + 1 \in 1..n
  BY DEF TakePacket, PacketInv, HandlerTypeOK
<1> PICK p \in RawPackets : p = Head(q)
  BY <1>0
<1> PICK h \in Handles : h = p.handle
  BY DEF RawPackets
<1> DEFINE c == points_clouds_[h]
<1>1. /\ q \in Seq(RawPackets) /\ q # <<>> /\ n \in Nat /\ n >= 1 /\ DOMAIN q = 1..n
      /\ p = q[1]
      /\ q' \in Seq(RawPackets) /\ DOMAIN q' = 1..n - 1
      /\ \A i \in 1..n - 1 : q'[i] = q[i + 1] /\ i + 1 \in 1..n
  BY <1>0
<1>2. /\ p.id \in Nat /\ p.stamp \in Nat
      /\ p = [handle |-> h, id |-> p.id, stamp |-> p.stamp]
  BY DEF RawPackets
<1>3. /\ raw_data' = <<p>> /\ points_clouds_' = [points_clouds_ EXCEPT ![h] = Append(@, Converted(p))]
      /\ UNCHANGED <<startVars, netVars, is_timestamp_sync_, delivered>>
  BY DEF TakePacket, PointCloudProcess
<1>4. Converted(p) \in Points /\ Converted(p).id = p.id
      /\ Converted(p).extrinsic = (h \in lidar_extrinsics_)
  BY <1>2 DEF Converted, SetLidarsExtParam, Points
<1>5. /\ c \in Seq(Points) /\ points_clouds_'[h] = Append(c, Converted(p))
      /\ \A k \in Handles : k # h => points_clouds_'[k] = points_clouds_[k]
      /\ points_clouds_' \in [Handles -> Seq(Points)]
  BY <1>2, <1>3, <1>4 DEF PacketInv, HandlerTypeOK
<1>6. HandlerTypeOK'
  BY <1>1, <1>2, <1>3, <1>5 DEF PacketInv, HandlerTypeOK, startVars, netVars
<1>7. ConfiguredFirst' /\ Configured \subseteq lidar_extrinsics_
  BY <1>1, <1>3 DEF PacketInv, ConfiguredFirst, startVars
<1>8. ConvertedAsConfigured'
  <2>1. \A i \in DOMAIN Append(c, Converted(p)) :
          \/ Append(c, Converted(p))[i] = Converted(p)
          \/ i \in DOMAIN c /\ Append(c, Converted(p))[i] = c[i]
    BY <1>4, <1>5
  <2>2. ASSUME NEW k \in Configured, k \in Handles, NEW i \in DOMAIN points_clouds_'[k]
        PROVE points_clouds_'[k][i].extrinsic
    <3>1. CASE k = h
      <4>1. h \in lidar_extrinsics_ /\ i \in DOMAIN Append(c, Converted(p))
        BY <1>5, <1>7, <2>2, <3>1
      <4>2. CASE Append(c, Converted(p))[i] = Converted(p)
        BY <1>4, <1>5, <3>1, <4>1, <4>2
      <4>3. CASE i \in DOMAIN c /\ Append(c, Converted(p))[i] = c[i]
        BY <1>5, <3>1, <4>3 DEF PacketInv, ConvertedAsConfigured
      <4> QED
        BY <2>1, <4>1, <4>2, <4>3
    <3>2. CASE k # h
      BY <1>5, <2>2, <3>2 DEF PacketInv, ConvertedAsConfigured
    <3> QED
      BY <3>1, <3>2
  <2> QED
    BY <2>2, HandlerAssumption DEF ConvertedAsConfigured, HandlerAssumption
<1>9. /\ \A k \in Handles : Done(k) \in Seq(Nat)
      /\ \A k \in Handles : Done(k)' = IF k = h THEN Append(Done(h), p.id) ELSE Done(k)
  <2>1. \A k \in Handles : Done(k) \in Seq(Nat)
    BY DoneType DEF PacketInv
  <2>2. \A k \in Handles : k # h => Done(k)' = Done(k)
    BY <1>3, <1>5 DEF Done
  <2>3. IdsOf(Append(c, Converted(p))) = Append(IdsOf(c), p.id) /\ IdsOf(c) \in Seq(Nat)
    BY <1>4, <1>5, IdsOfAppend
  <2>4. delivered[h] \in Seq(Nat)
    BY <1>2 DEF PacketInv, HandlerTypeOK
  <2>5. Done(h)' = delivered[h] \o Append(IdsOf(c), p.id)
    BY <1>3, <1>5, <2>3 DEF Done
  <2>6. Done(h)' = Append(Done(h), p.id)
    BY <1>2, <2>3, <2>4, <2>5, ConcatAppend DEF Done
  <2> QED
    BY <2>1, <2>2, <2>6
<1>10. ASSUME NEW k \in Handles
       PROVE  \A i \in 1..n - 1 : i \in Queued(k)' <=> i + 1 \in Queued(k)
  BY <1>1 DEF Queued
<1>11. \A k \in Handles : Queued(k) \subseteq 1..n /\ Queued(k)' \subseteq 1..n - 1
  BY <1>1 DEF Queued
<1>12. \A k \in Handles : 1 \in Queued(k) <=> k = h
  BY <1>1 DEF Queued
<1>13. ASSUME NEW k \in Handles
       PROVE  \A x : x \in {q'[i].id : i \in Queued(k)'}
                        <=> x \in {q[i].id : i \in Queued(k) \ {1}}
  <2>1. ASSUME NEW i \in Queued(k)'
        PROVE  i + 1 \in Queued(k) \ {1} /\ q'[i] = q[i + 1]
    BY <1>1, <1>10, <1>11
  <2>2. ASSUME NEW i \in Queued(k) \ {1}
        PROVE  i - 1 \in Queued(k)' /\ q'[i - 1] = q[i]
    <3>1. i \in 1..n /\ i # 1
      BY <1>11
    <3>2. i - 1 \in 1..n - 1 /\ (i - 1) + 1 = i
      BY <1>1, <3>1
    <3> QED
      BY <1>1, <1>10, <3>2
  <2> QED
    BY <2>1, <2>2
<1>14. ASSUME NEW k \in Handles
       PROVE  \A i, j \in Queued(k)' : i < j => q'[i].id < q'[j].id
  <2> SUFFICES ASSUME NEW i \in Queued(k)', NEW j \in Queued(k)', i < j
               PROVE  q'[i].id < q'[j].id
    OBVIOUS
  <2>1. i \in 1..n - 1 /\ j \in 1..n - 1
    BY <1>11
  <2>2. i + 1 \in Queued(k) /\ j + 1 \in Queued(k) /\ i + 1 < j + 1
    BY <1>1, <1>10, <2>1
  <2>3. q'[i] = q[i + 1] /\ q'[j] = q[j + 1]
    BY <1>1, <2>1
  <2> QED
    BY <2>2, <2>3 DEF PacketInv, NothingLost
<1>15. ASSUME NEW k \in Handles
       PROVE  /\ Done(k)' = [i \in 1..Len(Done(k)') |-> i]
              /\ Len(Done(k)') <= sent'[k]
              /\ {q'[i].id : i \in Queued(k)'} = Len(Done(k)') + 1 .. sent'[k]
  <2>1. /\ Done(k) = [i \in 1..Len(Done(k)) |-> i] /\ Len(Done(k)) <= sent[k]
        /\ {q[i].id : i \in Queued(k)} = Len(Done(k)) + 1 .. sent[k]
        /\ \A i, j \in Queued(k) : i < j => q[i].id < q[j].id
    BY DEF PacketInv, NothingLost
  <2>2. sent'[k] = sent[k] /\ sent[k] \in Nat /\ Len(Done(k)) \in Nat
    BY <1>3, <1>9 DEF netVars, PacketInv, HandlerTypeOK
  <2>3. CASE k # h
    <3>1. Done(k)' = Done(k) /\ Queued(k) \ {1} = Queued(k)
      BY <1>9, <1>12, <2>3
    <3> QED
      BY <1>13, <2>1, <2>2, <3>1
  <2>4. CASE k = h
    <3>1. 1 \in Queued(k) /\ q[1] = p
      BY <1>1, <1>12, <2>4
    <3>2. \A i \in Queued(k) \ {1} : p.id < q[i].id
      <4>1. \A i \in Queued(k) \ {1} : 1 < i
        BY <1>1, <1>11
      <4> QED
        BY <2>1, <3>1, <4>1
    <3>3. p.id \in Len(Done(k)) + 1 .. sent[k]
      BY <2>1, <3>1
    <3>4. {q[i].id : i \in Queued(k)} = {q[i].id : i \in Queued(k) \ {1}} \cup {p.id}
      BY <3>1
    <3>5. p.id = Len(Done(k)) + 1
      <4>1. Len(Done(k)) + 1 \in {q[i].id : i \in Queued(k)}
        BY <2>1, <2>2, <3>3
      <4>2. CASE Len(Done(k)) + 1 = p.id
        BY <4>2
      <4>3. CASE Len(Done(k)) + 1 \in {q[i].id : i \in Queued(k) \ {1}}
        BY <2>2, <3>2, <3>3, <4>3
      <4> QED
        BY <3>4, <4>1, <4>2, <4>3
    <3>6. {q[i].id : i \in Queued(k) \ {1}} = Len(Done(k)) + 2 .. sent[k]
      <4>1. p.id \notin {q[i].id : i \in Queued(k) \ {1}}
        <5>1. \A i \in Queued(k) \ {1} : q[i].id # p.id
          BY <2>2, <3>2, <3>3
        <5> QED
          BY <5>1
      <4>2. {q[i].id : i \in Queued(k) \ {1}} = (Len(Done(k)) + 1 .. sent[k]) \ {p.id}
        BY <2>1, <3>4, <4>1
      <4>3. (Len(Done(k)) + 1 .. sent[k]) \ {Len(Done(k)) + 1} = Len(Done(k)) + 2 .. sent[k]
        BY <2>2
      <4> QED
        BY <3>5, <4>2, <4>3
    <3>7. Done(k)' = Append(Done(k), Len(Done(k)) + 1) /\ Done(k) \in Seq(Nat)
      BY <1>9, <2>4, <3>5
    <3>8. Len(Done(k)') = Len(Done(k)) + 1
      BY <2>2, <3>7
    <3>9. Done(k)' = [i \in 1..Len(Done(k)') |-> i]
      BY <2>1, <3>7, CountingOn
    <3>10. Len(Done(k)') <= sent'[k]
      BY <2>2, <3>3, <3>5, <3>8
    <3>11. {q'[i].id : i \in Queued(k)'} = Len(Done(k)') + 1 .. sent'[k]
      <4>1. (Len(Done(k)) + 1) + 1 = Len(Done(k)) + 2
        BY <2>2
      <4> QED
        BY <1>13, <2>2, <3>6, <3>8, <4>1
    <3> QED
      BY <3>9, <3>10, <3>11
  <2> QED
    BY <2>3, <2>4
<1>16. NothingLost'
  BY <1>14, <1>15 DEF NothingLost
<1> QED
  BY <1>6, <1>7, <1>8, <1>16 DEF PacketInv

\* A frame that ends moves its points from the cloud to what was given away, in order.
LEMMA PublishKeepsPackets ==
  ASSUME PacketInv, NEW ls \in SUBSET Handles, Publish(ls),
         UNCHANGED <<startVars, netVars, raw_packet_queue_, is_timestamp_sync_>>,
         worker' # "checking"
  PROVE  PacketInv'
<1>1. ASSUME NEW h \in Handles
      PROVE  /\ points_clouds_'[h] = <<>> \/ points_clouds_'[h] = points_clouds_[h]
             /\ points_clouds_'[h] \in Seq(Points) /\ delivered'[h] \in Seq(Nat)
             /\ Done(h)' = Done(h)
  <2>1. /\ points_clouds_[h] \in Seq(Points) /\ delivered[h] \in Seq(Nat)
        /\ Done(h) \in Seq(Nat)
    BY DoneType DEF PacketInv, HandlerTypeOK
  <2>2. CASE h \in ls
    <3>1. points_clouds_'[h] = <<>> /\ delivered'[h] = Done(h)
      BY <2>2 DEF Publish, Swapped, Done
    <3>2. IdsOf(<<>>) = <<>>
      BY DEF IdsOf
    <3>3. Done(h)' = Done(h) \o <<>>
      BY <3>1, <3>2 DEF Done
    <3> QED
      BY <2>1, <3>1, <3>3, ConcatEmpty
  <2>3. CASE h \notin ls
    <3>1. points_clouds_'[h] = points_clouds_[h] /\ delivered'[h] = delivered[h]
      BY <2>3 DEF Publish
    <3> QED
      BY <2>1, <3>1 DEF Done
  <2> QED
    BY <2>2, <2>3
<1>2. points_clouds_' \in [Handles -> Seq(Points)] /\ delivered' \in [Handles -> Seq(Nat)]
  <2>1. /\ points_clouds_' = [h \in Handles |-> points_clouds_'[h]]
        /\ delivered' = [h \in Handles |-> delivered'[h]]
    BY DEF Publish
  <2> QED
    BY <1>1, <2>1
<1>3. HandlerTypeOK' /\ ConfiguredFirst'
  BY <1>2 DEF PacketInv, HandlerTypeOK, ConfiguredFirst, startVars, netVars
<1>4. ConvertedAsConfigured'
  BY <1>1, HandlerAssumption DEF PacketInv, ConvertedAsConfigured, HandlerAssumption
<1>5. \A h \in Handles : Queued(h)' = Queued(h)
  BY DEF Queued
<1>6. NothingLost'
  BY <1>1, <1>5 DEF PacketInv, NothingLost, netVars
<1> QED
  BY <1>3, <1>4, <1>6 DEF PacketInv

\* What a step that moves no packet leaves as it was.
LEMMA NoPacketMoved ==
  ASSUME PacketInv, UNCHANGED <<sent, raw_packet_queue_, points_clouds_, delivered>>
  PROVE  ConvertedAsConfigured' /\ NothingLost'
<1>1. ASSUME NEW h \in Handles PROVE Done(h)' = Done(h) /\ Queued(h)' = Queued(h)
  BY DEF Done, Queued
<1>2. NothingLost'
  BY <1>1 DEF PacketInv, NothingLost
<1> QED
  BY <1>2 DEF PacketInv, ConvertedAsConfigured

\* Every step keeps the invariant.
LEMMA PacketStep ==
  ASSUME PacketInv, [HandlerNext]_handlerVars
  PROVE  PacketInv'
<1>1. CASE \E h \in Handles : AddLidarsExtParam(h)
  <2>1. PICK h \in Handles : AddLidarsExtParam(h)
    BY <1>1
  <2>2. /\ start' = start /\ lidar_extrinsics_' = lidar_extrinsics_ \cup {h}
        /\ UNCHANGED <<netVars, raw_packet_queue_, is_timestamp_sync_, workVars, frameVars>>
    BY <2>1 DEF AddLidarsExtParam
  <2>3. HandlerTypeOK' /\ ConfiguredFirst'
    BY <2>2 DEF PacketInv, HandlerTypeOK, ConfiguredFirst, netVars, workVars, frameVars
  <2> QED
    BY <2>2, <2>3, NoPacketMoved DEF PacketInv, netVars, frameVars
<1>2. CASE \E h \in Handles : OnLivoxLidarPointCloudCallback(h)
  BY <1>2, ArrivalKeepsPackets
<1>3. CASE InitLivoxLidar \/ SetPointCloudsCallback \/ SetPointCloudConfig
  <2>1. /\ UNCHANGED <<lidar_extrinsics_, netVars, raw_packet_queue_, is_timestamp_sync_, raw_data,
                       frameVars>>
        /\ start' \in {"configs", "observed", "running"}
        /\ worker' = worker \/ worker' = "loop"
        /\ start \in {"observed", "running"} => start' \in {"observed", "running"}
        /\ start' \in {"observed", "running"}
             => start \in {"observed", "running"} \/ Configured \subseteq lidar_extrinsics_
    BY <1>3 DEF InitLivoxLidar, SetPointCloudsCallback, SetPointCloudConfig, workVars
  <2>2. HandlerTypeOK' /\ ConfiguredFirst'
    BY <2>1 DEF PacketInv, HandlerTypeOK, ConfiguredFirst, netVars, frameVars
  <2> QED
    BY <2>1, <2>2, NoPacketMoved DEF PacketInv, netVars, frameVars
<1>4. CASE Tick \/ Quit \/ WaitForPacket \/ WaitFor \/ Uninit \/ \E h \in Handles : OnImuPacket(h)
  <2>1. /\ UNCHANGED <<startVars, synced, sent, raw_packet_queue_, raw_data, frameVars>>
        /\ clock' = clock \/ clock' = clock + 1
        /\ worker' = worker \/ worker' \in {"ended", "waiting", "loop"}
    BY <1>4 DEF Tick, Quit, WaitForPacket, WaitFor, Uninit, OnImuPacket, netVars, workVars
  <2>2. HandlerTypeOK' /\ ConfiguredFirst'
    BY <2>1 DEF PacketInv, HandlerTypeOK, ConfiguredFirst, startVars, frameVars
  <2> QED
    BY <2>1, <2>2, NoPacketMoved DEF PacketInv, frameVars
<1>5. CASE TakePacket
  BY <1>5, TakeKeepsPackets
<1>6. CASE CheckTimer
  <2>1. PICK h \in Handles : \E id, stamp \in Nat :
          raw_data = <<[handle |-> h, id |-> id, stamp |-> stamp]>>
    BY <1>6 DEF CheckTimer, PacketInv, HandlerTypeOK
  <2>2. raw_data[1].handle = h
    BY <2>1
  <2>3. /\ worker' # "checking"
        /\ UNCHANGED <<startVars, netVars, raw_packet_queue_, is_timestamp_sync_>>
    BY <1>6 DEF CheckTimer
  <2>4. CASE \E ls \in SUBSET Handles : Publish(ls)
    BY <2>3, <2>4, PublishKeepsPackets
  <2>5. CASE UNCHANGED <<points_clouds_, delivered>>
    <3>1. HandlerTypeOK' /\ ConfiguredFirst'
      BY <2>3, <2>5 DEF PacketInv, HandlerTypeOK, ConfiguredFirst, startVars, netVars
    <3> QED
      BY <2>3, <2>5, <3>1, NoPacketMoved DEF PacketInv, netVars
  <2>6. \/ Publish({h}) \/ Publish(Handles) \/ UNCHANGED <<points_clouds_, delivered>>
    BY <1>6, <2>2 DEF CheckTimer, frameVars
  <2> QED
    BY <2>4, <2>5, <2>6
<1>7. CASE UNCHANGED handlerVars
  <2>1. HandlerTypeOK' /\ ConfiguredFirst'
    BY <1>7 DEF handlerVars, startVars, netVars, workVars, frameVars, PacketInv, HandlerTypeOK,
                ConfiguredFirst
  <2> QED
    BY <1>7, <2>1, NoPacketMoved DEF PacketInv, handlerVars, netVars, frameVars
<1> QED
  BY <1>1, <1>2, <1>3, <1>4, <1>5, <1>6, <1>7 DEF HandlerNext, Worker

\* Nothing has come yet.
LEMMA PacketStart == HandlerInit => PacketInv
<1> SUFFICES ASSUME HandlerInit PROVE PacketInv
  OBVIOUS
<1>1. HandlerTypeOK /\ ConfiguredFirst /\ ConvertedAsConfigured
  <2>1. HandlerTypeOK /\ ConfiguredFirst
    BY DEF HandlerInit, HandlerTypeOK, ConfiguredFirst
  <2>2. ASSUME NEW h \in Configured PROVE DOMAIN points_clouds_[h] = {}
    BY HandlerAssumption DEF HandlerInit, HandlerAssumption
  <2> QED
    BY <2>1, <2>2 DEF ConvertedAsConfigured
<1>2. ASSUME NEW h \in Handles
      PROVE  Done(h) = <<>> /\ Queued(h) = {} /\ sent[h] = 0
  <2>1. points_clouds_[h] = <<>> /\ delivered[h] = <<>>
    BY DEF HandlerInit
  <2>2. IdsOf(<<>>) = <<>>
    BY DEF IdsOf
  <2> QED
    BY <2>1, <2>2 DEF HandlerInit, Done, Queued
<1>3. NothingLost
  <2>1. /\ <<>> = [i \in 1..Len(<<>>) |-> i] /\ Len(<<>>) = 0 /\ Len(<<>>) + 1 .. 0 = {} /\ 0 <= 0
    OBVIOUS
  <2> SUFFICES ASSUME NEW h \in Handles
               PROVE  /\ Done(h) = [i \in 1..Len(Done(h)) |-> i] /\ Len(Done(h)) <= sent[h]
                      /\ {raw_packet_queue_[i].id : i \in Queued(h)} = Len(Done(h)) + 1 .. sent[h]
                      /\ \A i, j \in Queued(h) :
                           i < j => raw_packet_queue_[i].id < raw_packet_queue_[j].id
    BY DEF NothingLost
  <2>2. {raw_packet_queue_[i].id : i \in Queued(h)} = {}
    BY <1>2
  <2> QED
    BY <1>2, <2>1, <2>2
<1> QED
  BY <1>1, <1>3 DEF PacketInv

\* No packet is lost, doubled or overtaken between the SDK and the frames, for any number of
\* lidars and packets and wherever CheckTimer cuts (pub_handler.cpp:164-255).
THEOREM PacketsAllDelivered == HandlerSpec => []NothingLost
<1>1. PacketInv /\ [HandlerNext]_handlerVars => PacketInv'
  BY PacketStep
<1>2. PacketInv => NothingLost
  BY DEF PacketInv
<1> QED
  BY PacketStart, <1>1, <1>2, PTL DEF HandlerSpec

\* No point of a configured lidar is converted with the default parameters, for any number of
\* lidars and however early their packets come (lds_lidar.cpp:77-98).
THEOREM PointsConfigured == HandlerSpec => []ConvertedAsConfigured
<1>1. PacketInv /\ [HandlerNext]_handlerVars => PacketInv'
  BY PacketStep
<1>2. PacketInv => ConvertedAsConfigured
  BY DEF PacketInv
<1> QED
  BY PacketStart, <1>1, <1>2, PTL DEF HandlerSpec

-----------------------------------------------------------------------------
(* How long a frame lasts *)

\* A frame could end at this point of a cloud.
EndsAt(c, j) ==
  c[j].stamp # 0 /\ c[j].stamp % Interval = 0 /\ c[j].stamp - c[1].stamp >= Tolerance

\* FrameSpan is about the points of a frame: what bounds them is that CheckTimer saw each of
\* them as the last one, with the flag of a synchronised clock.
Examined ==
  synced = Handles =>
    /\ raw_packet_queue_ # <<>> \/ worker = "checking" => is_timestamp_sync_
    /\ \A h \in Handles : \A j \in DOMAIN points_clouds_[h] :
         EndsAt(points_clouds_[h], j)
           => worker = "checking" /\ raw_data[1].handle = h /\ j = Len(points_clouds_[h])

SpanInv ==
  /\ PacketInv
  /\ Examined
  /\ worker = "checking" => points_clouds_[raw_data[1].handle] # <<>>
  /\ start # "running" => worker = "none"

\* Multiples of n that fit into a distance of n * (2 + m).
LEMMA MultiplesBetween ==
  ASSUME NEW n \in Nat, n > 0, NEW a \in Nat, NEW b \in Nat, b % n = 0,
         NEW m \in Nat, b - a >= n * (2 + m), NEW k \in 1..m + 1
  PROVE  b - n * k \in Int /\ (b - n * k) % n = 0 /\ b - n * k >= a + n /\ b - n * k < b
<1> DEFINE q == b \div n
<1>1. q \in Int /\ b = n * q
  BY Quotient
<1> HIDE DEF q
<1>2. k \in Nat /\ k >= 1 /\ k <= m + 1
  OBVIOUS
<1>3. PICK d \in Nat : m + 1 = k + d
  <2>1. (m + 1) - k \in Nat /\ m + 1 = k + ((m + 1) - k)
    BY <1>2
  <2> QED
    BY <2>1
<1>4. n * (2 + m) = n * k + n * d + n /\ n * d >= 0
  <2>1. 2 + m = (k + d) + 1
    BY <1>3
  <2>2. n * ((k + d) + 1) = n * k + n * d + n
    BY <1>2
  <2>3. n * d >= 0
    OBVIOUS
  <2> QED
    BY <2>1, <2>2, <2>3
<1>5. n * k \in Int /\ n * d \in Int /\ n * k >= n
  BY <1>2
<1>6. b - n * k >= a + n /\ b - n * k < b
  BY <1>4, <1>5
<1>7. b - n * k = n * (q - k) + 0
  BY <1>1, <1>2
<1>8. 0 \in 0..n - 1 /\ q - k \in Int /\ b - n * k \in Int
  BY <1>1, <1>2, <1>5
<1>9. (b - n * k) % n = 0
  BY <1>7, <1>8, RemainderUnique
<1> QED
  BY <1>6, <1>8, <1>9

\* A cloud of which only the last point ends a frame has missed every multiple of the
\* interval at which it could have ended before.
LEMMA SpanBounded ==
  ASSUME NEW c \in Seq(Points), c # <<>>, c[Len(c)].stamp % Interval = 0,
         \A j \in DOMAIN c : EndsAt(c, j) => j = Len(c)
  PROVE  c[Len(c)].stamp - c[1].stamp < Interval * (2 + Cardinality(Missing(c)))
<1> DEFINE a == c[1].stamp
           b == c[Len(c)].stamp
           M == Missing(c)
           m == Cardinality(M)
           f == [k \in 1..m + 1 |-> b - Interval * k]
<1>1. /\ Len(c) \in Nat /\ DOMAIN c = 1..Len(c) /\ 1 \in DOMAIN c /\ Len(c) \in DOMAIN c
      /\ \A j \in DOMAIN c : c[j] \in Points
  OBVIOUS
<1>2. a \in Nat /\ b \in Nat /\ \A j \in DOMAIN c : c[j].stamp \in Nat
  BY <1>1 DEF Points
<1>3. IsFiniteSet(M) /\ m \in Nat
  <2>1. M \subseteq a + 1 .. b
    BY DEF Missing
  <2>2. IsFiniteSet(a + 1 .. b)
    <3>1. a + 1 \in Int /\ b \in Int
      BY <1>2
    <3> QED
      BY <3>1, FS_Interval
  <2> QED
    BY <2>1, <2>2, FS_Subset, FS_CardinalityType
<1>4. Interval \in Nat /\ Interval > 0 /\ Tolerance < Interval
  BY HandlerAssumption DEF HandlerAssumption, Tolerance
<1>5. SUFFICES ASSUME b - a >= Interval * (2 + m) PROVE FALSE
  <2>1. Interval * (2 + m) \in Int
    BY <1>3, <1>4
  <2> QED
    BY <1>2, <1>5, <2>1
<1> HIDE DEF a, b, m, f
<1>6. ASSUME NEW k \in 1..m + 1
      PROVE  f[k] \in M
  <2> DEFINE t == b - Interval * k
  <2>1. t \in Int /\ t % Interval = 0 /\ t >= a + Interval /\ t < b
    BY <1>2, <1>3, <1>4, <1>5, MultiplesBetween DEF a, b
  <2> HIDE DEF t
  <2>2. t \in a + 1 .. b /\ t # 0 /\ t - a >= Interval
    BY <1>2, <1>4, <2>1
  <2>3. ASSUME NEW j \in DOMAIN c, c[j].stamp = t PROVE FALSE
    <3>1. EndsAt(c, j)
      BY <1>2, <1>4, <2>1, <2>2, <2>3 DEF EndsAt, a, Tolerance
    <3>2. c[j].stamp = b
      BY <3>1 DEF b
    <3> QED
      BY <1>2, <2>1, <2>3, <3>2
  <2>4. t \in M
    BY <2>1, <2>2, <2>3 DEF Missing, a, b
  <2> QED
    BY <2>4 DEF f, t
<1>7. f \in Injection(1..m + 1, M)
  <2>1. f \in [1..m + 1 -> M]
    BY <1>6 DEF f
  <2>2. ASSUME NEW k \in 1..m + 1, NEW l \in 1..m + 1, f[k] = f[l] PROVE k = l
    <3>1. k \in Int /\ l \in Int
      BY <1>3
    <3>2. b - Interval * k = b - Interval * l
      BY <2>2 DEF f
    <3>3. Interval * (k - l) = 0
      BY <1>2, <1>4, <3>1, <3>2
    <3>4. k - l = 0
      BY <1>4, <3>1, <3>3, SmallMultiple
    <3> QED
      BY <3>1, <3>4
  <2> QED
    BY <2>1, <2>2 DEF Injection, IsInjective
<1>8. Cardinality(1..m + 1) = m + 1
  BY <1>3, FS_Interval
<1>9. Cardinality(1..m + 1) <= Cardinality(M)
  BY <1>3, <1>7, FS_Injection
<1> QED
  BY <1>3, <1>8, <1>9 DEF m

\* The lidar of the packet that is checked.
LEMMA CheckedPacket ==
  ASSUME SpanInv, worker = "checking"
  PROVE  /\ raw_data[1].handle \in Handles
         /\ points_clouds_[raw_data[1].handle] \in Seq(Points)
         /\ points_clouds_[raw_data[1].handle] # <<>>
<1>1. PICK h \in Handles : \E id, stamp \in Nat :
        raw_data = <<[handle |-> h, id |-> id, stamp |-> stamp]>>
  BY DEF SpanInv, PacketInv, HandlerTypeOK
<1>2. raw_data[1].handle = h
  BY <1>1
<1> QED
  BY <1>2 DEF SpanInv, PacketInv, HandlerTypeOK

\* A point that is added is the only one that was not examined.
LEMMA TakeKeepsSpan ==
  ASSUME SpanInv, TakePacket
  PROVE  SpanInv'
<1>1. /\ raw_packet_queue_ # <<>> /\ worker # "checking" /\ worker' = "checking"
      /\ raw_packet_queue_ \in Seq(RawPackets) /\ start' = start /\ worker # "none"
      /\ is_timestamp_sync_' = is_timestamp_sync_ /\ synced' = synced
  BY DEF TakePacket, SpanInv, PacketInv, HandlerTypeOK, startVars, netVars
<1> PICK p \in RawPackets : p = Head(raw_packet_queue_)
  BY <1>1
<1> PICK h \in Handles : h = p.handle
  BY DEF RawPackets
<1> DEFINE c == points_clouds_[h]
           x == Converted(p)
<1>2. /\ raw_data' = <<p>>
      /\ points_clouds_' = [points_clouds_ EXCEPT ![h] = Append(@, x)]
  BY DEF TakePacket, PointCloudProcess
<1>3. /\ c \in Seq(Points) /\ points_clouds_'[h] = Append(c, x)
      /\ \A k \in Handles : k # h => points_clouds_'[k] = points_clouds_[k]
  BY <1>2 DEF SpanInv, PacketInv, HandlerTypeOK
<1>4. raw_data'[1].handle = h
  BY <1>2
<1> HIDE DEF x
<1>5. /\ Append(c, x) # <<>> /\ Len(Append(c, x)) = Len(c) + 1
      /\ DOMAIN Append(c, x) = 1..Len(c) + 1 /\ DOMAIN c = 1..Len(c) /\ Len(c) \in Nat
      /\ \A j \in 1..Len(c) : Append(c, x)[j] = c[j]
  BY <1>3
<1>6. ASSUME synced' = Handles, NEW k \in Handles, NEW j \in DOMAIN points_clouds_'[k],
             EndsAt(points_clouds_'[k], j)
      PROVE  k = h /\ j = Len(points_clouds_'[k])
  <2>1. \A l \in Handles : \A i \in DOMAIN points_clouds_[l] : ~EndsAt(points_clouds_[l], i)
    BY <1>1, <1>6 DEF SpanInv, Examined
  <2>2. k = h
    BY <1>3, <1>6, <2>1
  <2>3. ASSUME j # Len(c) + 1 PROVE FALSE
    <3>1. j \in 1..Len(c) /\ 1 \in 1..Len(c)
      BY <1>3, <1>5, <1>6, <2>2, <2>3
    <3>2. Append(c, x)[j] = c[j] /\ Append(c, x)[1] = c[1]
      BY <1>5, <3>1
    <3>3. EndsAt(c, j)
      BY <1>3, <1>6, <2>2, <3>2 DEF EndsAt
    <3> QED
      BY <1>5, <2>1, <3>1, <3>3
  <2> QED
    BY <1>3, <1>5, <2>2, <2>3
<1>7. PacketInv'
  BY TakeKeepsPackets DEF SpanInv
<1>8. Examined'
  BY <1>1, <1>4, <1>6 DEF SpanInv, Examined
<1> QED
  BY <1>1, <1>3, <1>4, <1>5, <1>7, <1>8 DEF SpanInv

\* CheckTimer leaves a cloud only after it has examined the last point.
LEMMA CheckKeepsSpan ==
  ASSUME SpanInv, PacketInv', CheckTimer
  PROVE  SpanInv'
<1> PICK h \in Handles : h = raw_data[1].handle
  BY CheckedPacket DEF CheckTimer
<1>1. /\ worker = "checking" /\ worker' = "loop" /\ start' = start /\ synced' = synced
      /\ raw_packet_queue_' = raw_packet_queue_ /\ is_timestamp_sync_' = is_timestamp_sync_
      /\ points_clouds_[h] \in Seq(Points) /\ points_clouds_[h] # <<>>
  BY CheckedPacket DEF CheckTimer, startVars, netVars
<1>2. SyncFrameEnds(h) <=> EndsAt(points_clouds_[h], Len(points_clouds_[h]))
  BY DEF SyncFrameEnds, EndsAt, GetRecentTimeStamp, GetLidarBaseTime
<1>3. ASSUME synced' = Handles, NEW k \in Handles, NEW j \in DOMAIN points_clouds_'[k],
             EndsAt(points_clouds_'[k], j)
      PROVE  FALSE
  <2>1. is_timestamp_sync_
    BY <1>1, <1>3 DEF SpanInv, Examined
  <2>2. \/ SyncFrameEnds(h) /\ Publish({h})
        \/ ~SyncFrameEnds(h) /\ UNCHANGED points_clouds_
    BY <2>1 DEF CheckTimer, frameVars
  <2>3. points_clouds_'[k] = points_clouds_[k]
    <3>1. CASE Publish({h})
      <4>1. points_clouds_'[k] = IF k = h THEN <<>> ELSE points_clouds_[k]
        BY <3>1 DEF Publish, Swapped
      <4>2. DOMAIN <<>> = {}
        OBVIOUS
      <4> QED
        BY <1>3, <4>1, <4>2
    <3> QED
      BY <2>2, <3>1
  <2>4. k = h /\ j = Len(points_clouds_[k])
    BY <1>1, <1>3, <2>3 DEF SpanInv, Examined
  <2>5. points_clouds_'[h] # <<>>
    BY <1>1, <2>3, <2>4
  <2> QED
    BY <1>2, <1>3, <2>2, <2>3, <2>4, <2>5 DEF Publish, Swapped
<1>4. Examined'
  BY <1>1, <1>3 DEF SpanInv, Examined
<1> QED
  BY <1>1, <1>4 DEF SpanInv

\* Every step keeps the invariant.
LEMMA SpanStep ==
  ASSUME SpanInv, [HandlerNext]_handlerVars
  PROVE  SpanInv'
<1>1. PacketInv'
  BY PacketStep DEF SpanInv
<1>2. CASE \E h \in Handles : OnLivoxLidarPointCloudCallback(h) \/ OnImuPacket(h)
  <2>1. PICK h \in Handles : OnLivoxLidarPointCloudCallback(h) \/ OnImuPacket(h)
    BY <1>2
  <2>2. /\ is_timestamp_sync_' = (h \in synced) /\ synced' = synced
        /\ UNCHANGED <<startVars, workVars, frameVars>>
    BY <2>1 DEF OnLivoxLidarPointCloudCallback, OnImuPacket, netVars
  <2>3. Examined'
    BY <2>2 DEF SpanInv, Examined, workVars, frameVars
  <2> QED
    BY <1>1, <2>2, <2>3 DEF SpanInv, startVars, workVars, frameVars
<1>3. CASE TakePacket
  BY <1>3, TakeKeepsSpan
<1>4. CASE CheckTimer
  BY <1>1, <1>4, CheckKeepsSpan
<1>5. CASE SetPointCloudConfig
  BY <1>1, <1>5 DEF SetPointCloudConfig, SpanInv, Examined, netVars, frameVars
<1>6. CASE \/ InitLivoxLidar \/ SetPointCloudsCallback \/ UNCHANGED handlerVars \/ Tick \/ Uninit
           \/ \E h \in Handles : AddLidarsExtParam(h)
  <2>1. /\ UNCHANGED <<synced, raw_packet_queue_, is_timestamp_sync_, workVars, frameVars>>
        /\ start' = "running" <=> start = "running"
    BY <1>6 DEF InitLivoxLidar, SetPointCloudsCallback, AddLidarsExtParam, Tick, Uninit, startVars,
                netVars, handlerVars
  <2> QED
    BY <1>1, <2>1 DEF SpanInv, Examined, workVars, frameVars
<1>7. CASE Quit \/ WaitForPacket \/ WaitFor
  <2>1. /\ UNCHANGED <<startVars, synced, raw_packet_queue_, is_timestamp_sync_, frameVars>>
        /\ worker \in {"loop", "waiting"} /\ worker' \in {"ended", "waiting", "loop"}
    BY <1>7 DEF Quit, WaitForPacket, WaitFor, netVars
  <2> QED
    BY <1>1, <2>1 DEF SpanInv, Examined, startVars, frameVars
<1> QED
  BY <1>2, <1>3, <1>4, <1>5, <1>6, <1>7 DEF HandlerNext, Worker

\* A frame that is given away, with synchronised clocks, is short.
LEMMA FrameIsShort ==
  ASSUME SpanInv, [HandlerNext]_handlerVars, NEW h \in Handles, synced = Handles,
         delivered'[h] # delivered[h]
  PROVE  LET p == points_clouds_[h] IN
         p[Len(p)].stamp - p[1].stamp < Interval * (2 + Cardinality(Missing(p)))
<1>1. CheckTimer
  BY DEF HandlerNext, Worker, InitLivoxLidar, SetPointCloudsCallback, SetPointCloudConfig,
         AddLidarsExtParam, OnLivoxLidarPointCloudCallback, OnImuPacket, Tick, Quit, WaitForPacket,
         WaitFor, TakePacket, Uninit, frameVars, handlerVars
<1>2. worker = "checking" /\ is_timestamp_sync_
  BY <1>1 DEF CheckTimer, SpanInv, Examined
<1>3. h = raw_data[1].handle /\ SyncFrameEnds(h)
  BY <1>1, <1>2 DEF CheckTimer, Publish, frameVars
<1>4. points_clouds_[h] \in Seq(Points) /\ points_clouds_[h] # <<>>
  BY <1>2, <1>3, CheckedPacket
<1>5. \A j \in DOMAIN points_clouds_[h] :
        EndsAt(points_clouds_[h], j) => j = Len(points_clouds_[h])
  BY DEF SpanInv, Examined
<1>6. points_clouds_[h][Len(points_clouds_[h])].stamp % Interval = 0
  BY <1>3 DEF SyncFrameEnds, GetRecentTimeStamp
<1> QED
  BY <1>4, <1>5, <1>6, SpanBounded

\* With synchronised clocks a frame lasts less than two intervals, and less than one more for
\* every packet at a multiple of the interval that was lost, for any interval and any losses
\* (pub_handler.cpp:168-176).
THEOREM FramesAreShort == HandlerSpec => FrameSpan
<1>1. HandlerInit => SpanInv
  <2> SUFFICES ASSUME HandlerInit PROVE SpanInv
    OBVIOUS
  <2>1. \A h \in Handles : DOMAIN points_clouds_[h] = {}
    BY DEF HandlerInit
  <2>2. worker = "none" /\ raw_packet_queue_ = <<>>
    BY DEF HandlerInit
  <2> QED
    BY <2>1, <2>2, PacketStart DEF SpanInv, Examined
<1>2. SpanInv /\ [HandlerNext]_handlerVars => SpanInv'
  BY SpanStep
<1>3. SpanInv /\ [HandlerNext]_handlerVars
        => [\A h \in Handles : synced = Handles /\ delivered'[h] # delivered[h] =>
              LET p == points_clouds_[h] IN
              p[Len(p)].stamp - p[1].stamp
                < Interval * (2 + Cardinality(Missing(p)))]_handlerVars
  BY FrameIsShort
<1> QED
  BY <1>1, <1>2, <1>3, PTL DEF HandlerSpec, FrameSpan

-----------------------------------------------------------------------------
(* The tokens of the IMU's semaphore *)

\* The one token that is there or about to be given.
OneToken == imu_semaphore_ + (IF imuStoring = "signal" THEN 1 ELSE 0) <= 1

\* The reading of the count and the signal are two steps, yet the semaphore never holds more
\* than one token, however many lists and samples there are: only the thread that read the
\* count adds to it (lds.cpp:121-125).
THEOREM TokenBounded == ImuSpec => [](imu_semaphore_ <= 1)
<1> DEFINE TokenInv == imu_semaphore_ \in Nat /\ OneToken
<1>1. ImuInit => TokenInv
  BY DEF ImuInit, OneToken
<1>2. TokenInv /\ [ImuNext]_imuVars => TokenInv'
  <2> SUFFICES ASSUME TokenInv, [ImuNext]_imuVars PROVE TokenInv'
    OBVIOUS
  <2>1. CASE \E l \in ImuLidars : ImuPush(l) \/ ImuSamples(l)
    BY <2>1 DEF ImuPush, ImuSamples, OneToken, storeVars
  <2>2. CASE StorageImuData
    BY <2>2 DEF StorageImuData, ImuEmpty, ImuGetCount, ImuSignal, OneToken
  <2>3. CASE ImuPoll \/ ImuRequestExit
    BY <2>3 DEF ImuPoll, DistributeImuData, ImuWait, ScanImuLidar, PollingLidarImuData, ScanImuDone,
                ImuRequestExit, OneToken, storeVars
  <2>4. CASE UNCHANGED imuVars
    BY <2>4 DEF imuVars, storeVars, OneToken
  <2> QED
    BY <2>1, <2>2, <2>3, <2>4 DEF ImuNext
<1>3. TokenInv => imu_semaphore_ <= 1
  BY DEF OneToken
<1> QED
  BY <1>1, <1>2, <1>3, PTL DEF ImuSpec
=============================================================================
