----------------------------- MODULE FrameRoute -----------------------------
(***************************************************************************)
(* To which lidar a published frame is attributed in livox_ros_driver2.    *)
(* CacheIndex gives each lidar an entry of lidars_, StoragePointData finds *)
(* the entry of a frame, and the poll thread labels what it takes from the *)
(* entry's ring with the handle and the topic of the entry.  The topic of  *)
(* an entry is named when its first message is published and then kept.    *)
(*                                                                         *)
(* A frame is the handle of the lidar it came from.  The rings, the        *)
(* semaphore and the handshake are those of LidarStream and LidarSetup.    *)
(***************************************************************************)
EXTENDS Naturals, Sequences

CONSTANTS
  RouteHandles,   \* the lidars on the network
  InFile,         \* those of them in the configuration file
  Entries,        \* kMaxSourceLidar
  MaxRing         \* bound: frames that wait at an entry

ASSUME RouteAssumption ==
  /\ InFile \subseteq RouteHandles /\ 0 \notin RouteHandles
  /\ Entries \in Nat \ {0} /\ MaxRing \in Nat

VARIABLES
  use_multi_topic_, transfer_format_,   \* multi_topic and xfer_format
  map_index_, index_cache_,      \* CacheIndex
  deviceHandle,                  \* lidars_[i].handle
  routeSampling,                 \* the entries whose lidar is sampling
  ring,                          \* the frames that wait at each entry
  storingFrame,                  \* the frame StoragePointData holds, and its entry
  takenFrame,                    \* the frame the poll thread holds, and its entry
  private_pub_,                  \* the lidar each entry's topic is named after
  message                        \* the last message

cacheVars == <<map_index_, index_cache_, deviceHandle>>
routeVars == <<use_multi_topic_, transfer_format_, cacheVars, routeSampling, ring, storingFrame,
               takenFrame, private_pub_, message>>

Formats == {"PointCloud2", "CustomMsg", "PclPxyzi"}
Indices == 0..Entries - 1
NoIndex == Entries
NoHandle == 0              \* the value a handle is initialised with
NoTopic == <<>>            \* a publisher not made yet
NoFrame == <<>>
Shared == <<>>             \* livox/lidar, the topic of all lidars

-----------------------------------------------------------------------------
(* CacheIndex and the entries *)

Free(i) == i \notin index_cache_

\* Faulty: the entry is not marked as taken.
Faulty_GetFreeIndex(h, i) ==
  /\ map_index_[h] = NoIndex
  /\ Free(i) /\ \A j \in 0..i - 1 : ~Free(j)
  /\ map_index_' = [map_index_ EXCEPT ![h] = i]
  /\ UNCHANGED index_cache_

\* The first entry that is free; a lidar that has one keeps it.
GetFreeIndex(h, i) ==
  /\ map_index_[h] = NoIndex
  /\ Free(i) /\ \A j \in 0..i - 1 : ~Free(j)
  /\ map_index_' = [map_index_ EXCEPT ![h] = i]
  /\ index_cache_' = index_cache_ \cup {i}

\* InitLivoxLidar: an entry for a lidar of the configuration file.
InitDevice(h, i) ==
  /\ h \in InFile
  /\ GetFreeIndex(h, i)
  /\ deviceHandle' = [deviceHandle EXCEPT ![i] = h]
  /\ UNCHANGED <<use_multi_topic_, transfer_format_, routeSampling, ring, storingFrame, takenFrame,
                 private_pub_, message>>

\* LidarInfoChangeCallback: an entry for any other lidar, whose handle is not set.
AddDevice(h, i) ==
  /\ h \notin InFile
  /\ \A k \in InFile : map_index_[k] # NoIndex \/ \A j \in Indices : ~Free(j)
  /\ GetFreeIndex(h, i)
  /\ UNCHANGED <<use_multi_topic_, transfer_format_, deviceHandle, routeSampling, ring, storingFrame,
                 takenFrame, private_pub_, message>>

\* The end of the handshake; a lidar that is not in the file comes to it when it is
\* announced a second time (LidarSetup).
RouteSampling(h) ==
  /\ map_index_[h] # NoIndex
  /\ routeSampling' = routeSampling \cup {map_index_[h]}
  /\ UNCHANGED <<use_multi_topic_, transfer_format_, cacheVars, ring, storingFrame, takenFrame,
                 private_pub_, message>>

-----------------------------------------------------------------------------
(* StoragePointData, in the PubHandler thread *)

\* A frame of a lidar without an entry is dropped.
GetIndex(h) ==
  /\ storingFrame = NoFrame
  /\ map_index_[h] # NoIndex
  /\ storingFrame' = <<h, map_index_[h]>>
  /\ UNCHANGED <<use_multi_topic_, transfer_format_, cacheVars, routeSampling, ring, takenFrame,
                 private_pub_, message>>

PushFrame ==
  /\ storingFrame # NoFrame
  /\ LET i == storingFrame[2] IN
     ring' = [ring EXCEPT ![i] = IF Len(@) < MaxRing THEN Append(@, storingFrame[1]) ELSE @]
  /\ storingFrame' = NoFrame
  /\ UNCHANGED <<use_multi_topic_, transfer_format_, cacheVars, routeSampling, takenFrame,
                 private_pub_, message>>

-----------------------------------------------------------------------------
(* PublishPointcloud2, PublishCustomPointcloud and PublishPclMsg, in the poll thread *)

\* PublishPclMsg takes nothing: its format does not exist in ROS 2.
PopFrame(i) ==
  /\ takenFrame = NoFrame
  /\ transfer_format_ # "PclPxyzi"
  /\ i \in routeSampling /\ ring[i] # <<>>
  /\ takenFrame' = <<Head(ring[i]), i>>
  /\ ring' = [ring EXCEPT ![i] = Tail(@)]
  /\ UNCHANGED <<use_multi_topic_, transfer_format_, cacheVars, routeSampling, storingFrame,
                 private_pub_, message>>

\* GetCurrentPublisher: one topic, or one for each entry.
TopicOf(i) ==
  IF private_pub_[i] = NoTopic THEN <<deviceHandle[i]>> ELSE private_pub_[i]

\* InitPointcloud2Msg: the points, and no label but the topic.
PointCloud2(frame, topic) == [points |-> frame[1], topic |-> topic, lidar_id |-> <<>>]

\* InitCustomMsg and FillPointsToCustomMsg: the handle of the entry as well.
CustomMsg(frame, topic) ==
  [points |-> frame[1], topic |-> topic, lidar_id |-> <<deviceHandle[frame[2]]>>]

\* The publisher of an entry is made with its first message.
PublishFrame ==
  /\ takenFrame # NoFrame
  /\ LET i == takenFrame[2]
         topic == IF use_multi_topic_ THEN TopicOf(i) ELSE Shared
     IN
     /\ private_pub_' = IF use_multi_topic_ THEN [private_pub_ EXCEPT ![i] = topic]
                        ELSE private_pub_
     /\ message' = IF transfer_format_ = "CustomMsg" THEN CustomMsg(takenFrame, topic)
                   ELSE PointCloud2(takenFrame, topic)
  /\ takenFrame' = NoFrame
  /\ UNCHANGED <<use_multi_topic_, transfer_format_, cacheVars, routeSampling, ring,
                 storingFrame>>

-----------------------------------------------------------------------------

RouteInit ==
  /\ use_multi_topic_ \in BOOLEAN /\ transfer_format_ \in Formats
  /\ map_index_ = [h \in RouteHandles |-> NoIndex]
  /\ index_cache_ = {}
  /\ deviceHandle = [i \in Indices |-> NoHandle]
  /\ routeSampling = {}
  /\ ring = [i \in Indices |-> <<>>]
  /\ storingFrame = NoFrame /\ takenFrame = NoFrame
  /\ private_pub_ = [i \in Indices |-> NoTopic]
  /\ message = <<>>

RouteNext ==
  \/ \E h \in RouteHandles :
       \/ \E i \in Indices : InitDevice(h, i) \/ AddDevice(h, i)
       \/ RouteSampling(h) \/ GetIndex(h)
  \/ PushFrame
  \/ \E i \in Indices : PopFrame(i)
  \/ PublishFrame

RouteSpec == RouteInit /\ [][RouteNext]_routeVars

-----------------------------------------------------------------------------
(* Properties *)

\* A frame of a lidar of the configuration file is published under its own handle
\* and, with multi_topic, on its own topic, although the label is read from the
\* entry long after the frame was stored there (lddc.cpp:360-365, 656-665).
Attributed ==
  (message # <<>> /\ message.points \in InFile) =>
    /\ message.topic \in {<<message.points>>, Shared}
    /\ message.lidar_id \in {<<message.points>>, <<>>}

\* README.md:147: "1 -- Each LiDAR device has its own topic to publish point cloud
\* data".
OwnTopic ==
  \A i, j \in Indices :
    private_pub_[i] # NoTopic /\ private_pub_[i] = private_pub_[j] => i = j
=============================================================================
