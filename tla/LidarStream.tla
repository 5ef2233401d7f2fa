---------------------------- MODULE LidarStream -----------------------------
(***************************************************************************)
(* The way of a point cloud frame through livox_ros_driver2, from the      *)
(* thread of PubHandler that completes it (Lds::StoragePointData) to the   *)
(* poll thread of the node that publishes it (DistributePointCloudData),   *)
(* and the destructor of the node that stops the poll thread.              *)
(*                                                                         *)
(* The ring of each lidar has no lock: its indices are volatile words, and *)
(* only the semaphore makes the threads wait.  A store of wr_idx may stay  *)
(* in the store buffer of its processor until the thread takes a lock:     *)
(* wrSeen is what the other thread reads.  Stores become visible in        *)
(* program order (x86).  A frame is a member of a small set.               *)
(***************************************************************************)
EXTENDS Naturals, Sequences

CONSTANTS
  LidarCount,   \* entries of lidars_ that are in use
  QueueSize,    \* packets in a ring, a power of two
  IndexSpan,    \* 2^32, the span of rd_idx and wr_idx
  Packets,      \* the frames
  MaxBurst      \* bound: frames that arrive while one lidar is polled

Lidars == 1..LidarCount

ASSUME StreamAssumption ==
  /\ LidarCount \in Nat /\ QueueSize \in Nat \ {0}
  /\ IndexSpan \in Nat /\ IndexSpan > QueueSize /\ IndexSpan % QueueSize = 0
  /\ Packets # {} /\ MaxBurst \in Nat

VARIABLES
  connect_state,                        \* which lidars are sampling
  storage_packet, wr_idx, rd_idx,       \* the rings
  wrSeen,                               \* wr_idx as the poll thread sees it
  count_,                               \* pcd_semaphore_
  request_exit_, exit_signal_,          \* the two exit flags
  storing,                              \* where the PubHandler thread is
  polling, current, pkg, burst,         \* where the poll thread is
  published,                            \* the last frame published
  destructor                            \* where ~DriverNode is

ringVars == <<storage_packet, wr_idx, rd_idx, wrSeen>>
pollVars == <<polling, current, pkg, burst, published>>
exitVars == <<request_exit_, exit_signal_, destructor>>
vars == <<connect_state, ringVars, count_, storing, pollVars, exitVars>>

-----------------------------------------------------------------------------
(* ldq.cpp *)

NoStorage == <<>>
NoPacket == <<>>
Slots == 0..QueueSize - 1

\* Faulty: a ring that holds a packet more than it has slots.
Faulty_QueueIsFull(l) == (wr_idx[l] + IndexSpan - rd_idx[l]) % IndexSpan > QueueSize

QueueUsedSize(l) == (wr_idx[l] + IndexSpan - rd_idx[l]) % IndexSpan
QueueIsFull(l) == QueueUsedSize(l) > QueueSize - 1
SeenEmpty(l) == rd_idx[l] = wrSeen[l]

\* The ring is allocated when the first frame comes.
QueuePushAny(l, p) ==
  LET ring == IF storage_packet[l] = NoStorage THEN [i \in Slots |-> p] ELSE storage_packet[l] IN
  /\ storage_packet' = [storage_packet EXCEPT ![l] = [ring EXCEPT ![wr_idx[l] % QueueSize] = p]]
  /\ wr_idx' = [wr_idx EXCEPT ![l] = (@ + 1) % IndexSpan]
  /\ UNCHANGED <<rd_idx, wrSeen>>

-----------------------------------------------------------------------------
(* The PubHandler thread: PushLidarData *)

BeingPolled == polling \in {"outer", "inner", "popped"}

\* Frames are rare: few come while the poll thread is busy with one lidar.
Rare == burst' = IF BeingPolled THEN burst + 1 ELSE burst

PushLidarData(l, p) ==
  /\ storing = "idle"
  /\ BeingPolled => burst < MaxBurst
  /\ Rare
  /\ ~QueueIsFull(l)
  /\ QueuePushAny(l, p)
  /\ storing' = "stored"
  /\ UNCHANGED <<connect_state, count_, polling, current, pkg, published, exitVars>>

\* Faulty: a frame that is dropped wakes nobody.
Faulty_DropFrame(l) ==
  /\ storing = "idle"
  /\ BeingPolled => burst < MaxBurst
  /\ Rare
  /\ QueueIsFull(l)
  /\ UNCHANGED <<connect_state, ringVars, count_, storing, polling, current, pkg, published, exitVars>>

DropFrame(l) ==
  /\ storing = "idle"
  /\ BeingPolled => burst < MaxBurst
  /\ Rare
  /\ QueueIsFull(l)
  /\ storing' = "stored"
  /\ UNCHANGED <<connect_state, ringVars, count_, polling, current, pkg, published, exitVars>>

\* Faulty: every frame brings a token.
Faulty_GetCount ==
  /\ storing = "stored"
  /\ storing' = "signal"
  /\ UNCHANGED <<connect_state, ringVars, count_, pollVars, exitVars>>

\* GetCount takes no lock: the poll thread may take the token before Signal runs.
GetCount ==
  /\ storing = "stored"
  /\ storing' = IF count_ <= 0 THEN "signal" ELSE "idle"
  /\ UNCHANGED <<connect_state, ringVars, count_, pollVars, exitVars>>

Signal ==
  /\ storing = "signal"
  /\ count_' = count_ + 1
  /\ wrSeen' = wr_idx
  /\ storing' = "idle"
  /\ UNCHANGED <<connect_state, storage_packet, wr_idx, rd_idx, pollVars, exitVars>>

\* The store buffer drains.
Flush ==
  /\ wrSeen # wr_idx
  /\ wrSeen' = wr_idx
  /\ UNCHANGED <<connect_state, storage_packet, wr_idx, rd_idx, count_, storing, pollVars, exitVars>>

\* Of the SDK thread's handshake (LidarSetup) the stream sees its end.
Sampling(l) ==
  /\ ~connect_state[l]
  /\ connect_state' = [connect_state EXCEPT ![l] = TRUE]
  /\ UNCHANGED <<ringVars, count_, storing, pollVars, exitVars>>

-----------------------------------------------------------------------------
(* The poll thread: PointCloudDataPollThread *)

PollStep == UNCHANGED <<connect_state, storage_packet, wr_idx, wrSeen, storing, exitVars>>

DistributePointCloudData ==
  /\ polling = "top"
  /\ polling' = IF request_exit_ THEN "status" ELSE "wait"
  /\ UNCHANGED <<rd_idx, count_, current, pkg, burst, published>>
  /\ PollStep

\* The thread waits here without looking at request_exit_.
Wait ==
  /\ polling = "wait" /\ count_ > 0
  /\ count_' = count_ - 1
  /\ polling' = "scan" /\ current' = 1
  /\ UNCHANGED <<rd_idx, pkg, burst, published>>
  /\ PollStep

NextLidar ==
  /\ polling' = "scan" /\ current' = current + 1
  /\ burst' = 0

Polled(l) == connect_state[l] /\ storage_packet[l] # NoStorage

ScanLidar ==
  /\ polling = "scan" /\ current \in Lidars
  /\ \/ Polled(current) /\ polling' = "outer" /\ UNCHANGED <<current, burst>>
     \/ ~Polled(current) /\ NextLidar
  /\ UNCHANGED <<rd_idx, count_, pkg, published>>
  /\ PollStep

ScanDone ==
  /\ polling = "scan" /\ current \notin Lidars
  /\ polling' = "status"
  /\ UNCHANGED <<rd_idx, count_, current, pkg, burst, published>>
  /\ PollStep

PollingLidarPointCloudData ==
  /\ polling = "outer"
  /\ \/ (request_exit_ \/ SeenEmpty(current)) /\ NextLidar
     \/ ~request_exit_ /\ ~SeenEmpty(current) /\ polling' = "inner" /\ UNCHANGED <<current, burst>>
  /\ UNCHANGED <<rd_idx, count_, pkg, published>>
  /\ PollStep

\* The loop of the publisher empties the ring without looking at request_exit_.
QueuePrePop ==
  /\ polling = "inner"
  /\ \/ SeenEmpty(current) /\ polling' = "outer" /\ UNCHANGED pkg
     \/ /\ ~SeenEmpty(current)
        /\ pkg' = storage_packet[current][rd_idx[current] % QueueSize]
        /\ polling' = "popped"
  /\ UNCHANGED <<rd_idx, count_, current, burst, published>>
  /\ PollStep

QueuePopUpdate ==
  /\ polling = "popped"
  /\ rd_idx' = [rd_idx EXCEPT ![current] = (@ + 1) % IndexSpan]
  /\ published' = [published EXCEPT ![current] = pkg]
  /\ polling' = "inner"
  /\ pkg' = NoPacket
  /\ UNCHANGED <<count_, current, burst>>
  /\ PollStep

PollStatus ==
  /\ polling = "status"
  /\ polling' = IF exit_signal_ THEN "exited" ELSE "top"
  /\ UNCHANGED <<rd_idx, count_, current, pkg, burst, published>>
  /\ PollStep

Poll ==
  \/ DistributePointCloudData \/ Wait \/ ScanLidar \/ ScanDone
  \/ PollingLidarPointCloudData \/ QueuePrePop \/ QueuePopUpdate \/ PollStatus

-----------------------------------------------------------------------------
(* ~DriverNode *)

RequestExit ==
  /\ destructor = "up" /\ destructor' = "requested"
  /\ request_exit_' = TRUE
  /\ UNCHANGED exit_signal_
  /\ UNCHANGED <<connect_state, ringVars, count_, storing, pollVars>>

\* Faulty: the promise is forgotten.
Faulty_SetValue ==
  /\ destructor = "requested" /\ destructor' = "joining"
  /\ UNCHANGED <<request_exit_, exit_signal_>>
  /\ UNCHANGED <<connect_state, ringVars, count_, storing, pollVars>>

SetValue ==
  /\ destructor = "requested" /\ destructor' = "joining"
  /\ exit_signal_' = TRUE
  /\ UNCHANGED request_exit_
  /\ UNCHANGED <<connect_state, ringVars, count_, storing, pollVars>>

Join ==
  /\ destructor = "joining" /\ polling = "exited"
  /\ destructor' = "joined"
  /\ UNCHANGED <<request_exit_, exit_signal_>>
  /\ UNCHANGED <<connect_state, ringVars, count_, storing, pollVars>>

-----------------------------------------------------------------------------
Init ==
  /\ connect_state = [l \in Lidars |-> FALSE]
  /\ storage_packet = [l \in Lidars |-> NoStorage]
  /\ wr_idx = [l \in Lidars |-> 0] /\ rd_idx = [l \in Lidars |-> 0]
  /\ wrSeen = [l \in Lidars |-> 0]
  /\ count_ = 0
  /\ request_exit_ = FALSE /\ exit_signal_ = FALSE
  /\ storing = "idle"
  /\ polling = "top" /\ current = 1 /\ burst = 0
  /\ pkg = NoPacket
  /\ published = [l \in Lidars |-> NoPacket]
  /\ destructor = "up"

Frame(l) == DropFrame(l) \/ \E p \in Packets : PushLidarData(l, p)

Next ==
  \/ \E l \in Lidars : Frame(l) \/ Sampling(l)
  \/ GetCount \/ Signal \/ Flush
  \/ Poll
  \/ RequestExit \/ SetValue \/ Join

Spec == Init /\ [][Next]_vars

\* The threads run, the store buffer drains, every lidar keeps sending frames,
\* and a destructor that began goes on.  Nothing forces the end of the handshake.
Fairness ==
  /\ \A l \in Lidars : SF_vars(Frame(l))
  /\ WF_vars(GetCount) /\ WF_vars(Signal) /\ WF_vars(Flush)
  /\ WF_vars(Poll)
  /\ WF_vars(SetValue) /\ WF_vars(Join)

FairSpec == Spec /\ Fairness

-----------------------------------------------------------------------------
(* Properties *)

\* The values the rings, the semaphore and the threads have.
TypeOK ==
  /\ connect_state \in [Lidars -> BOOLEAN]
  /\ storage_packet \in [Lidars -> [Slots -> Packets] \cup {NoStorage}]
  /\ wr_idx \in [Lidars -> 0..IndexSpan - 1] /\ rd_idx \in [Lidars -> 0..IndexSpan - 1]
  /\ wrSeen \in [Lidars -> 0..IndexSpan - 1]
  /\ count_ \in Nat
  /\ request_exit_ \in BOOLEAN /\ exit_signal_ \in BOOLEAN
  /\ storing \in {"idle", "stored", "signal"}
  /\ polling \in {"top", "wait", "scan", "outer", "inner", "popped", "status", "exited"}
  /\ current \in 1..LidarCount + 1 /\ burst \in 0..MaxBurst
  /\ pkg \in Packets \cup {NoPacket} /\ published \in [Lidars -> Packets \cup {NoPacket}]
  /\ destructor \in {"up", "requested", "joining", "joined"}

\* The rings without a lock are the bounded queues of the conveyor: no frame is
\* overwritten while it waits, torn, published twice or out of order, also when
\* the indices wrap around (ldq.cpp:80-141).
Waiting(l) ==
  [i \in 1..QueueUsedSize(l) |-> storage_packet[l][(rd_idx[l] + i - 1) % QueueSize]]
Abstract == INSTANCE Conveyor WITH
  Capacity <- QueueSize, held <- [l \in Lidars |-> Waiting(l)]
ConveyorSpec == Abstract!Spec

\* The check of the count and the signal are two steps without a common lock, and
\* still no second token is ever there (lds.cpp:185-188).
OneToken == count_ <= 1 /\ (storing = "signal" => count_ = 0)

\* A frame of a sampling lidar is published in the end, although the semaphore
\* holds one token for all lidars, the count is read without a lock and late, and
\* a token may be spent on a lidar that is not sampling yet (lds.cpp:183-195).
FramesPublished ==
  \A l \in Lidars : \A i \in 0..IndexSpan - 1 :
    connect_state[l] /\ rd_idx[l] = i /\ wr_idx[l] # i ~> rd_idx[l] # i \/ request_exit_

\* While frames keep coming, the destructor of the node ends (driver_node.cpp:34-39).
ExitCompletes == request_exit_ ~> destructor = "joined"
=============================================================================
