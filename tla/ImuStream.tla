------------------------------ MODULE ImuStream ------------------------------
(***************************************************************************)
(* The way of an IMU sample through livox_ros_driver2: the SDK's thread    *)
(* appends it to the list of its lidar (Lds::StorageImuData), the IMU poll *)
(* thread of the node publishes it (Lddc::DistributeImuData).  Unlike the  *)
(* ring of LidarStream the list has a lock and no limit; the semaphore is  *)
(* handled the same way, its count read without its lock.                  *)
(*                                                                         *)
(* A sample is its number modulo SampleSpan, which tells the samples of    *)
(* one list apart.                                                         *)
(***************************************************************************)
EXTENDS Naturals, Sequences

CONSTANTS
  ImuCount,      \* entries of lidars_ that are in use
  MaxImuQueue,   \* bound: samples of a lidar that wait
  SampleSpan,    \* bound: numbers of samples
  MaxImuBurst    \* bound: samples that arrive while one lidar is polled

ASSUME ImuAssumption ==
  /\ ImuCount \in Nat /\ MaxImuQueue \in Nat /\ SampleSpan \in Nat /\ SampleSpan > MaxImuQueue
  /\ MaxImuBurst \in Nat

ImuLidars == 1..ImuCount

VARIABLES
  imuSampling,                  \* connect_state = kConnectStateSampling
  imu_data_queue_, nextSample,  \* the lists, the number of the next sample
  imu_semaphore_,
  imuStoring, storingLidar,     \* where StorageImuData is, and for which lidar
  imuPolling, imuCurrent,       \* where the poll thread is, and at which lidar
  imuBurst,                     \* samples since it polls this lidar
  imuExit                       \* request_exit_ and exit_signal_

listVars == <<imu_data_queue_, nextSample>>
storeVars == <<imuStoring, storingLidar>>
imuPollVars == <<imuPolling, imuCurrent, imuBurst>>
imuVars == <<imuSampling, listVars, imu_semaphore_, storeVars, imuPollVars, imuExit>>

-----------------------------------------------------------------------------
(* StorageImuData, in the SDK's thread *)

\* Samples are rare: few come while the poll thread is busy with one lidar.
RareSample ==
  /\ imuPolling = "drain" => imuBurst < MaxImuBurst
  /\ imuBurst' = IF imuPolling = "drain" THEN imuBurst + 1 ELSE imuBurst

ImuPush(l) ==
  /\ imuStoring = "idle"
  /\ RareSample
  /\ Len(imu_data_queue_[l]) < MaxImuQueue
  /\ imu_data_queue_' = [imu_data_queue_ EXCEPT ![l] = Append(@, nextSample[l])]
  /\ nextSample' = [nextSample EXCEPT ![l] = (@ + 1) % SampleSpan]
  /\ imuStoring' = "pushed" /\ storingLidar' = l
  /\ UNCHANGED <<imuSampling, imu_semaphore_, imuPolling, imuCurrent, imuExit>>

\* The poll thread may have taken the sample already.
ImuEmpty ==
  /\ imuStoring = "pushed"
  /\ imuStoring' = IF imu_data_queue_[storingLidar] = <<>> THEN "idle" ELSE "count"
  /\ UNCHANGED <<imuSampling, listVars, imu_semaphore_, storingLidar, imuPollVars, imuExit>>

\* Faulty: the token is skipped while another sample waits.
Faulty_ImuGetCount ==
  /\ imuStoring = "count"
  /\ imuStoring' = IF Len(imu_data_queue_[storingLidar]) > 1 THEN "idle" ELSE "signal"
  /\ UNCHANGED <<imuSampling, listVars, imu_semaphore_, storingLidar, imuPollVars, imuExit>>

ImuGetCount ==
  /\ imuStoring = "count"
  /\ imuStoring' = IF imu_semaphore_ > 0 THEN "idle" ELSE "signal"
  /\ UNCHANGED <<imuSampling, listVars, imu_semaphore_, storingLidar, imuPollVars, imuExit>>

ImuSignal ==
  /\ imuStoring = "signal"
  /\ imu_semaphore_' = imu_semaphore_ + 1
  /\ imuStoring' = "idle"
  /\ UNCHANGED <<imuSampling, listVars, storingLidar, imuPollVars, imuExit>>

\* The end of the handshake (LidarSetup).
ImuSamples(l) ==
  /\ ~imuSampling[l]
  /\ imuSampling' = [imuSampling EXCEPT ![l] = TRUE]
  /\ UNCHANGED <<listVars, imu_semaphore_, storeVars, imuPollVars, imuExit>>

-----------------------------------------------------------------------------
(* ImuDataPollThread *)

DistributeImuData ==
  /\ imuPolling = "top"
  /\ imuPolling' = IF imuExit THEN "exited" ELSE "wait"
  /\ UNCHANGED <<imuSampling, listVars, imu_semaphore_, storeVars, imuCurrent, imuBurst, imuExit>>

ImuWait ==
  /\ imuPolling = "wait" /\ imu_semaphore_ > 0
  /\ imu_semaphore_' = imu_semaphore_ - 1
  /\ imuPolling' = "scan" /\ imuCurrent' = 1
  /\ UNCHANGED <<imuSampling, listVars, storeVars, imuBurst, imuExit>>

ImuNextLidar ==
  imuPolling' = "scan" /\ imuCurrent' = imuCurrent + 1 /\ imuBurst' = 0

\* A lidar that is not sampling keeps its samples.
ScanImuLidar ==
  /\ imuPolling = "scan" /\ imuCurrent \in ImuLidars
  /\ \/ imuSampling[imuCurrent] /\ imuPolling' = "drain" /\ UNCHANGED <<imuCurrent, imuBurst>>
     \/ ~imuSampling[imuCurrent] /\ ImuNextLidar
  /\ UNCHANGED <<imuSampling, listVars, imu_semaphore_, storeVars, imuExit>>

\* Pop and the publication of what it took.
PublishImuData(l) == imu_data_queue_' = [imu_data_queue_ EXCEPT ![l] = Tail(@)]

\* Nothing can empty the list between Empty and Pop: only this thread pops.
PollingLidarImuData ==
  /\ imuPolling = "drain"
  /\ \/ /\ imuExit \/ imu_data_queue_[imuCurrent] = <<>>
        /\ ImuNextLidar
        /\ UNCHANGED imu_data_queue_
     \/ /\ ~imuExit /\ imu_data_queue_[imuCurrent] # <<>>
        /\ PublishImuData(imuCurrent)
        /\ UNCHANGED imuPollVars
  /\ UNCHANGED <<imuSampling, nextSample, imu_semaphore_, storeVars, imuExit>>

ScanImuDone ==
  /\ imuPolling = "scan" /\ imuCurrent \notin ImuLidars
  /\ imuPolling' = IF imuExit THEN "exited" ELSE "top"
  /\ UNCHANGED <<imuSampling, listVars, imu_semaphore_, storeVars, imuCurrent, imuBurst, imuExit>>

\* ~DriverNode.
ImuRequestExit ==
  /\ ~imuExit
  /\ imuExit' = TRUE
  /\ UNCHANGED <<imuSampling, listVars, imu_semaphore_, storeVars, imuPollVars>>

-----------------------------------------------------------------------------

ImuInit ==
  /\ imuSampling = [l \in ImuLidars |-> FALSE]
  /\ imu_data_queue_ = [l \in ImuLidars |-> <<>>]
  /\ nextSample = [l \in ImuLidars |-> 0]
  /\ imu_semaphore_ = 0
  /\ imuStoring = "idle" /\ storingLidar = 1
  /\ imuPolling = "top" /\ imuCurrent = 1 /\ imuBurst = 0
  /\ imuExit = FALSE

StorageImuData == ImuEmpty \/ ImuGetCount \/ ImuSignal
ImuPoll ==
  DistributeImuData \/ ImuWait \/ ScanImuLidar \/ PollingLidarImuData \/ ScanImuDone

ImuNext ==
  \/ \E l \in ImuLidars : ImuPush(l) \/ ImuSamples(l)
  \/ StorageImuData \/ ImuPoll \/ ImuRequestExit

ImuSpec == ImuInit /\ [][ImuNext]_imuVars

\* The two threads run; no further sample is promised.
ImuFairness == WF_imuVars(StorageImuData) /\ WF_imuVars(ImuPoll)

-----------------------------------------------------------------------------
(* Properties *)

\* The values of the lists, the semaphore and the threads.
ImuTypeOK ==
  /\ imuSampling \in [ImuLidars -> BOOLEAN]
  /\ imu_data_queue_ \in [ImuLidars -> Seq(0..SampleSpan - 1)]
  /\ nextSample \in [ImuLidars -> 0..SampleSpan - 1]
  /\ imu_semaphore_ \in Nat
  /\ imuStoring \in {"idle", "pushed", "count", "signal"}
  /\ storingLidar \in ImuLidars \cup {1}
  /\ imuPolling \in {"top", "wait", "scan", "drain", "exited"}
  /\ imuCurrent \in 1..ImuCount + 1 /\ imuBurst \in 0..MaxImuBurst
  /\ imuExit \in BOOLEAN

\* The last sample of a sampling lidar is published though none follows it: the
\* reading of the count and the signal are two steps, and the token the reader saw
\* may be the one the poll thread takes in between (lds.cpp:121-125).
ImuPublished ==
  \A l \in ImuLidars : \A s \in 0..SampleSpan - 1 :
    (/\ imuStoring = "pushed" /\ storingLidar = l /\ imuSampling[l]
     /\ imu_data_queue_[l] # <<>> /\ imu_data_queue_[l][Len(imu_data_queue_[l])] = s)
      ~> (imuExit \/ \A i \in DOMAIN imu_data_queue_[l] : imu_data_queue_[l][i] # s)

=============================================================================
