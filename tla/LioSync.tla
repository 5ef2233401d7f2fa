------------------------------- MODULE LioSync -------------------------------
(***************************************************************************)
(* How FAST-LIO pairs the scans of the lidar with the samples of the IMU,  *)
(* and what the filter's clock and the map make of the pairs.  The node    *)
(* has one thread: the callbacks of the two sensors and the timer are      *)
(* steps, in any order.                                                    *)
(*                                                                         *)
(* A sample is its stamp.  A scan is a record of its number, its stamp and *)
(* the offset of its last point (its length); length 0 is a scan with too  *)
(* few points.  Times are small integers.  time_sync_en is false.          *)
(***************************************************************************)
EXTENDS Integers, Sequences, FiniteSets, SequencesExt

CONSTANTS
  MAX_INI_COUNT,  \* samples that initialise the filter
  MaxTime,        \* bound: the last stamp
  MaxLength,      \* bound: the longest scan
  MaxScans,       \* bound: scans of the lidar
  MaxBacklog,     \* bound: scans that wait
  StepBack        \* TRUE when the clocks of the sensors may step back

Times == 0..MaxTime

ASSUME SyncAssumption ==
  /\ MAX_INI_COUNT \in Nat /\ MaxTime \in Nat /\ MaxLength \in Nat
  /\ MaxScans \in Nat /\ MaxBacklog \in Nat /\ StepBack \in BOOLEAN

VARIABLES
  lidar_buffer, time_buffer, imu_buffer,     \* the three deques
  last_timestamp_lidar, last_timestamp_imu,
  scan_count,                                \* the number of the last scan
  lidar_pushed, meas,                        \* the package under construction
  lidar_mean_scantime,
  flg_first_scan, init_iter_num, imu_need_init_,
  last_imu_, last_lidar_end_time_,           \* where the filter's clock stands
  predicted,                                 \* how far the last scan moved it
  feats_undistort, ikdtree,                  \* the cloud, the map
  odometry                                   \* the scan it shows, the scan whose end stamps it

buffers == <<lidar_buffer, time_buffer, imu_buffer>>
inputs == <<last_timestamp_lidar, last_timestamp_imu, scan_count>>
filter == <<init_iter_num, imu_need_init_, last_imu_, last_lidar_end_time_, predicted>>
mapping == <<flg_first_scan, feats_undistort, ikdtree, odometry>>
vars == <<buffers, inputs, lidar_pushed, meas, lidar_mean_scantime, filter, mapping>>

NoScan == [id |-> 0, stamp |-> 0, length |-> 0]

-----------------------------------------------------------------------------
(* The callbacks of the sensors *)

\* Faulty: last_timestamp_lidar is pushed before it is set.
Faulty_livox_pcl_cbk(stamp, length) ==
  LET kept == IF stamp < last_timestamp_lidar THEN <<>> ELSE lidar_buffer IN
  /\ lidar_buffer' = Append(kept, [id |-> scan_count + 1, stamp |-> stamp, length |-> length])
  /\ time_buffer' = Append(time_buffer, last_timestamp_lidar)
  /\ last_timestamp_lidar' = stamp
  /\ scan_count' = scan_count + 1
  /\ UNCHANGED <<imu_buffer, last_timestamp_imu, lidar_pushed, meas, lidar_mean_scantime, filter, mapping>>

\* A stamp that steps back clears lidar_buffer, and lidar_buffer only.
livox_pcl_cbk(stamp, length) ==
  LET kept == IF stamp < last_timestamp_lidar THEN <<>> ELSE lidar_buffer IN
  /\ lidar_buffer' = Append(kept, [id |-> scan_count + 1, stamp |-> stamp, length |-> length])
  /\ time_buffer' = Append(time_buffer, stamp)
  /\ last_timestamp_lidar' = stamp
  /\ scan_count' = scan_count + 1
  /\ UNCHANGED <<imu_buffer, last_timestamp_imu, lidar_pushed, meas, lidar_mean_scantime, filter, mapping>>

\* What the lidar sends: its scans end before the last sample.
Scan ==
  /\ scan_count < MaxScans /\ Len(lidar_buffer) < MaxBacklog
  /\ \E stamp \in 0..MaxTime - MaxLength - 1, length \in 0..MaxLength :
       /\ StepBack \/ stamp >= last_timestamp_lidar
       /\ livox_pcl_cbk(stamp, length)

imu_cbk(stamp) ==
  /\ imu_buffer' = IF stamp < last_timestamp_imu THEN <<stamp>> ELSE Append(imu_buffer, stamp)
  /\ last_timestamp_imu' = stamp
  /\ UNCHANGED <<lidar_buffer, time_buffer, last_timestamp_lidar, scan_count>>
  /\ UNCHANGED <<lidar_pushed, meas, lidar_mean_scantime, filter, mapping>>

\* What the IMU sends.
Sample == \E stamp \in Times : (StepBack \/ stamp > last_timestamp_imu) /\ imu_cbk(stamp)

-----------------------------------------------------------------------------
(* sync_packages *)

\* A scan that is shorter than half the mean is taken to be as long as the mean.
Short(scan) == scan.length = 0 \/ 2 * scan.length < lidar_mean_scantime

EndTime(scan, stamp) == stamp + (IF Short(scan) THEN lidar_mean_scantime ELSE scan.length)

\* The mean moves from its old value towards the new length.
Between(a, b) == {t \in 0..MaxLength : (a <= t /\ t <= b) \/ (b <= t /\ t <= a)}

Pushed ==
  IF lidar_pushed THEN meas
  ELSE [lidar |-> Head(lidar_buffer), lidar_beg_time |-> Head(time_buffer),
        lidar_end_time |-> EndTime(Head(lidar_buffer), Head(time_buffer)), imu |-> meas.imu]

ScanTime ==
  IF lidar_pushed \/ Short(Head(lidar_buffer)) THEN UNCHANGED lidar_mean_scantime
  ELSE lidar_mean_scantime' \in Between(lidar_mean_scantime, Head(lidar_buffer).length)

Ready == lidar_buffer # <<>> /\ imu_buffer # <<>>

\* Faulty: the scan does not wait for the samples up to its end.
Faulty_ImuArrived == TRUE

ImuArrived == last_timestamp_imu >= Pushed.lidar_end_time

\* The samples that belong to the package: the loop stops behind the end of the scan,
\* and at the first sample when that one is at the end.
Taken(end) ==
  {i \in DOMAIN imu_buffer :
     /\ imu_buffer[1] < end /\ imu_buffer[i] <= end
     /\ \A j \in 1..i - 1 : imu_buffer[j] < end}
NumTaken(end) == Cardinality(Taken(end))

\* The scan is at hand, its samples are not.
Waiting ==
  /\ Ready /\ ~ImuArrived
  /\ ScanTime
  /\ meas' = Pushed
  /\ lidar_pushed' = TRUE
  /\ UNCHANGED <<buffers, inputs, filter, mapping>>

\* Faulty: a scan without samples is kept for the next ones.
Faulty_PopPackage ==
  LET n == NumTaken(Pushed.lidar_end_time) IN
  /\ meas' = [Pushed EXCEPT !.imu = SubSeq(imu_buffer, 1, n)]
  /\ imu_buffer' = SubSeq(imu_buffer, n + 1, Len(imu_buffer))
  /\ lidar_buffer' = IF n = 0 THEN lidar_buffer ELSE Tail(lidar_buffer)
  /\ time_buffer' = IF n = 0 THEN time_buffer ELSE Tail(time_buffer)
  /\ lidar_pushed' = FALSE
  /\ UNCHANGED inputs

PopPackage ==
  LET n == NumTaken(Pushed.lidar_end_time) IN
  /\ meas' = [Pushed EXCEPT !.imu = SubSeq(imu_buffer, 1, n)]
  /\ imu_buffer' = SubSeq(imu_buffer, n + 1, Len(imu_buffer))
  /\ lidar_buffer' = Tail(lidar_buffer)
  /\ time_buffer' = Tail(time_buffer)
  /\ lidar_pushed' = FALSE
  /\ UNCHANGED inputs

Synced == Ready /\ ImuArrived /\ ScanTime /\ PopPackage

-----------------------------------------------------------------------------
(* ImuProcess *)

IMU_init ==
  /\ last_imu_' = Last(meas'.imu)
  /\ init_iter_num' = init_iter_num + Len(meas'.imu)
  /\ imu_need_init_' = (init_iter_num' <= MAX_INI_COUNT)
  /\ UNCHANGED <<last_lidar_end_time_, predicted, feats_undistort>>

\* Faulty: a sample before the end of the last scan counts from its own stamp.
Faulty_Step(head, tail) == IF tail < last_lidar_end_time_ THEN 0 ELSE tail - head

\* How far the filter goes from one sample to the next: the part of it that was not
\* covered by the last scan.
Step(head, tail) ==
  IF tail < last_lidar_end_time_ THEN 0
  ELSE IF head < last_lidar_end_time_ THEN tail - last_lidar_end_time_
  ELSE tail - head

Distance(a, b) == IF a > b THEN a - b ELSE b - a

\* Faulty: an empty scan leaves the cloud of the last one.
Faulty_UndistortPcl ==
  LET v_imu == <<last_imu_>> \o meas'.imu
      step == [i \in 1..Len(meas'.imu) |-> Step(v_imu[i], v_imu[i + 1])] IN
  /\ predicted' = FoldSeq(+, 0, step) + Distance(meas'.lidar_end_time, Last(v_imu))
  /\ feats_undistort' = IF meas'.lidar.length = 0 THEN feats_undistort ELSE meas'.lidar
  /\ last_imu_' = Last(meas'.imu)
  /\ last_lidar_end_time_' = meas'.lidar_end_time
  /\ UNCHANGED <<init_iter_num, imu_need_init_>>

UndistortPcl ==
  LET v_imu == <<last_imu_>> \o meas'.imu
      step == [i \in 1..Len(meas'.imu) |-> Step(v_imu[i], v_imu[i + 1])] IN
  /\ predicted' = FoldSeq(+, 0, step) + Distance(meas'.lidar_end_time, Last(v_imu))
  /\ feats_undistort' = meas'.lidar
  /\ last_imu_' = Last(meas'.imu)
  /\ last_lidar_end_time_' = meas'.lidar_end_time
  /\ UNCHANGED <<init_iter_num, imu_need_init_>>

\* A package without samples leaves the filter and the cloud as they were.
Process ==
  \/ meas'.imu = <<>> /\ UNCHANGED <<filter, feats_undistort>>
  \/ meas'.imu # <<>> /\ imu_need_init_ /\ IMU_init
  \/ meas'.imu # <<>> /\ ~imu_need_init_ /\ UndistortPcl

-----------------------------------------------------------------------------
(* timer_callback *)

NoPackage == ~Ready /\ UNCHANGED vars

\* The first package is only looked at.
FirstScan ==
  /\ flg_first_scan /\ Synced
  /\ flg_first_scan' = FALSE
  /\ UNCHANGED <<filter, feats_undistort, ikdtree, odometry>>

\* No point, skip this scan: also when fewer than five are left of the cloud.
SkipScan == UNCHANGED <<ikdtree, odometry>>

BuildMap ==
  /\ ~ikdtree /\ ikdtree' = TRUE
  /\ UNCHANGED odometry

publish_odometry ==
  /\ ikdtree
  /\ odometry' = [scan |-> feats_undistort'.id, at |-> meas'.lidar.id]
  /\ UNCHANGED ikdtree

Package ==
  /\ ~flg_first_scan /\ Synced
  /\ UNCHANGED flg_first_scan
  /\ Process
  /\ \/ SkipScan
     \/ feats_undistort'.length > 0 /\ (BuildMap \/ publish_odometry)

timer_callback == NoPackage \/ Waiting \/ FirstScan \/ Package

-----------------------------------------------------------------------------
\* Nothing sets last_lidar_end_time_ before the first scan is undistorted: it is below
\* or above every stamp.
Init ==
  /\ lidar_buffer = <<>> /\ time_buffer = <<>> /\ imu_buffer = <<>>
  /\ last_timestamp_lidar = 0 /\ last_timestamp_imu = -1
  /\ scan_count = 0
  /\ lidar_pushed = FALSE
  /\ meas = [lidar |-> NoScan, lidar_beg_time |-> 0, lidar_end_time |-> 0, imu |-> <<>>]
  /\ lidar_mean_scantime = 0
  /\ flg_first_scan = TRUE /\ init_iter_num = 1 /\ imu_need_init_ = TRUE
  /\ last_imu_ = 0 /\ last_lidar_end_time_ \in {0, MaxTime}
  /\ predicted = 0
  /\ feats_undistort = NoScan /\ ikdtree = FALSE
  /\ odometry = [scan |-> 0, at |-> 0]

Next == Scan \/ Sample \/ timer_callback

Spec == Init /\ [][Next]_vars

\* The timer runs, and the IMU goes on sending samples.
FairSpec == Spec /\ WF_vars(timer_callback) /\ WF_vars(Sample)

-----------------------------------------------------------------------------
(* Properties *)

Scans == [id : 0..MaxScans, stamp : Times, length : 0..MaxLength]
EndTimes == 0..MaxTime + MaxLength
Packages == [lidar : Scans, lidar_beg_time : Times, lidar_end_time : EndTimes, imu : Seq(Times)]

\* The values of the buffers, the package and the filter's clock.
TypeOK ==
  /\ lidar_buffer \in Seq(Scans) /\ time_buffer \in Seq(Times) /\ imu_buffer \in Seq(Times)
  /\ last_timestamp_lidar \in Times /\ last_timestamp_imu \in Times \cup {-1}
  /\ scan_count \in 0..MaxScans
  /\ lidar_pushed \in BOOLEAN /\ meas \in Packages
  /\ lidar_mean_scantime \in 0..MaxLength
  /\ flg_first_scan \in BOOLEAN /\ init_iter_num \in Nat /\ imu_need_init_ \in BOOLEAN
  /\ last_imu_ \in Times /\ last_lidar_end_time_ \in EndTimes
  /\ feats_undistort \in Scans /\ ikdtree \in BOOLEAN
  /\ odometry \in [scan : 0..MaxScans, at : 0..MaxScans]

\* A scan is processed with its own stamp: the two deques stay in step, whatever is
\* dropped or delayed (laserMapping.cpp:392-393 and :431-432).
StampsPaired == meas.lidar.stamp = meas.lidar_beg_time

\* Between two packages, the end of the last one divides the samples: those of the
\* package are not later, and none that came or still comes is earlier, so that no
\* sample is counted for the wrong scan (laserMapping.cpp:415-429).
ImuSplit ==
  ~lidar_pushed =>
    /\ \A i \in DOMAIN meas.imu : meas.imu[i] <= meas.lidar_end_time
    /\ \A i \in DOMAIN imu_buffer : imu_buffer[i] >= meas.lidar_end_time

\* From one undistorted scan to the next the filter is moved by exactly the time
\* between their ends, also when packages without samples came between them and
\* although every sample pair straddles some boundary (IMU_Processing.hpp:241-299).
PropagationExact ==
  [][feats_undistort' # feats_undistort /\ feats_undistort # NoScan
       => predicted' = last_lidar_end_time_' - last_lidar_end_time_]_vars

\* The odometry goes forward, and it shows the scan whose end it is stamped with; only
\* when the package had no sample does it show an older one again, because Process
\* returns at once and the cloud of the scan before is still there
\* (IMU_Processing.hpp:344, laserMapping.cpp:979-987).
StaleOnlyWithoutImu ==
  [][odometry' # odometry
       => /\ odometry'.at > odometry.at /\ odometry'.scan >= odometry.scan
          /\ odometry'.scan = odometry'.at \/ meas'.imu = <<>>]_vars

\* Every scan leaves the buffer while the IMU goes on.
ScansDrain ==
  \A n \in 1..MaxScans :
    lidar_buffer # <<>> /\ Head(lidar_buffer).id = n ~> lidar_buffer = <<>> \/ Head(lidar_buffer).id # n
=============================================================================
