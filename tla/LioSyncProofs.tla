---------------------------- MODULE LioSyncProofs ----------------------------
(***************************************************************************)
(* What holds of the pairing for any number of scans and samples, any      *)
(* lengths and any backlog.  The theorems about stamps and samples assume  *)
(* that the clocks do not step back; the others do not.                    *)
(***************************************************************************)
EXTENDS LioSync, FiniteSetTheorems, NumberTheorems, TLAPS

\* The two deques hold the same scans.
InStep ==
  /\ lidar_buffer \in Seq(Scans) /\ time_buffer \in Seq(Times)
  /\ Len(time_buffer) = Len(lidar_buffer)
  /\ \A i \in 1..Len(lidar_buffer) : time_buffer[i] = lidar_buffer[i].stamp

\* StampsPaired alone is not inductive: it needs the heads of the deques to match.
PairInv ==
  /\ InStep
  /\ DOMAIN meas = {"lidar", "lidar_beg_time", "lidar_end_time", "imu"}
  /\ last_timestamp_lidar \in Times /\ scan_count \in Nat
  /\ StampsPaired

\* The package under construction has its own stamp.
LEMMA PushedPaired ==
  ASSUME PairInv, Ready
  PROVE Pushed.lidar.stamp = Pushed.lidar_beg_time
        /\ DOMAIN Pushed = {"lidar", "lidar_beg_time", "lidar_end_time", "imu"}
<1>1. CASE lidar_pushed
  BY <1>1 DEF Pushed, PairInv, StampsPaired
<1>2. CASE ~lidar_pushed
  <2>1. 1 \in 1..Len(lidar_buffer) /\ 1 \in 1..Len(time_buffer)
    BY DEF PairInv, InStep, Ready
  <2>2. Head(time_buffer) = Head(lidar_buffer).stamp
    BY <2>1 DEF PairInv, InStep
  <2> QED
    BY <1>2, <2>2 DEF Pushed
<1> QED
  BY <1>1, <1>2

\* A scan is appended to both deques, and neither is cleared.
LEMMA ScanKeeps ==
  ASSUME SyncAssumption, ~StepBack, PairInv, Scan
  PROVE PairInv'
<1> PICK stamp \in 0..MaxTime - MaxLength - 1, length \in 0..MaxLength :
      stamp >= last_timestamp_lidar /\ livox_pcl_cbk(stamp, length)
  BY DEF Scan
<1> DEFINE scan == [id |-> scan_count + 1, stamp |-> stamp, length |-> length]
<1>1. stamp \in Times /\ stamp \in Int /\ last_timestamp_lidar \in Int
  BY DEF SyncAssumption, PairInv, Times
<1>2. ~(stamp < last_timestamp_lidar)
  BY <1>1
<1>3. /\ lidar_buffer' = Append(lidar_buffer, scan)
      /\ time_buffer' = Append(time_buffer, stamp)
      /\ last_timestamp_lidar' = stamp /\ scan_count' = scan_count + 1 /\ meas' = meas
  BY <1>2 DEF livox_pcl_cbk
<1>4. scan \in Scans
  BY <1>1 DEF Scan, Scans, SyncAssumption, PairInv
<1>5. /\ lidar_buffer' \in Seq(Scans) /\ time_buffer' \in Seq(Times)
      /\ Len(time_buffer') = Len(lidar_buffer')
  BY <1>1, <1>3, <1>4 DEF PairInv, InStep
<1>6. ASSUME NEW i \in 1..Len(lidar_buffer')
      PROVE time_buffer'[i] = lidar_buffer'[i].stamp
  <2>1. CASE i = Len(lidar_buffer) + 1
    BY <1>1, <1>3, <1>4, <2>1 DEF PairInv, InStep
  <2>2. CASE i # Len(lidar_buffer) + 1
    <3>1. i \in 1..Len(lidar_buffer)
      BY <1>3, <1>4, <2>2 DEF PairInv, InStep
    <3>2. lidar_buffer'[i] = lidar_buffer[i] /\ time_buffer'[i] = time_buffer[i]
      BY <1>1, <1>3, <1>4, <3>1 DEF PairInv, InStep
    <3> QED
      BY <3>1, <3>2 DEF PairInv, InStep
  <2> QED
    BY <2>1, <2>2
<1> QED
  BY <1>1, <1>3, <1>5, <1>6 DEF PairInv, InStep, StampsPaired

\* A scan leaves both deques, and the package keeps its stamp.
LEMMA SyncedKeeps ==
  ASSUME PairInv, Synced
  PROVE PairInv'
<1>1. /\ lidar_buffer' = Tail(lidar_buffer) /\ time_buffer' = Tail(time_buffer)
      /\ UNCHANGED <<last_timestamp_lidar, scan_count>>
      /\ \E samples : meas' = [Pushed EXCEPT !.imu = samples]
  BY DEF Synced, PopPackage, inputs
<1>2. Pushed.lidar.stamp = Pushed.lidar_beg_time
      /\ DOMAIN Pushed = {"lidar", "lidar_beg_time", "lidar_end_time", "imu"}
  BY PushedPaired DEF Synced
<1>3. meas'.lidar.stamp = meas'.lidar_beg_time /\ DOMAIN meas' = DOMAIN Pushed
  BY <1>1, <1>2
<1>4. lidar_buffer # <<>> /\ time_buffer # <<>>
  BY DEF Synced, Ready, PairInv, InStep
<1>5. InStep'
  <2>1. /\ lidar_buffer' \in Seq(Scans) /\ time_buffer' \in Seq(Times)
        /\ Len(lidar_buffer') = Len(lidar_buffer) - 1 /\ Len(time_buffer') = Len(lidar_buffer')
    BY <1>1, <1>4 DEF PairInv, InStep
  <2>2. ASSUME NEW i \in 1..Len(lidar_buffer')
        PROVE time_buffer'[i] = lidar_buffer'[i].stamp
    <3>1. i + 1 \in 1..Len(lidar_buffer)
      BY <2>1 DEF PairInv, InStep
    <3>2. lidar_buffer'[i] = lidar_buffer[i + 1] /\ time_buffer'[i] = time_buffer[i + 1]
      BY <1>1, <1>4, <2>1 DEF PairInv, InStep
    <3> QED
      BY <3>1, <3>2 DEF PairInv, InStep
  <2> QED
    BY <2>1, <2>2 DEF InStep
<1> QED
  BY <1>1, <1>2, <1>3, <1>5 DEF PairInv, StampsPaired

\* Every step keeps the deques in step.
LEMMA PairStep ==
  ASSUME SyncAssumption, ~StepBack, PairInv, [Next]_vars
  PROVE PairInv'
<1>1. CASE Scan
  BY <1>1, ScanKeeps
<1>2. CASE Sample
  BY <1>2 DEF Sample, imu_cbk, PairInv, InStep, StampsPaired
<1>3. CASE Waiting
  <2>1. UNCHANGED <<lidar_buffer, time_buffer, last_timestamp_lidar, scan_count>> /\ meas' = Pushed
    BY <1>3 DEF Waiting, buffers, inputs
  <2>2. Pushed.lidar.stamp = Pushed.lidar_beg_time
        /\ DOMAIN Pushed = {"lidar", "lidar_beg_time", "lidar_end_time", "imu"}
    BY <1>3, PushedPaired DEF Waiting
  <2> QED
    BY <2>1, <2>2 DEF PairInv, InStep, StampsPaired
<1>4. CASE FirstScan
  BY <1>4, SyncedKeeps DEF FirstScan
<1>5. CASE Package
  BY <1>5, SyncedKeeps DEF Package
<1>6. CASE UNCHANGED vars
  BY <1>6 DEF vars, buffers, inputs, PairInv, InStep, StampsPaired
<1> QED
  BY <1>1, <1>2, <1>3, <1>4, <1>5, <1>6 DEF Next, timer_callback, NoPackage

\* While the lidar's clock does not step back, every scan is processed with its own stamp
\* (laserMapping.cpp:311-348 and :383-435).
THEOREM StampsStayPaired ==
  ASSUME ~StepBack
  PROVE Spec => []StampsPaired
<1>1. SyncAssumption
  BY SyncAssumption DEF SyncAssumption
<1>2. Init => PairInv
  <2> SUFFICES ASSUME Init PROVE PairInv
    OBVIOUS
  <2>1. InStep
    BY DEF Init, InStep
  <2>2. meas = [lidar |-> NoScan, lidar_beg_time |-> 0, lidar_end_time |-> 0, imu |-> <<>>]
        /\ last_timestamp_lidar = 0 /\ scan_count = 0
    BY DEF Init
  <2>3. 0 \in Times
    BY SyncAssumption DEF SyncAssumption, Times
  <2> QED
    BY <2>1, <2>2, <2>3 DEF PairInv, StampsPaired, NoScan
<1>3. PairInv /\ [Next]_vars => PairInv'
  BY <1>1, PairStep
<1>4. PairInv => StampsPaired
  BY DEF PairInv
<1> QED
  BY <1>2, <1>3, <1>4, PTL DEF Spec

-----------------------------------------------------------------------------
(* Types, also when the clocks step back *)

\* A scan in lidar_buffer has a stamp in time_buffer, which may hold more of them.
TypeInv == TypeOK /\ Len(lidar_buffer) <= Len(time_buffer)

\* The package under construction, whether its scan is pushed now or was before.
LEMMA PushedType ==
  ASSUME SyncAssumption, TypeInv, Ready
  PROVE Pushed \in Packages
<1>1. CASE lidar_pushed
  BY <1>1 DEF Pushed, TypeInv, TypeOK
<1>2. CASE ~lidar_pushed
  <2>1. Head(lidar_buffer) \in Scans /\ Head(time_buffer) \in Times
    BY DEF TypeInv, TypeOK, Ready
  <2>2. /\ Head(lidar_buffer).length \in 0..MaxLength /\ lidar_mean_scantime \in 0..MaxLength
        /\ Head(time_buffer) \in 0..MaxTime
    BY <2>1 DEF Scans, Times, TypeInv, TypeOK
  <2>3. EndTime(Head(lidar_buffer), Head(time_buffer)) \in EndTimes
    BY <2>2 DEF EndTime, EndTimes, SyncAssumption
  <2>4. meas.imu \in Seq(Times)
    BY DEF TypeInv, TypeOK, Packages
  <2> QED
    BY <1>2, <2>1, <2>3, <2>4 DEF Pushed, Packages
<1> QED
  BY <1>1, <1>2

\* The mean of the lengths is a length.
LEMMA ScanTimeType ==
  ASSUME SyncAssumption, TypeInv, Ready, ScanTime
  PROVE lidar_mean_scantime' \in 0..MaxLength
BY DEF ScanTime, Between, TypeInv, TypeOK

\* The numbers from one to k are k of them.
LEMMA FirstNumbers ==
  ASSUME NEW k \in Nat
  PROVE IsFiniteSet(1..k) /\ Cardinality(1..k) = k
<1>1. IsFiniteSet(1..k) /\ Cardinality(1..k) = IF 1 > k THEN 0 ELSE k - 1 + 1
  BY FS_Interval
<1> QED
  BY <1>1

\* The samples that are taken are the first ones of the deque.
LEMMA PrefixTaken ==
  ASSUME SyncAssumption, imu_buffer \in Seq(Times), NEW end \in Int
  PROVE /\ NumTaken(end) \in Nat /\ NumTaken(end) <= Len(imu_buffer)
        /\ Taken(end) = 1..NumTaken(end)
<1> DEFINE T == Taken(end)
           n == NumTaken(end)
<1>1. Len(imu_buffer) \in Nat /\ DOMAIN imu_buffer = 1..Len(imu_buffer)
  OBVIOUS
<1>2. T \subseteq 1..Len(imu_buffer)
  BY <1>1 DEF Taken
<1>3. /\ IsFiniteSet(T) /\ n \in Nat
      /\ n <= Len(imu_buffer)
  <2>1. /\ IsFiniteSet(1..Len(imu_buffer))
        /\ Cardinality(1..Len(imu_buffer)) = Len(imu_buffer)
    BY <1>1, FirstNumbers
  <2>2. T \in SUBSET (1..Len(imu_buffer))
    BY <1>2
  <2> HIDE DEF T
  <2>3. IsFiniteSet(T) /\ Cardinality(T) <= Cardinality(1..Len(imu_buffer))
    BY <2>1, <2>2, FS_Subset
  <2>4. n = Cardinality(T)
    BY DEF NumTaken, T
  <2> QED
    BY <1>1, <2>1, <2>3, <2>4, FS_CardinalityType
<1>4. ASSUME NEW i \in T, NEW j \in 1..i
      PROVE j \in T
  <2>1. i \in 1..Len(imu_buffer) /\ imu_buffer[1] < end /\ \A k \in 1..i - 1 : imu_buffer[k] < end
    BY <1>2 DEF Taken
  <2>2. j \in DOMAIN imu_buffer /\ \A k \in 1..j - 1 : imu_buffer[k] < end
    BY <1>1, <2>1
  <2>3. imu_buffer[j] <= end
    <3>1. CASE j = i
      BY <3>1 DEF Taken
    <3>2. CASE j # i
      <4>1. j \in 1..i - 1
        BY <2>1, <3>2
      <4>2. imu_buffer[j] < end /\ imu_buffer[j] \in Int
        BY <2>1, <2>2, <4>1 DEF Times, SyncAssumption
      <4> QED
        BY <4>2
    <3> QED
      BY <3>1, <3>2
  <2> QED
    BY <2>1, <2>2, <2>3 DEF Taken
<1>5. T \subseteq 1..n
  <2> SUFFICES ASSUME NEW i \in T
               PROVE i \in 1..n
    OBVIOUS
  <2>1. i \in Nat /\ i >= 1 /\ 1..i \subseteq T
    BY <1>1, <1>2, <1>4
  <2>2. IsFiniteSet(1..i) /\ Cardinality(1..i) = i
    BY <2>1, FirstNumbers
  <2>3. i <= n
    BY <1>3, <2>1, <2>2, FS_Subset DEF NumTaken
  <2> QED
    BY <1>3, <2>1, <2>3
<1>6. IsFiniteSet(1..n) /\ Cardinality(1..n) = n
  BY <1>3, FirstNumbers
<1>7. T = 1..n
  BY <1>5, <1>6, FS_Subset DEF NumTaken
<1> QED
  BY <1>3, <1>7

\* What a package takes out of the deques, and what it gets.
LEMMA SyncedTypes ==
  ASSUME SyncAssumption, TypeInv, Synced
  PROVE /\ lidar_buffer' \in Seq(Scans) /\ time_buffer' \in Seq(Times) /\ imu_buffer' \in Seq(Times)
        /\ Len(lidar_buffer') <= Len(time_buffer')
        /\ meas' \in Packages /\ lidar_pushed' = FALSE
        /\ lidar_mean_scantime' \in 0..MaxLength
        /\ UNCHANGED inputs
<1> DEFINE n == NumTaken(Pushed.lidar_end_time)
<1>1. n \in Nat /\ n <= Len(imu_buffer)
  <2>1. Pushed.lidar_end_time \in Int
    BY PushedType DEF Synced, Packages, EndTimes, SyncAssumption
  <2> QED
    BY <2>1, PrefixTaken DEF TypeInv, TypeOK
<1>2. /\ SubSeq(imu_buffer, 1, n) \in Seq(Times)
      /\ SubSeq(imu_buffer, n + 1, Len(imu_buffer)) \in Seq(Times)
  BY <1>1 DEF TypeInv, TypeOK
<1>3. meas' \in Packages
  BY <1>2, PushedType DEF Synced, PopPackage, Packages
<1>4. /\ lidar_buffer' \in Seq(Scans) /\ time_buffer' \in Seq(Times)
      /\ Len(lidar_buffer') <= Len(time_buffer')
  BY DEF Synced, Ready, PopPackage, TypeInv, TypeOK
<1> QED
  BY <1>2, <1>3, <1>4, ScanTimeType DEF Synced, PopPackage

\* The filter's clock stays among the ends of scans.
LEMMA ProcessTypes ==
  ASSUME TypeInv, Process, meas' \in Packages
  PROVE /\ init_iter_num' \in Nat /\ imu_need_init_' \in BOOLEAN
        /\ last_imu_' \in Times /\ last_lidar_end_time_' \in EndTimes
        /\ feats_undistort' \in Scans
<1>1. /\ meas'.imu \in Seq(Times) /\ meas'.lidar \in Scans /\ meas'.lidar_end_time \in EndTimes
  BY DEF Packages
<1>2. CASE meas'.imu = <<>> /\ UNCHANGED <<filter, feats_undistort>>
  BY <1>2 DEF filter, TypeInv, TypeOK
<1>3. ASSUME meas'.imu # <<>>
      PROVE Last(meas'.imu) \in Times
  BY <1>1, <1>3 DEF Last
<1>4. CASE meas'.imu # <<>> /\ IMU_init
  <2>1. imu_need_init_' \in BOOLEAN
    BY <1>4 DEF IMU_init
  <2> QED
    BY <1>1, <1>3, <1>4, <2>1 DEF IMU_init, TypeInv, TypeOK
<1>5. CASE meas'.imu # <<>> /\ UndistortPcl
  BY <1>1, <1>3, <1>5 DEF UndistortPcl, TypeInv, TypeOK
<1> QED
  BY <1>2, <1>4, <1>5 DEF Process

\* The types over a step of the node or of a sensor.
LEMMA TypeStep ==
  ASSUME SyncAssumption, TypeInv, [Next]_vars
  PROVE TypeInv'
<1> USE DEF TypeInv, TypeOK
<1>1. CASE Scan
  <2>1. PICK stamp \in 0..MaxTime - MaxLength - 1, length \in 0..MaxLength : livox_pcl_cbk(stamp, length)
    BY <1>1 DEF Scan
  <2> DEFINE scan == [id |-> scan_count + 1, stamp |-> stamp, length |-> length]
             kept == IF stamp < last_timestamp_lidar THEN <<>> ELSE lidar_buffer
  <2>2. stamp \in Times /\ scan_count + 1 \in 0..MaxScans
    BY <1>1, <2>1 DEF Scan, Times, SyncAssumption
  <2>3. scan \in Scans /\ kept \in Seq(Scans) /\ Len(kept) <= Len(time_buffer)
    BY <2>2 DEF Scans
  <2>4. /\ lidar_buffer' = Append(kept, scan) /\ time_buffer' = Append(time_buffer, stamp)
        /\ last_timestamp_lidar' = stamp /\ scan_count' = scan_count + 1
        /\ UNCHANGED <<imu_buffer, last_timestamp_imu, lidar_pushed, meas, lidar_mean_scantime, filter, mapping>>
    BY <2>1 DEF livox_pcl_cbk
  <2> HIDE DEF kept, scan
  <2>5. /\ lidar_buffer' \in Seq(Scans) /\ time_buffer' \in Seq(Times)
        /\ Len(lidar_buffer') <= Len(time_buffer')
    BY <2>2, <2>3, <2>4
  <2> QED
    BY <2>2, <2>4, <2>5 DEF filter, mapping
<1>2. CASE Sample
  BY <1>2 DEF Sample, imu_cbk, filter, mapping
<1>3. CASE Waiting
  BY <1>3, PushedType, ScanTimeType DEF Waiting, buffers, inputs, filter, mapping
<1>4. CASE FirstScan
  BY <1>4, SyncedTypes DEF FirstScan, inputs, filter
<1>5. CASE Package
  <2>1. /\ meas' \in Packages /\ Process /\ UNCHANGED flg_first_scan
        /\ \/ SkipScan
           \/ BuildMap \/ publish_odometry
    BY <1>5, SyncedTypes DEF Package
  <2>2. feats_undistort' \in Scans
    BY <2>1, ProcessTypes
  <2>3. ikdtree' \in BOOLEAN
    BY <2>1 DEF SkipScan, BuildMap, publish_odometry
  <2>4. odometry' \in [scan : 0..MaxScans, at : 0..MaxScans]
    BY <2>1, <2>2 DEF SkipScan, BuildMap, publish_odometry, Packages, Scans
  <2> QED
    BY <1>5, <2>1, <2>2, <2>3, <2>4, SyncedTypes, ProcessTypes DEF Package, inputs
<1>6. CASE UNCHANGED vars
  BY <1>6 DEF vars, buffers, inputs, filter, mapping
<1> QED
  BY <1>1, <1>2, <1>3, <1>4, <1>5, <1>6 DEF Next, timer_callback, NoPackage

\* The initial values.
LEMMA TypeStart ==
  ASSUME SyncAssumption, Init
  PROVE TypeInv
<1>1. NoScan \in Scans /\ 0 \in Times /\ MaxTime \in EndTimes /\ 0 \in EndTimes
  BY DEF NoScan, Scans, Times, EndTimes, SyncAssumption
<1>2. meas \in Packages
  BY <1>1 DEF Init, Packages
<1>3. lidar_pushed \in BOOLEAN /\ flg_first_scan \in BOOLEAN /\ imu_need_init_ \in BOOLEAN /\ ikdtree \in BOOLEAN
  BY Zenon DEF Init
<1>4. /\ lidar_buffer \in Seq(Scans) /\ time_buffer \in Seq(Times) /\ imu_buffer \in Seq(Times)
      /\ Len(lidar_buffer) <= Len(time_buffer)
  BY DEF Init
<1>5. /\ last_timestamp_lidar \in Times /\ last_timestamp_imu \in Times \cup {-1}
      /\ last_imu_ \in Times /\ last_lidar_end_time_ \in EndTimes /\ feats_undistort \in Scans
      /\ scan_count \in 0..MaxScans /\ lidar_mean_scantime \in 0..MaxLength /\ init_iter_num \in Nat
      /\ odometry \in [scan : 0..MaxScans, at : 0..MaxScans]
  BY <1>1 DEF Init, SyncAssumption
<1> QED
  BY <1>2, <1>3, <1>4, <1>5 DEF TypeInv, TypeOK

\* The values of the node, for any bounds, whether the clocks step back or not.
THEOREM SyncTypeCorrect == Spec => []TypeOK
<1>1. SyncAssumption
  BY SyncAssumption DEF SyncAssumption
<1>2. Init => TypeInv
  BY <1>1, TypeStart
<1>3. TypeInv /\ [Next]_vars => TypeInv'
  BY <1>1, TypeStep
<1>4. TypeInv => TypeOK
  BY DEF TypeInv
<1> QED
  BY <1>2, <1>3, <1>4, PTL DEF Spec

-----------------------------------------------------------------------------
(* The samples of the scans, while the clocks do not step back *)

SamplesOrdered ==
  /\ \A i, j \in DOMAIN imu_buffer : i < j => imu_buffer[i] < imu_buffer[j]
  /\ \A i \in DOMAIN imu_buffer : imu_buffer[i] <= last_timestamp_imu

\* The samples of the deque are in order, and between two packages those that still
\* come are behind the end of the last one.
SplitInv ==
  /\ TypeInv
  /\ SamplesOrdered
  /\ ~lidar_pushed => meas.lidar_end_time <= last_timestamp_imu + 1
  /\ ImuSplit

\* A sample that comes is behind all that came.
LEMMA SampleKeepsSplit ==
  ASSUME SyncAssumption, ~StepBack, SplitInv, Sample
  PROVE SamplesOrdered' /\ ImuSplit' /\ (~lidar_pushed' => meas'.lidar_end_time <= last_timestamp_imu' + 1)
<1>1. PICK stamp \in Times : stamp > last_timestamp_imu /\ imu_cbk(stamp)
  BY DEF Sample
<1>2. stamp \in Int /\ last_timestamp_imu \in Int
  BY DEF SplitInv, TypeInv, TypeOK, Times, SyncAssumption
<1>3. meas.lidar_end_time \in Int /\ imu_buffer \in Seq(Int)
  BY DEF SplitInv, TypeInv, TypeOK, Packages, EndTimes, Times, SyncAssumption
<1>4. /\ imu_buffer' = Append(imu_buffer, stamp) /\ last_timestamp_imu' = stamp
      /\ lidar_pushed' = lidar_pushed /\ meas' = meas
  BY <1>1, <1>2 DEF imu_cbk
<1>5. /\ DOMAIN imu_buffer = 1..Len(imu_buffer) /\ Len(imu_buffer) \in Nat
      /\ DOMAIN imu_buffer' = 1..Len(imu_buffer) + 1
      /\ \A i \in 1..Len(imu_buffer) : imu_buffer'[i] = imu_buffer[i] /\ imu_buffer[i] \in Int
      /\ imu_buffer'[Len(imu_buffer) + 1] = stamp
  BY <1>2, <1>3, <1>4
<1>6. \A i \in 1..Len(imu_buffer) : imu_buffer[i] < stamp
  BY <1>1, <1>2, <1>5 DEF SplitInv, SamplesOrdered
<1>7. ASSUME NEW i \in DOMAIN imu_buffer', NEW j \in DOMAIN imu_buffer', i < j
      PROVE imu_buffer'[i] < imu_buffer'[j]
  <2>1. i \in 1..Len(imu_buffer)
    BY <1>5, <1>7
  <2>2. CASE j \in 1..Len(imu_buffer)
    BY <1>5, <1>7, <2>1, <2>2 DEF SplitInv, SamplesOrdered
  <2>3. CASE j = Len(imu_buffer) + 1
    BY <1>5, <1>6, <2>1, <2>3
  <2> QED
    BY <1>5, <2>2, <2>3
<1>8. ASSUME NEW i \in DOMAIN imu_buffer'
      PROVE imu_buffer'[i] <= stamp
  <2>1. CASE i \in 1..Len(imu_buffer)
    BY <1>2, <1>5, <1>6, <2>1
  <2>2. CASE i = Len(imu_buffer) + 1
    BY <1>2, <1>5, <2>2
  <2> QED
    BY <1>5, <2>1, <2>2
<1>9. ASSUME ~lidar_pushed
      PROVE /\ meas.lidar_end_time <= stamp
            /\ \A i \in DOMAIN meas.imu : meas.imu[i] <= meas.lidar_end_time
            /\ \A i \in DOMAIN imu_buffer' : imu_buffer'[i] >= meas.lidar_end_time
  <2>1. meas.lidar_end_time <= stamp
    BY <1>1, <1>2, <1>3, <1>9 DEF SplitInv
  <2>2. ASSUME NEW i \in DOMAIN imu_buffer'
        PROVE imu_buffer'[i] >= meas.lidar_end_time
    <3>1. CASE i \in 1..Len(imu_buffer)
      BY <1>5, <1>9, <3>1 DEF SplitInv, ImuSplit
    <3>2. CASE i = Len(imu_buffer) + 1
      BY <1>2, <1>3, <1>5, <2>1, <3>2
    <3> QED
      BY <1>5, <3>1, <3>2
  <2> QED
    BY <1>9, <2>1, <2>2 DEF SplitInv, ImuSplit
<1> QED
  BY <1>2, <1>3, <1>4, <1>7, <1>8, <1>9 DEF SamplesOrdered, ImuSplit

\* What is behind the first elements of a sequence, place by place.
LEMMA TailOfSequence ==
  ASSUME NEW s \in Seq(Int), NEW a \in Nat, a <= Len(s)
  PROVE  /\ DOMAIN SubSeq(s, a + 1, Len(s)) = 1..Len(s) - a
         /\ \A i \in 1..Len(s) - a : SubSeq(s, a + 1, Len(s))[i] = s[a + i]
OBVIOUS

\* A package takes the samples up to its end and leaves those behind it.
LEMMA SyncedKeepsSplit ==
  ASSUME SyncAssumption, SplitInv, Synced
  PROVE SamplesOrdered' /\ ImuSplit' /\ (~lidar_pushed' => meas'.lidar_end_time <= last_timestamp_imu' + 1)
<1> DEFINE end == Pushed.lidar_end_time
           n == NumTaken(end)
           m == Len(imu_buffer)
<1>1. Pushed \in Packages /\ end \in Int
  BY PushedType DEF SplitInv, Synced, Packages, EndTimes, SyncAssumption
<1>2. /\ imu_buffer \in Seq(Int) /\ imu_buffer \in Seq(Times)
      /\ last_timestamp_imu \in Int /\ m \in Nat /\ DOMAIN imu_buffer = 1..m
  BY DEF SplitInv, TypeInv, TypeOK, Times, SyncAssumption
<1>3. n \in Nat /\ n <= m /\ Taken(end) = 1..n
  BY <1>1, <1>2, PrefixTaken
<1>4. /\ meas' = [Pushed EXCEPT !.imu = SubSeq(imu_buffer, 1, n)]
      /\ imu_buffer' = SubSeq(imu_buffer, n + 1, m)
      /\ lidar_pushed' = FALSE /\ last_timestamp_imu' = last_timestamp_imu
      /\ end <= last_timestamp_imu
  BY <1>1, <1>2 DEF Synced, PopPackage, inputs, ImuArrived
<1> HIDE DEF end, n
<1>5. meas'.lidar_end_time = end /\ meas'.imu = SubSeq(imu_buffer, 1, n)
  BY <1>1, <1>4 DEF Packages, end
<1>6. /\ DOMAIN imu_buffer' = 1..m - n
      /\ \A i \in 1..m - n : imu_buffer'[i] = imu_buffer[n + i] /\ n + i \in 1..m /\ n + i \notin 1..n
  <2>1. m \in Nat /\ n \in Nat /\ n <= m
    BY <1>2, <1>3
  <2>2. /\ DOMAIN imu_buffer' = 1..m - n
        /\ \A i \in 1..m - n : imu_buffer'[i] = imu_buffer[n + i]
    BY <1>2, <1>4, <2>1, TailOfSequence
  <2>3. \A i \in 1..m - n : n + i \in 1..m /\ n + i \notin 1..n
    BY <2>1
  <2> QED
    BY <2>2, <2>3
<1>7. /\ DOMAIN meas'.imu = 1..n
      /\ \A i \in 1..n : meas'.imu[i] = imu_buffer[i]
  BY <1>2, <1>3, <1>5
<1>8. \A i, j \in 1..m : i < j => imu_buffer[i] < imu_buffer[j]
  BY <1>2 DEF SplitInv, SamplesOrdered
<1>9. \A i \in 1..m : imu_buffer[i] <= last_timestamp_imu /\ imu_buffer[i] \in Int
  BY <1>2 DEF SplitInv, SamplesOrdered
<1>10. SamplesOrdered'
  <2>1. ASSUME NEW i \in 1..m - n, NEW j \in 1..m - n, i < j
        PROVE imu_buffer'[i] < imu_buffer'[j]
    <3>1. n + i < n + j
      BY <1>2, <1>3, <2>1
    <3> QED
      BY <1>6, <1>8, <3>1
  <2>2. ASSUME NEW i \in 1..m - n
        PROVE imu_buffer'[i] <= last_timestamp_imu'
    BY <1>4, <1>6, <1>9
  <2> QED
    BY <1>6, <2>1, <2>2 DEF SamplesOrdered
<1>11. \A i \in DOMAIN meas'.imu : meas'.imu[i] <= end
  <2>1. \A i \in 1..n : i \in Taken(end)
    BY <1>3
  <2> QED
    BY <1>7, <2>1 DEF Taken
<1>12. ASSUME NEW i \in 1..m, i \notin 1..n
       PROVE imu_buffer[i] >= end
  <2>1. ~(/\ imu_buffer[1] < end /\ imu_buffer[i] <= end
          /\ \A j \in 1..i - 1 : imu_buffer[j] < end)
    BY <1>2, <1>3, <1>12 DEF Taken
  <2>2. CASE ~(imu_buffer[1] < end)
    <3>1. 1 \in 1..m /\ (i = 1 \/ 1 < i)
      OBVIOUS
    <3> QED
      BY <1>1, <1>8, <1>9, <2>2, <3>1
  <2>3. CASE ~(imu_buffer[i] <= end)
    BY <1>1, <1>9, <2>3
  <2>4. ASSUME NEW j \in 1..i - 1, ~(imu_buffer[j] < end)
        PROVE imu_buffer[i] >= end
    <3>1. j \in 1..m /\ j < i
      BY <1>2
    <3> QED
      BY <1>1, <1>8, <1>9, <2>4, <3>1
  <2> QED
    BY <2>1, <2>2, <2>3, <2>4
<1>13. \A i \in DOMAIN imu_buffer' : imu_buffer'[i] >= end
  BY <1>6, <1>12
<1>14. meas'.lidar_end_time <= last_timestamp_imu' + 1
  BY <1>1, <1>2, <1>4, <1>5
<1>15. ImuSplit'
  BY <1>5, <1>11, <1>13 DEF ImuSplit
<1> QED
  BY <1>10, <1>14, <1>15

\* Every step keeps the samples with their scans.
LEMMA SplitStep ==
  ASSUME SyncAssumption, ~StepBack, SplitInv, [Next]_vars
  PROVE SplitInv'
<1>1. TypeInv'
  BY TypeStep DEF SplitInv
<1>2. CASE Sample
  BY <1>1, <1>2, SampleKeepsSplit DEF SplitInv
<1>3. CASE Scan
  BY <1>1, <1>3 DEF Scan, livox_pcl_cbk, SplitInv, SamplesOrdered, ImuSplit
<1>4. CASE Waiting
  BY <1>1, <1>4 DEF Waiting, buffers, inputs, SplitInv, SamplesOrdered, ImuSplit
<1>5. CASE FirstScan \/ Package
  BY <1>1, <1>5, SyncedKeepsSplit DEF FirstScan, Package, SplitInv
<1>6. CASE UNCHANGED vars
  BY <1>1, <1>6 DEF vars, buffers, inputs, SplitInv, SamplesOrdered, ImuSplit
<1> QED
  BY <1>2, <1>3, <1>4, <1>5, <1>6 DEF Next, timer_callback, NoPackage

\* While the clocks do not step back, every sample goes to the scan it was taken in, for
\* any scans, lengths and samples (laserMapping.cpp:415-429).
THEOREM SamplesAreSplit ==
  ASSUME ~StepBack
  PROVE Spec => []ImuSplit
<1>1. SyncAssumption
  BY SyncAssumption DEF SyncAssumption
<1>2. Init => SplitInv
  <2> SUFFICES ASSUME Init PROVE SplitInv
    OBVIOUS
  <2>1. TypeInv
    BY <1>1, TypeStart
  <2>2. /\ imu_buffer = <<>> /\ last_timestamp_imu = -1
        /\ meas.lidar_end_time = 0 /\ meas.imu = <<>>
    BY DEF Init
  <2> QED
    BY <2>1, <2>2 DEF SplitInv, SamplesOrdered, ImuSplit
<1>3. SplitInv /\ [Next]_vars => SplitInv'
  BY <1>1, SplitStep
<1>4. SplitInv => ImuSplit
  BY DEF SplitInv
<1> QED
  BY <1>2, <1>3, <1>4, PTL DEF Spec

-----------------------------------------------------------------------------
(* What the odometry shows, also when the clocks step back *)

\* The scans wait in the order of their numbers, behind the one of the package; the
\* odometry shows no scan that is ahead of the cloud, and the cloud none ahead of the package.
OdometryInv ==
  /\ TypeInv
  /\ \A i, j \in DOMAIN lidar_buffer : i < j => lidar_buffer[i].id < lidar_buffer[j].id
  /\ \A i \in DOMAIN lidar_buffer :
       /\ meas.lidar.id <= lidar_buffer[i].id /\ lidar_buffer[i].id <= scan_count
       /\ ~lidar_pushed => meas.lidar.id < lidar_buffer[i].id
  /\ meas.lidar.id <= scan_count
  /\ odometry.at <= meas.lidar.id /\ (lidar_pushed => odometry.at < meas.lidar.id)
  /\ odometry.scan <= feats_undistort.id /\ feats_undistort.id <= meas.lidar.id
  /\ imu_need_init_ => feats_undistort = NoScan

\* The numbers of the odometry and of the cloud.
LEMMA OdometryNumbers ==
  ASSUME SyncAssumption, OdometryInv
  PROVE /\ scan_count \in Nat /\ meas.lidar.id \in Nat /\ feats_undistort.id \in Nat
        /\ odometry.scan \in Nat /\ odometry.at \in Nat
<1>1. \A x \in Scans : x.id \in Nat
  BY DEF Scans, SyncAssumption
<1>2. /\ scan_count \in Nat /\ meas.lidar \in Scans /\ feats_undistort \in Scans
      /\ odometry.scan \in Nat /\ odometry.at \in Nat
  BY DEF OdometryInv, TypeInv, TypeOK, Packages, SyncAssumption
<1> QED
  BY <1>1, <1>2

\* A scan that comes has the next number, whether or not it clears the deque.
LEMMA ScanKeepsOrder ==
  ASSUME SyncAssumption, OdometryInv, Scan, TypeInv'
  PROVE OdometryInv'
<1>1. PICK stamp \in 0..MaxTime - MaxLength - 1, length \in 0..MaxLength : livox_pcl_cbk(stamp, length)
  BY DEF Scan
<1> DEFINE scan == [id |-> scan_count + 1, stamp |-> stamp, length |-> length]
           kept == IF stamp < last_timestamp_lidar THEN <<>> ELSE lidar_buffer
<1>2. /\ lidar_buffer' = Append(kept, scan) /\ scan_count' = scan_count + 1
      /\ UNCHANGED <<lidar_pushed, meas, filter, mapping>>
  BY <1>1 DEF livox_pcl_cbk
<1>3. /\ scan_count \in Nat /\ lidar_buffer \in Seq(Scans) /\ meas.lidar.id \in Nat
      /\ scan.id = scan_count + 1
      /\ \A x \in Scans : x.id \in Nat
  <2>1. \A x \in Scans : x.id \in Nat
    BY DEF Scans, SyncAssumption
  <2>2. scan_count \in Nat /\ lidar_buffer \in Seq(Scans) /\ meas.lidar \in Scans
    BY DEF OdometryInv, TypeInv, TypeOK, Packages, SyncAssumption
  <2> QED
    BY <2>1, <2>2
<1>4. /\ kept \in Seq(Scans) /\ DOMAIN kept = 1..Len(kept) /\ Len(kept) \in Nat
      /\ \A i \in DOMAIN kept : i \in DOMAIN lidar_buffer /\ kept[i] = lidar_buffer[i]
                                /\ kept[i] \in Scans
  BY <1>3
<1> HIDE DEF kept, scan
<1>5. /\ DOMAIN lidar_buffer' = 1..Len(kept) + 1
      /\ \A i \in 1..Len(kept) : lidar_buffer'[i] = kept[i]
      /\ lidar_buffer'[Len(kept) + 1] = scan
  BY <1>2, <1>4
<1>6. ASSUME NEW i \in DOMAIN lidar_buffer'
      PROVE /\ i \in 1..Len(kept) => lidar_buffer'[i].id <= scan_count /\ lidar_buffer'[i].id \in Nat
            /\ i \notin 1..Len(kept) => lidar_buffer'[i].id = scan_count + 1
            /\ meas.lidar.id <= lidar_buffer'[i].id
            /\ ~lidar_pushed => meas.lidar.id < lidar_buffer'[i].id
  <2>1. CASE i \in 1..Len(kept)
    BY <1>3, <1>4, <1>5, <2>1 DEF OdometryInv
  <2>2. CASE i = Len(kept) + 1
    BY <1>3, <1>4, <1>5, <2>2 DEF OdometryInv
  <2> QED
    BY <1>5, <2>1, <2>2
<1>7. ASSUME NEW i \in DOMAIN lidar_buffer', NEW j \in DOMAIN lidar_buffer', i < j
      PROVE lidar_buffer'[i].id < lidar_buffer'[j].id
  <2>1. i \in 1..Len(kept)
    BY <1>4, <1>5, <1>7
  <2>2. CASE j \in 1..Len(kept)
    BY <1>4, <1>5, <1>7, <2>1, <2>2 DEF OdometryInv
  <2>3. CASE j \notin 1..Len(kept)
    BY <1>3, <1>6, <2>1, <2>3
  <2> QED
    BY <2>2, <2>3
<1>8. \A i \in DOMAIN lidar_buffer' : lidar_buffer'[i].id <= scan_count + 1
  BY <1>3, <1>6
<1> QED
  BY <1>2, <1>3, <1>6, <1>7, <1>8 DEF OdometryInv, filter, mapping

\* The package has a scan that the odometry has not been stamped with.
LEMMA PushedIsNew ==
  ASSUME SyncAssumption, OdometryInv, Ready
  PROVE /\ Pushed.lidar.id \in Nat /\ odometry.at < Pushed.lidar.id
        /\ meas.lidar.id <= Pushed.lidar.id /\ Pushed.lidar.id <= scan_count
        /\ \A i \in DOMAIN lidar_buffer :
             /\ Pushed.lidar.id <= lidar_buffer[i].id
             /\ i # 1 => Pushed.lidar.id < lidar_buffer[i].id
<1>1. /\ lidar_buffer \in Seq(Scans) /\ lidar_buffer # <<>> /\ scan_count \in Nat
      /\ meas.lidar.id \in Nat /\ odometry.at \in Nat /\ \A x \in Scans : x.id \in Nat
  BY DEF OdometryInv, TypeInv, TypeOK, Packages, Scans, SyncAssumption, Ready
<1>2. /\ 1 \in DOMAIN lidar_buffer /\ Head(lidar_buffer) = lidar_buffer[1]
      /\ \A i \in DOMAIN lidar_buffer :
           lidar_buffer[i] \in Scans /\ i \in Nat /\ (i # 1 => 1 < i)
  BY <1>1
<1>3. CASE lidar_pushed
  <2>1. Pushed = meas
    BY <1>3 DEF Pushed
  <2>2. ASSUME NEW i \in DOMAIN lidar_buffer, i # 1 PROVE meas.lidar.id < lidar_buffer[i].id
    BY <1>1, <1>2, <2>2 DEF OdometryInv
  <2> QED
    BY <1>1, <1>3, <2>1, <2>2 DEF OdometryInv
<1>4. CASE ~lidar_pushed
  <2>1. Pushed.lidar = lidar_buffer[1]
    BY <1>2, <1>4 DEF Pushed
  <2>2. ASSUME NEW i \in DOMAIN lidar_buffer, i # 1 PROVE lidar_buffer[1].id < lidar_buffer[i].id
    BY <1>2, <2>2 DEF OdometryInv
  <2> QED
    BY <1>1, <1>2, <1>4, <2>1, <2>2 DEF OdometryInv
<1> QED
  BY <1>3, <1>4

\* What a package leaves in the deque, and which scan it has.
LEMMA SyncedOrder ==
  ASSUME SyncAssumption, OdometryInv, Synced
  PROVE /\ meas'.lidar = Pushed.lidar /\ lidar_pushed' = FALSE /\ scan_count' = scan_count
        /\ \A i \in DOMAIN lidar_buffer' :
             /\ meas'.lidar.id < lidar_buffer'[i].id /\ lidar_buffer'[i].id <= scan_count
             /\ \A j \in DOMAIN lidar_buffer' : i < j => lidar_buffer'[i].id < lidar_buffer'[j].id
<1>1. /\ lidar_buffer \in Seq(Scans) /\ lidar_buffer # <<>> /\ lidar_buffer' = Tail(lidar_buffer)
      /\ lidar_pushed' = FALSE /\ scan_count' = scan_count
  BY DEF OdometryInv, TypeInv, TypeOK, Synced, Ready, PopPackage, inputs
<1>2. meas'.lidar = Pushed.lidar
  BY PushedType DEF OdometryInv, Synced, PopPackage, Packages
<1>3. ASSUME NEW i \in DOMAIN lidar_buffer'
      PROVE /\ i + 1 \in DOMAIN lidar_buffer /\ lidar_buffer'[i] = lidar_buffer[i + 1]
            /\ i \in Nat /\ i + 1 # 1
  BY <1>1
<1>4. ASSUME NEW i \in DOMAIN lidar_buffer'
      PROVE meas'.lidar.id < lidar_buffer'[i].id /\ lidar_buffer'[i].id <= scan_count
  BY <1>2, <1>3, PushedIsNew DEF Synced, OdometryInv
<1>5. ASSUME NEW i \in DOMAIN lidar_buffer', NEW j \in DOMAIN lidar_buffer', i < j
      PROVE lidar_buffer'[i].id < lidar_buffer'[j].id
  <2>1. i + 1 < j + 1
    BY <1>3, <1>5
  <2> QED
    BY <1>3, <2>1 DEF OdometryInv
<1> QED
  BY <1>1, <1>2, <1>4, <1>5

\* The cloud is that of the package, or stays when the package had no sample, or the
\* filter is not yet initialised and there is none.
LEMMA ProcessClouds ==
  ASSUME OdometryInv, Process
  PROVE /\ feats_undistort' = meas'.lidar \/ feats_undistort' = feats_undistort
        /\ \/ meas'.imu = <<>> \/ feats_undistort' = meas'.lidar \/ feats_undistort' = NoScan
        /\ imu_need_init_' => feats_undistort' = NoScan
<1>1. CASE meas'.imu = <<>> /\ UNCHANGED <<filter, feats_undistort>>
  BY <1>1 DEF filter, OdometryInv
<1>2. CASE imu_need_init_ /\ IMU_init
  BY <1>2 DEF IMU_init, OdometryInv
<1>3. CASE ~imu_need_init_ /\ UndistortPcl
  BY <1>3 DEF UndistortPcl
<1> QED
  BY <1>1, <1>2, <1>3 DEF Process

\* What the invariant says of a package that has left the deques.
SyncedPackage ==
  /\ meas'.lidar.id \in Nat /\ odometry.at < meas'.lidar.id
  /\ meas.lidar.id <= meas'.lidar.id /\ meas'.lidar.id <= scan_count'
  /\ lidar_pushed' = FALSE
  /\ \A i, j \in DOMAIN lidar_buffer' : i < j => lidar_buffer'[i].id < lidar_buffer'[j].id
  /\ \A i \in DOMAIN lidar_buffer' :
       meas'.lidar.id < lidar_buffer'[i].id /\ lidar_buffer'[i].id <= scan_count'

LEMMA PackageIsNew ==
  ASSUME SyncAssumption, OdometryInv, TypeInv', Synced
  PROVE /\ SyncedPackage /\ odometry.at <= meas'.lidar.id
        /\ \A i \in DOMAIN lidar_buffer' : meas'.lidar.id <= lidar_buffer'[i].id
<1>1. SyncedPackage
  BY SyncedOrder, PushedIsNew DEF Synced, SyncedPackage
<1>2. \A x \in Scans : x.id \in Nat
  BY DEF Scans, SyncAssumption
<1>3. ASSUME NEW i \in DOMAIN lidar_buffer'
      PROVE lidar_buffer'[i].id \in Nat
  <2>1. lidar_buffer'[i] \in Scans
    BY <1>3 DEF TypeInv, TypeOK
  <2> QED
    BY <1>2, <2>1
<1> QED
  BY <1>1, <1>3, OdometryNumbers DEF SyncedPackage

\* The cloud of a package is no older than what the odometry shows, and not ahead of the package.
LEMMA CloudAdvances ==
  ASSUME SyncAssumption, OdometryInv, Process, SyncedPackage
  PROVE /\ odometry.scan <= feats_undistort'.id /\ feats_undistort'.id <= meas'.lidar.id
        /\ feats_undistort'.id \in Nat
<1>1. feats_undistort' = meas'.lidar \/ feats_undistort' = feats_undistort
  BY ProcessClouds
<1>2. /\ odometry.scan <= feats_undistort.id /\ feats_undistort.id <= meas.lidar.id
      /\ meas.lidar.id <= meas'.lidar.id
  BY DEF OdometryInv, SyncedPackage
<1> QED
  BY <1>1, <1>2, OdometryNumbers DEF SyncedPackage

\* Every step keeps the order of the scans from the sensor to the odometry.
LEMMA OdometryStep ==
  ASSUME SyncAssumption, OdometryInv, [Next]_vars
  PROVE OdometryInv'
<1>1. TypeInv'
  BY TypeStep DEF OdometryInv
<1>2. CASE Scan
  BY <1>1, <1>2, ScanKeepsOrder
<1>3. CASE Sample
  BY <1>1, <1>3 DEF Sample, imu_cbk, filter, mapping, OdometryInv
<1>4. CASE Waiting
  <2>1. /\ meas' = Pushed /\ lidar_pushed' = TRUE
        /\ UNCHANGED <<lidar_buffer, scan_count, imu_need_init_, feats_undistort, odometry>>
    BY <1>4 DEF Waiting, buffers, inputs, filter, mapping
  <2>2. /\ meas'.lidar.id \in Nat /\ odometry.at < meas'.lidar.id
        /\ meas.lidar.id <= meas'.lidar.id /\ meas'.lidar.id <= scan_count
        /\ \A i \in DOMAIN lidar_buffer : meas'.lidar.id <= lidar_buffer[i].id
    BY <1>4, <2>1, PushedIsNew DEF Waiting
  <2>3. feats_undistort.id <= meas'.lidar.id /\ odometry.at <= meas'.lidar.id
    BY <2>2, OdometryNumbers DEF OdometryInv
  <2> QED
    BY <1>1, <2>1, <2>2, <2>3 DEF OdometryInv
<1>5. CASE FirstScan
  <2>1. UNCHANGED <<imu_need_init_, feats_undistort, odometry>> /\ Synced
    BY <1>5 DEF FirstScan, filter
  <2>2. /\ SyncedPackage /\ odometry.at <= meas'.lidar.id
        /\ \A i \in DOMAIN lidar_buffer' : meas'.lidar.id <= lidar_buffer'[i].id
    BY <1>1, <2>1, PackageIsNew
  <2>3. feats_undistort.id <= meas'.lidar.id
    BY <2>2, OdometryNumbers DEF SyncedPackage, OdometryInv
  <2> QED
    BY <1>1, <2>1, <2>2, <2>3 DEF OdometryInv, SyncedPackage
<1>6. CASE Package
  <2>1. Synced /\ Process
    BY <1>6 DEF Package
  <2>2. /\ SyncedPackage /\ odometry.at <= meas'.lidar.id
        /\ \A i \in DOMAIN lidar_buffer' : meas'.lidar.id <= lidar_buffer'[i].id
    BY <1>1, <2>1, PackageIsNew
  <2>3. /\ odometry.scan <= feats_undistort'.id /\ feats_undistort'.id <= meas'.lidar.id
        /\ feats_undistort'.id \in Nat
    BY <2>1, <2>2, CloudAdvances
  <2>4. imu_need_init_' => feats_undistort' = NoScan
    BY <2>1, ProcessClouds
  <2>5. CASE UNCHANGED odometry
    BY <1>1, <2>2, <2>3, <2>4, <2>5 DEF OdometryInv, SyncedPackage
  <2>6. CASE odometry' = [scan |-> feats_undistort'.id, at |-> meas'.lidar.id]
    <3>1. odometry'.scan <= feats_undistort'.id /\ odometry'.at <= meas'.lidar.id
      BY <2>2, <2>3, <2>6 DEF SyncedPackage
    <3> QED
      BY <1>1, <2>2, <2>3, <2>4, <3>1 DEF OdometryInv, SyncedPackage
  <2> QED
    BY <1>6, <2>5, <2>6 DEF Package, SkipScan, BuildMap, publish_odometry
<1>7. CASE UNCHANGED vars
  BY <1>1, <1>7 DEF vars, buffers, inputs, filter, mapping, OdometryInv
<1> QED
  BY <1>2, <1>3, <1>4, <1>5, <1>6, <1>7 DEF Next, timer_callback, NoPackage

\* A published odometry is new, and shows the cloud of its package or had no sample.
LEMMA PublishedIsNew ==
  ASSUME SyncAssumption, OdometryInv, OdometryInv', [Next]_vars, odometry' # odometry
  PROVE /\ odometry'.at > odometry.at /\ odometry'.scan >= odometry.scan
        /\ odometry'.scan = odometry'.at \/ meas'.imu = <<>>
<1>1. Package /\ odometry' = [scan |-> feats_undistort'.id, at |-> meas'.lidar.id]
      /\ feats_undistort'.length > 0
  BY DEF Next, Scan, livox_pcl_cbk, Sample, imu_cbk, timer_callback, NoPackage, Waiting, FirstScan,
         Package, SkipScan, BuildMap, publish_odometry, mapping, vars
<1>2. Synced /\ Process
  BY <1>1 DEF Package
<1>3. odometry.at < meas'.lidar.id
  BY <1>2, PackageIsNew DEF SyncedPackage, OdometryInv
<1>4. odometry.scan <= feats_undistort'.id
  BY <1>2, PackageIsNew, CloudAdvances DEF OdometryInv
<1>5. feats_undistort' # NoScan
  BY <1>1 DEF NoScan
<1>6. meas'.imu = <<>> \/ feats_undistort' = meas'.lidar
  BY <1>2, <1>5, ProcessClouds
<1> QED
  BY <1>1, <1>3, <1>4, <1>6, OdometryNumbers

\* The odometry goes forward, and shows an older scan than the one it is stamped with only
\* when the package had no sample, for any clocks, also those that step back
\* (IMU_Processing.hpp:344, laserMapping.cpp:979-987).
THEOREM StaleIsExplained == Spec => StaleOnlyWithoutImu
<1>1. SyncAssumption
  BY SyncAssumption DEF SyncAssumption
<1>2. Init => OdometryInv
  <2> SUFFICES ASSUME Init PROVE OdometryInv
    OBVIOUS
  <2>1. TypeInv
    BY <1>1, TypeStart
  <2>2. /\ lidar_buffer = <<>> /\ lidar_pushed = FALSE /\ scan_count = 0
        /\ meas.lidar.id = 0 /\ odometry.at = 0 /\ odometry.scan = 0
        /\ feats_undistort = NoScan /\ feats_undistort.id = 0
    BY DEF Init, NoScan
  <2> QED
    BY <2>1, <2>2 DEF OdometryInv
<1>3. OdometryInv /\ [Next]_vars => OdometryInv'
  BY <1>1, OdometryStep
<1>4. OdometryInv /\ OdometryInv' /\ [Next]_vars
        => [odometry' # odometry
              => /\ odometry'.at > odometry.at /\ odometry'.scan >= odometry.scan
                 /\ odometry'.scan = odometry'.at \/ meas'.imu = <<>>]_vars
  BY <1>1, PublishedIsNew
<1> QED
  BY <1>2, <1>3, <1>4, PTL DEF Spec, StaleOnlyWithoutImu

-----------------------------------------------------------------------------
(* What the filter is moved by, while the clocks do not step back *)

\* The filter's clock stands between the last sample it was given and those that wait.
\* Only a scan that was undistorted has set it.
ClockBehind ==
  /\ imu_need_init_ => feats_undistort = NoScan
  /\ feats_undistort # NoScan =>
       /\ last_imu_ <= last_lidar_end_time_ /\ last_lidar_end_time_ <= last_timestamp_imu
       /\ \A i \in DOMAIN imu_buffer : last_lidar_end_time_ <= imu_buffer[i]

PropagationInv == SplitInv /\ ClockBehind

\* A fold of + is a sum.
LEMMA FoldIsSum ==
  ASSUME NEW q
  PROVE  FoldSeq(+, 0, q) = SumOver(DOMAIN q, q)
BY DEF FoldSeq, FoldFunction, FoldFunctionOnSet, MapThenFoldSet, SumOver, SumsOn, IsSumOn

Later(a, b) == IF a < b THEN b ELSE a

\* The parts of the steps that the last scan did not cover add up to what lies between its
\* end and the last sample.
LEMMA StepsAddUp ==
  ASSUME NEW n \in Nat, NEW v, \A k \in 1..n + 1 : v[k] \in Int,
         \A k \in 1..n : v[k] <= v[k + 1],
         last_lidar_end_time_ \in Int,
         NEW step, \A k \in 1..n : step[k] = Step(v[k], v[k + 1])
  PROVE  SumOver(1..n, step)
           = Later(v[n + 1], last_lidar_end_time_) - Later(v[1], last_lidar_end_time_)
<1> DEFINE E == last_lidar_end_time_
           S == {m \in Nat : m <= n =>
                   SumOver(1..m, step) = Later(v[m + 1], E) - Later(v[1], E)}
<1>1. ASSUME NEW k \in 1..n
      PROVE  step[k] = Later(v[k + 1], E) - Later(v[k], E) /\ step[k] \in Int
  <2>1. k \in 1..n + 1 /\ k + 1 \in 1..n + 1
    OBVIOUS
  <2>2. v[k] \in Int /\ v[k + 1] \in Int /\ v[k] <= v[k + 1] /\ step[k] = Step(v[k], v[k + 1])
    BY <2>1
  <2> QED
    BY <2>2 DEF Step, Later
<1>2. 0 \in S
  <2>1. 1..0 = {} /\ v[1] \in Int /\ Later(v[1], E) \in Int
    BY DEF Later
  <2>2. SumOver({}, step) = 0
    BY FS_EmptySet, SumOverParts
  <2> QED
    BY <2>1, <2>2
<1>3. ASSUME NEW m \in Nat, m \in S PROVE m + 1 \in S
  <2> SUFFICES ASSUME m + 1 <= n
               PROVE  SumOver(1..m + 1, step) = Later(v[m + 2], E) - Later(v[1], E)
    OBVIOUS
  <2>1. /\ m + 1 \in 1..n /\ m + 1 \in 1..m + 1 /\ m + 2 \in 1..n + 1 /\ 1 \in 1..n + 1
        /\ m + 1 \in 1..n + 1 /\ 1..m + 1 \subseteq 1..n /\ (1..m + 1) \ {m + 1} = 1..m
    OBVIOUS
  <2>2. IsFiniteSet(1..m + 1) /\ \A x \in 1..m + 1 : step[x] \in Int
    BY <1>1, <2>1, FS_Interval
  <2>3. SumOver(1..m + 1, step) = step[m + 1] + SumOver(1..m, step)
    <3>1. \A x \in 1..m + 1 :
            SumOver(1..m + 1, step) = step[x] + SumOver((1..m + 1) \ {x}, step)
      BY <2>2, SumOverParts
    <3> QED
      BY <2>1, <3>1
  <2>4. SumOver(1..m, step) = Later(v[m + 1], E) - Later(v[1], E)
    BY <1>3
  <2>5. step[m + 1] = Later(v[m + 2], E) - Later(v[m + 1], E)
    <3>1. (m + 1) + 1 = m + 2
      OBVIOUS
    <3> QED
      BY <1>1, <2>1, <3>1
  <2>6. Later(v[m + 2], E) \in Int /\ Later(v[m + 1], E) \in Int /\ Later(v[1], E) \in Int
    BY <2>1 DEF Later
  <2> QED
    BY <2>3, <2>4, <2>5, <2>6
<1> HIDE DEF S
<1>4. n \in S
  BY <1>2, <1>3, SetInduction
<1> QED
  BY <1>4 DEF S

\* From the samples of a package the filter goes on to the end of the scan.
LEMMA UndistortMoves ==
  ASSUME UndistortPcl, meas'.imu \in Seq(Int), meas'.imu # <<>>,
         last_imu_ \in Int, last_lidar_end_time_ \in Int, meas'.lidar_end_time \in Int,
         last_imu_ <= last_lidar_end_time_, last_lidar_end_time_ <= meas'.imu[1],
         \A i, j \in DOMAIN meas'.imu : i < j => meas'.imu[i] < meas'.imu[j],
         \A i \in DOMAIN meas'.imu : meas'.imu[i] <= meas'.lidar_end_time
  PROVE  predicted' = last_lidar_end_time_' - last_lidar_end_time_
<1> DEFINE q == meas'.imu
           n == Len(q)
           E == last_lidar_end_time_
           v_imu == <<last_imu_>> \o q
           step == [i \in 1..n |-> Step(v_imu[i], v_imu[i + 1])]
<1>1. /\ n \in Nat /\ n >= 1 /\ DOMAIN q = 1..n
      /\ Len(v_imu) = n + 1 /\ v_imu[1] = last_imu_ /\ v_imu \in Seq(Int)
      /\ \A i \in 1..n : v_imu[i + 1] = q[i]
  OBVIOUS
<1>2. /\ predicted' = FoldSeq(+, 0, step) + Distance(meas'.lidar_end_time, Last(v_imu))
      /\ last_lidar_end_time_' = meas'.lidar_end_time
  BY DEF UndistortPcl
<1> HIDE DEF q, n, v_imu
<1>3. \A k \in 1..n + 1 : v_imu[k] \in Int
  BY <1>1
<1>4. ASSUME NEW k \in 1..n PROVE v_imu[k] <= v_imu[k + 1]
  <2>1. CASE k = 1
    BY <1>1, <2>1 DEF q
  <2>2. CASE k # 1
    <3>1. k - 1 \in 1..n /\ k - 1 < k /\ (k - 1) + 1 = k
      BY <1>1, <2>2
    <3>2. q[k - 1] < q[k] /\ v_imu[k] = q[k - 1] /\ v_imu[k + 1] = q[k]
      BY <1>1, <3>1 DEF q
    <3> QED
      BY <1>1, <1>3, <3>1, <3>2
  <2> QED
    BY <2>1, <2>2
<1>5. SumOver(1..n, step) = Later(v_imu[n + 1], E) - Later(v_imu[1], E)
  BY <1>1, <1>3, <1>4, StepsAddUp
<1>6. DOMAIN step = 1..n
  OBVIOUS
<1>7. FoldSeq(+, 0, step) = Later(v_imu[n + 1], E) - Later(v_imu[1], E)
  BY <1>5, <1>6, FoldIsSum
<1>8. Last(v_imu) = v_imu[n + 1] /\ v_imu[n + 1] \in Int
  BY <1>1, <1>3 DEF Last
<1>9. E <= v_imu[n + 1] /\ v_imu[n + 1] <= meas'.lidar_end_time
  <2>1. v_imu[n + 1] = q[n] /\ q[n] \in Int /\ q[1] \in Int /\ 1 \in DOMAIN q /\ n \in DOMAIN q
    BY <1>1, <1>3
  <2>2. q[n] <= meas'.lidar_end_time /\ q[1] <= q[n]
    <3>1. n = 1 \/ 1 < n
      BY <1>1
    <3> QED
      BY <2>1, <3>1 DEF q
  <2> QED
    BY <2>1, <2>2 DEF q
<1> HIDE DEF step
<1>10. Later(v_imu[n + 1], E) = v_imu[n + 1] /\ Later(v_imu[1], E) = E
  BY <1>1, <1>8, <1>9 DEF Later
<1>11. Distance(meas'.lidar_end_time, Last(v_imu)) = meas'.lidar_end_time - v_imu[n + 1]
  BY <1>8, <1>9 DEF Distance
<1>12. predicted' = (v_imu[n + 1] - E) + (meas'.lidar_end_time - v_imu[n + 1])
  BY <1>2, <1>7, <1>10, <1>11
<1>13. \A a, b, c \in Int : (a - b) + (c - a) = c - b
  OBVIOUS
<1> QED
  BY <1>2, <1>8, <1>12, <1>13

\* What a package takes: samples in their order, the newest no later than the end of the
\* scan, and those that stay are samples that waited before.
LEMMA SyncedSamples ==
  ASSUME SyncAssumption, SplitInv, Synced
  PROVE  /\ meas'.imu \in Seq(Int) /\ meas'.lidar_end_time \in Int
         /\ last_timestamp_imu' = last_timestamp_imu
         /\ meas'.lidar_end_time <= last_timestamp_imu
         /\ \A i, j \in DOMAIN meas'.imu : i < j => meas'.imu[i] < meas'.imu[j]
         /\ \A i \in DOMAIN meas'.imu : meas'.imu[i] <= meas'.lidar_end_time
         /\ \A i \in DOMAIN imu_buffer' : meas'.lidar_end_time <= imu_buffer'[i]
         /\ \A i \in DOMAIN imu_buffer' :
              \E k \in DOMAIN imu_buffer : imu_buffer'[i] = imu_buffer[k]
         /\ \A i \in DOMAIN meas'.imu :
              \E k \in DOMAIN imu_buffer : meas'.imu[i] = imu_buffer[k]
<1> DEFINE end == Pushed.lidar_end_time
           n == NumTaken(end)
           m == Len(imu_buffer)
<1>1. Pushed \in Packages /\ end \in Int
  BY PushedType DEF SplitInv, Synced, Packages, EndTimes, SyncAssumption
<1>2. /\ imu_buffer \in Seq(Int) /\ imu_buffer \in Seq(Times)
      /\ last_timestamp_imu \in Int /\ m \in Nat /\ DOMAIN imu_buffer = 1..m
  BY DEF SplitInv, TypeInv, TypeOK, Times, SyncAssumption
<1>3. n \in Nat /\ n <= m
  BY <1>1, <1>2, PrefixTaken
<1>4. /\ meas' = [Pushed EXCEPT !.imu = SubSeq(imu_buffer, 1, n)]
      /\ imu_buffer' = SubSeq(imu_buffer, n + 1, m)
      /\ lidar_pushed' = FALSE /\ last_timestamp_imu' = last_timestamp_imu
      /\ end <= last_timestamp_imu
  BY <1>1, <1>2 DEF Synced, PopPackage, inputs, ImuArrived
<1> HIDE DEF end, n
<1>5. meas'.lidar_end_time = end /\ meas'.imu = SubSeq(imu_buffer, 1, n)
  BY <1>1, <1>4 DEF Packages, end
<1>6. /\ meas'.imu \in Seq(Int) /\ DOMAIN meas'.imu = 1..n
      /\ \A i \in 1..n : meas'.imu[i] = imu_buffer[i] /\ i \in DOMAIN imu_buffer
  BY <1>2, <1>3, <1>5
<1>7. \A i \in DOMAIN imu_buffer' : n + i \in DOMAIN imu_buffer /\ imu_buffer'[i] = imu_buffer[n + i]
  <2>1. m \in Nat /\ n \in Nat /\ n <= m
    BY <1>2, <1>3
  <2>3. /\ DOMAIN imu_buffer' = 1..m - n
        /\ \A i \in 1..m - n : imu_buffer'[i] = imu_buffer[n + i]
    BY <1>2, <1>4, <2>1, TailOfSequence
  <2>4. \A i \in 1..m - n : n + i \in 1..m
    BY <2>1
  <2> QED
    BY <1>2, <2>3, <2>4
<1>8. /\ \A i \in DOMAIN meas'.imu : meas'.imu[i] <= meas'.lidar_end_time
      /\ \A i \in DOMAIN imu_buffer' : imu_buffer'[i] >= meas'.lidar_end_time
  BY <1>4, SyncedKeepsSplit DEF ImuSplit
<1>9. \A i \in DOMAIN imu_buffer' : meas'.lidar_end_time <= imu_buffer'[i]
  <2>1. \A i \in DOMAIN imu_buffer : imu_buffer[i] \in Int
    BY <1>2
  <2>2. \A i \in DOMAIN imu_buffer' : imu_buffer'[i] \in Int
    BY <1>7, <2>1
  <2> QED
    BY <1>1, <1>5, <1>8, <2>2
<1>10. \A i, j \in DOMAIN meas'.imu : i < j => meas'.imu[i] < meas'.imu[j]
  BY <1>6 DEF SplitInv, SamplesOrdered
<1> QED
  BY <1>1, <1>4, <1>5, <1>6, <1>7, <1>8, <1>9, <1>10

\* A package that is processed leaves the filter's clock where the scan ended, or as it was.
LEMMA ProcessKeepsClock ==
  ASSUME SyncAssumption, PropagationInv, Synced, Process
  PROVE  ClockBehind'
<1>1. /\ meas'.imu \in Seq(Int) /\ meas'.lidar_end_time \in Int
      /\ last_timestamp_imu' = last_timestamp_imu
      /\ meas'.lidar_end_time <= last_timestamp_imu
      /\ \A i \in DOMAIN meas'.imu : meas'.imu[i] <= meas'.lidar_end_time
      /\ \A i \in DOMAIN imu_buffer' : meas'.lidar_end_time <= imu_buffer'[i]
      /\ \A i \in DOMAIN imu_buffer' :
           \E k \in DOMAIN imu_buffer : imu_buffer'[i] = imu_buffer[k]
  BY SyncedSamples DEF PropagationInv
<1>2. CASE meas'.imu = <<>> /\ UNCHANGED <<filter, feats_undistort>>
  BY <1>1, <1>2 DEF filter, PropagationInv, ClockBehind
<1>3. CASE imu_need_init_ /\ IMU_init
  BY <1>1, <1>3 DEF IMU_init, PropagationInv, ClockBehind
<1>4. CASE meas'.imu # <<>> /\ ~imu_need_init_ /\ UndistortPcl
  <2>1. Last(meas'.imu) <= meas'.lidar_end_time
    BY <1>1, <1>4 DEF Last
  <2>2. /\ last_imu_' = Last(meas'.imu) /\ last_lidar_end_time_' = meas'.lidar_end_time
        /\ imu_need_init_' = imu_need_init_
    BY <1>4 DEF UndistortPcl
  <2> QED
    BY <1>1, <1>4, <2>1, <2>2 DEF ClockBehind
<1> QED
  BY <1>2, <1>3, <1>4 DEF Process

\* Every step keeps the filter's clock behind the samples that wait.
LEMMA PropagationStep ==
  ASSUME SyncAssumption, ~StepBack, PropagationInv, [Next]_vars
  PROVE  PropagationInv'
<1>1. SplitInv'
  BY SplitStep DEF PropagationInv
<1>2. CASE Sample
  <2>1. PICK stamp \in Times : stamp > last_timestamp_imu /\ imu_cbk(stamp)
    BY <1>2 DEF Sample
  <2>2. stamp \in Int /\ last_timestamp_imu \in Int /\ last_lidar_end_time_ \in Int
        /\ imu_buffer \in Seq(Int)
    BY DEF PropagationInv, SplitInv, TypeInv, TypeOK, Times, EndTimes, SyncAssumption
  <2>3. /\ imu_buffer' = Append(imu_buffer, stamp) /\ last_timestamp_imu' = stamp
        /\ UNCHANGED <<imu_need_init_, feats_undistort, last_imu_, last_lidar_end_time_>>
    BY <2>1, <2>2 DEF imu_cbk, filter, mapping
  <2>4. ASSUME feats_undistort # NoScan, NEW i \in DOMAIN imu_buffer'
        PROVE last_lidar_end_time_ <= imu_buffer'[i]
    <3>1. CASE i \in DOMAIN imu_buffer
      <4>1. imu_buffer'[i] = imu_buffer[i]
        BY <2>2, <2>3, <3>1
      <4> QED
        BY <2>4, <3>1, <4>1 DEF PropagationInv, ClockBehind
    <3>2. CASE i \notin DOMAIN imu_buffer
      <4>1. imu_buffer'[i] = stamp
        BY <2>2, <2>3, <2>4, <3>2
      <4> QED
        BY <2>1, <2>2, <2>4, <4>1 DEF PropagationInv, ClockBehind
    <3> QED
      BY <3>1, <3>2
  <2>5. feats_undistort # NoScan => last_lidar_end_time_ <= stamp
    BY <2>1, <2>2 DEF PropagationInv, ClockBehind
  <2> QED
    BY <1>1, <2>3, <2>4, <2>5 DEF PropagationInv, ClockBehind
<1>3. CASE Scan
  BY <1>1, <1>3 DEF Scan, livox_pcl_cbk, filter, mapping, PropagationInv, ClockBehind
<1>4. CASE Waiting
  BY <1>1, <1>4 DEF Waiting, buffers, inputs, filter, mapping, PropagationInv, ClockBehind
<1>5. CASE FirstScan
  <2>1. UNCHANGED <<filter, feats_undistort>> /\ Synced
    BY <1>5 DEF FirstScan
  <2>2. /\ last_timestamp_imu' = last_timestamp_imu
        /\ \A i \in DOMAIN imu_buffer' :
             \E k \in DOMAIN imu_buffer : imu_buffer'[i] = imu_buffer[k]
    BY <2>1, SyncedSamples DEF PropagationInv
  <2> QED
    BY <1>1, <2>1, <2>2 DEF filter, PropagationInv, ClockBehind
<1>6. CASE Package
  BY <1>1, <1>6, ProcessKeepsClock DEF Package, PropagationInv
<1>7. CASE UNCHANGED vars
  BY <1>1, <1>7 DEF vars, buffers, inputs, filter, mapping, PropagationInv, ClockBehind
<1> QED
  BY <1>2, <1>3, <1>4, <1>5, <1>6, <1>7 DEF Next, timer_callback, NoPackage

\* A scan that is undistorted after another one moves the filter by the time between their ends.
LEMMA PackageMoves ==
  ASSUME SyncAssumption, PropagationInv, [Next]_vars,
         feats_undistort' # feats_undistort, feats_undistort # NoScan
  PROVE  predicted' = last_lidar_end_time_' - last_lidar_end_time_
<1>1. Synced /\ Process
  BY DEF Next, Scan, livox_pcl_cbk, Sample, imu_cbk, timer_callback, NoPackage, Waiting, FirstScan,
         Package, mapping, vars
<1>2. UndistortPcl /\ meas'.imu # <<>>
  BY <1>1 DEF Process, IMU_init
<1>3. /\ meas'.imu \in Seq(Int) /\ meas'.lidar_end_time \in Int
      /\ \A i, j \in DOMAIN meas'.imu : i < j => meas'.imu[i] < meas'.imu[j]
      /\ \A i \in DOMAIN meas'.imu : meas'.imu[i] <= meas'.lidar_end_time
      /\ \A i \in DOMAIN meas'.imu :
           \E k \in DOMAIN imu_buffer : meas'.imu[i] = imu_buffer[k]
  BY <1>1, SyncedSamples DEF PropagationInv
<1>4. last_imu_ \in Int /\ last_lidar_end_time_ \in Int
  BY DEF PropagationInv, SplitInv, TypeInv, TypeOK, Times, EndTimes, SyncAssumption
<1>5. last_imu_ <= last_lidar_end_time_ /\ last_lidar_end_time_ <= meas'.imu[1]
  <2>1. 1 \in DOMAIN meas'.imu
    BY <1>2, <1>3
  <2> QED
    BY <1>3, <2>1 DEF PropagationInv, ClockBehind
<1> QED
  BY <1>2, <1>3, <1>4, <1>5, UndistortMoves

\* While the clocks do not step back, the filter is moved from one undistorted scan to the
\* next by exactly the time between their ends, for any samples and lengths, also over
\* packages without samples (IMU_Processing.hpp:241-299).
THEOREM PropagationIsExact ==
  ASSUME ~StepBack
  PROVE  Spec => PropagationExact
<1>1. SyncAssumption
  BY SyncAssumption DEF SyncAssumption
<1>2. Init => PropagationInv
  <2> SUFFICES ASSUME Init PROVE PropagationInv
    OBVIOUS
  <2>1. TypeInv
    BY <1>1, TypeStart
  <2>2. /\ imu_buffer = <<>> /\ last_timestamp_imu = -1
        /\ meas.lidar_end_time = 0 /\ meas.imu = <<>> /\ feats_undistort = NoScan
    BY DEF Init
  <2> QED
    BY <2>1, <2>2 DEF PropagationInv, ClockBehind, SplitInv, SamplesOrdered, ImuSplit
<1>3. PropagationInv /\ [Next]_vars => PropagationInv'
  BY <1>1, PropagationStep
<1>4. PropagationInv /\ [Next]_vars
        => [feats_undistort' # feats_undistort /\ feats_undistort # NoScan
              => predicted' = last_lidar_end_time_' - last_lidar_end_time_]_vars
  BY <1>1, PackageMoves
<1> QED
  BY <1>2, <1>3, <1>4, PTL DEF Spec, PropagationExact
=============================================================================
