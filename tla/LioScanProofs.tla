----------------------------- MODULE LioScanProofs -----------------------------
(***************************************************************************)
(* What holds of the parts of FAST-LIO that work on a scan, for any scan   *)
(* and any parameters: the points it keeps and their times, the features,  *)
(* the iterated update, the local map, and the map that is published.      *)
(***************************************************************************)
EXTENDS ScanFilter, FeatureExtraction, FilterUpdate, LocalMap, LioOutputs, NumberTheorems

-----------------------------------------------------------------------------
(* The times of the points *)

Kept == [sent : Nat, line : ScanLines \cup {N_SCANS}, curvature : Int]
FromYaw == ~given_offset_time /\ lidar_type # "default"

FilterTypes ==
  /\ lidar_type \in LidarTypes /\ feature_enabled \in BOOLEAN /\ given_offset_time \in BOOLEAN
  /\ point_time \in Nat
  /\ first_time \in [ScanLines -> Int] /\ yaw_fp \in [ScanLines -> Int]
  /\ time_last \in [ScanLines -> Int] /\ last_seen \in [ScanLines -> Nat]
  /\ kept_points \in Seq(Kept)

\* The clock of a line that has begun: it began with the yaw of its first point, and as
\* long as that is less than two turns ago, time_last is the time since then.
LineClock(l) ==
  /\ yaw_fp[l] = Yaw(first_time[l])
  /\ 0 <= first_time[l] /\ first_time[l] <= last_seen[l] /\ last_seen[l] <= point_time
  /\ last_seen[l] - first_time[l] < 2 * Turn => time_last[l] = last_seen[l] - first_time[l]

\* A point is kept of a line that has begun.
KeptBegun ==
  FromYaw => \A n \in DOMAIN kept_points : /\ kept_points[n].line \in ScanLines
                                           /\ first_time[kept_points[n].line] # Unseen

\* The only handlers whose message may have no times are those that keep the clocks.
FilterInv ==
  /\ FilterTypes
  /\ FromYaw => lidar_type \in {"VELO16", "MID360"}
  /\ lidar_type = "MID360" => ~given_offset_time
  /\ FromYaw => \A l \in ScanLines : first_time[l] # Unseen => LineClock(l)
  /\ KeptBegun
  /\ ScanTimes

\* What the line has turned, from the yaw: the time but for whole turns.
LEMMA TurnedRemainder ==
  ASSUME NEW first \in Int, NEW time \in Int, NEW l \in ScanLines, yaw_fp[l] = Yaw(first)
  PROVE  \E k \in Int : /\ Turned(l, Yaw(time)) \in 0..Turn - 1
                        /\ time - first = Turn * k + Turned(l, Yaw(time))
<1> DEFINE x == (-first) % Turn
           y == (-time) % Turn
           q1 == (-first) \div Turn
           q2 == (-time) \div Turn
<1>1. Turn \in Nat /\ Turn > 0
  BY FilterAssumption
<1>2. -first \in Int /\ -time \in Int
  OBVIOUS
<1>3. q1 \in Int /\ -first = Turn * q1 + x /\ x \in 0..Turn - 1
  BY <1>1, <1>2, Quotient
<1>4. q2 \in Int /\ -time = Turn * q2 + y /\ y \in 0..Turn - 1
  BY <1>1, <1>2, Quotient
<1>5. Turned(l, Yaw(time)) = IF y <= x THEN x - y ELSE x - y + Turn
  BY DEF Turned, Yaw
<1> HIDE DEF x, y, q1, q2
<1>6. q1 - q2 \in Int /\ q1 - q2 - 1 \in Int /\ Turn * (q1 - q2) = Turn * q1 - Turn * q2
      /\ Turn * (q1 - q2 - 1) = Turn * q1 - Turn * q2 - Turn
      /\ Turn * q1 \in Int /\ Turn * q2 \in Int
  BY <1>1, <1>3, <1>4
<1>7. CASE y <= x
  <2>1. Turned(l, Yaw(time)) = x - y /\ x - y \in 0..Turn - 1
    BY <1>1, <1>3, <1>4, <1>5, <1>7
  <2>2. time - first = Turn * (q1 - q2) + (x - y)
    BY <1>3, <1>4, <1>6
  <2> QED
    BY <1>6, <2>1, <2>2
<1>8. CASE ~(y <= x)
  <2>1. Turned(l, Yaw(time)) = x - y + Turn /\ x - y + Turn \in 0..Turn - 1
    BY <1>1, <1>3, <1>4, <1>5, <1>8
  <2>2. time - first = Turn * (q1 - q2 - 1) + (x - y + Turn)
    BY <1>1, <1>3, <1>4, <1>6
  <2> QED
    BY <1>6, <2>1, <2>2
<1> QED
  BY <1>7, <1>8

\* Within two turns the time is found, when that of the point before is known and less
\* than a turn ago.
LEMMA OffsetTimeRight ==
  ASSUME NEW l \in ScanLines, NEW first \in Int, NEW time \in Int, yaw_fp[l] = Yaw(first),
         time_last[l] \in Int, 0 <= time_last[l], time_last[l] <= time - first,
         time - first - time_last[l] < Turn, time - first < 2 * Turn
  PROVE  OffsetTime(l, Yaw(time)) = time - first
<1> DEFINE d == time - first
           turned == Turned(l, Yaw(time))
<1>1. Turn \in Nat /\ Turn > 0
  BY FilterAssumption
<1>2. PICK k \in Int : turned \in 0..Turn - 1 /\ d = Turn * k + turned
  BY TurnedRemainder
<1>3. OffsetTime(l, Yaw(time)) = turned + (IF turned < time_last[l] THEN Turn ELSE 0)
  BY DEF OffsetTime
<1>4. d \in Int /\ turned \in Int /\ 0 <= d /\ d < 2 * Turn
  BY <1>2
<1> HIDE DEF d, turned
<1>5. k = 0 \/ k = 1
  <2>1. CASE k >= 2
    <3>1. Turn * k >= 2 * Turn
      BY <1>1, <2>1
    <3> QED
      BY <1>1, <1>2, <1>4, <3>1
  <2>2. CASE k <= -1
    <3>1. Turn * k <= -Turn
      BY <1>1, <2>2
    <3> QED
      BY <1>1, <1>2, <1>4, <3>1
  <2> QED
    BY <2>1, <2>2
<1>6. CASE k = 0
  BY <1>1, <1>2, <1>3, <1>4, <1>6 DEF d
<1>7. CASE k = 1
  BY <1>1, <1>2, <1>3, <1>4, <1>7 DEF d
<1> QED
  BY <1>5, <1>6, <1>7 DEF d

\* A point that is kept with its time leaves the times of the others, while the lines that
\* have begun keep their first time.
TimeRight(q) ==
  /\ given_offset_time /\ lidar_type # "default" => q.curvature = q.sent
  /\ FromYaw => /\ q.line \in ScanLines /\ first_time'[q.line] # Unseen
                /\ q.sent - first_time'[q.line] < 2 * Turn =>
                     q.curvature = q.sent - first_time'[q.line]

LEMMA KeptStep ==
  ASSUME FilterInv, NEW q \in Kept, UNCHANGED <<lidar_type, given_offset_time>>,
         \/ kept_points' = kept_points
         \/ kept_points' = Append(kept_points, q) /\ TimeRight(q),
         FromYaw => \A l \in ScanLines : first_time[l] # Unseen => first_time'[l] = first_time[l]
  PROVE  kept_points' \in Seq(Kept) /\ KeptBegun' /\ ScanTimes'
<1>1. kept_points \in Seq(Kept) /\ KeptBegun /\ ScanTimes
  BY DEF FilterInv, FilterTypes
<1>2. FromYaw' = FromYaw /\ lidar_type' = lidar_type /\ given_offset_time' = given_offset_time
  BY DEF FromYaw
<1>3. /\ kept_points' \in Seq(Kept)
      /\ \A n \in DOMAIN kept_points : n \in DOMAIN kept_points' /\ kept_points'[n] = kept_points[n]
      /\ \A n \in DOMAIN kept_points' :
           n \in DOMAIN kept_points \/ (kept_points'[n] = q /\ TimeRight(q))
  <2>1. CASE kept_points' = kept_points
    BY <1>1, <2>1
  <2>2. CASE kept_points' = Append(kept_points, q) /\ TimeRight(q)
    <3>1. /\ kept_points' \in Seq(Kept) /\ Len(kept_points') = Len(kept_points) + 1
          /\ \A n \in 1..Len(kept_points) : kept_points'[n] = kept_points[n]
          /\ kept_points'[Len(kept_points) + 1] = q
      BY <1>1, <2>2
    <3>2. /\ Len(kept_points) \in Nat /\ DOMAIN kept_points = 1..Len(kept_points)
          /\ DOMAIN kept_points' = 1..Len(kept_points) + 1
      BY <1>1, <3>1
    <3>3. \A n \in 1..Len(kept_points) + 1 : n \in 1..Len(kept_points) \/ n = Len(kept_points) + 1
      BY <3>2
    <3> QED
      BY <2>2, <3>1, <3>2, <3>3
  <2> QED
    BY <2>1, <2>2
<1>4. KeptBegun'
  <2> SUFFICES ASSUME FromYaw, NEW n \in DOMAIN kept_points'
               PROVE  kept_points'[n].line \in ScanLines /\ first_time'[kept_points'[n].line] # Unseen
    BY <1>2 DEF KeptBegun, ScanLines, Unseen
  <2>1. CASE n \in DOMAIN kept_points
    <3>1. kept_points[n].line \in ScanLines /\ first_time[kept_points[n].line] # Unseen
      BY <1>1, <2>1 DEF KeptBegun
    <3> QED
      BY <1>3, <2>1, <3>1
  <2>2. CASE kept_points'[n] = q /\ TimeRight(q)
    BY <2>2 DEF TimeRight
  <2> QED
    BY <1>3, <2>1, <2>2
<1>5. ScanTimes'
  <2> SUFFICES ASSUME NEW n \in DOMAIN kept_points'
               PROVE  /\ given_offset_time /\ lidar_type # "default" =>
                           kept_points'[n].curvature = kept_points'[n].sent
                      /\ FromYaw /\ Steady(kept_points[n])' =>
                           kept_points'[n].curvature
                             = kept_points'[n].sent - first_time'[kept_points'[n].line]
    BY <1>2 DEF ScanTimes, FromYaw
  <2>1. CASE n \in DOMAIN kept_points
    <3>1. /\ given_offset_time /\ lidar_type # "default" => kept_points[n].curvature = kept_points[n].sent
          /\ FromYaw /\ Steady(kept_points[n]) =>
               kept_points[n].curvature = kept_points[n].sent - first_time[kept_points[n].line]
      BY <1>1, <2>1 DEF ScanTimes, FromYaw
    <3>2. ASSUME FromYaw, Steady(kept_points[n])'
          PROVE  /\ Steady(kept_points[n])
                 /\ first_time'[kept_points[n].line] = first_time[kept_points[n].line]
      <4>1. \A m \in DOMAIN kept_points :
              first_time'[kept_points[m].line] = first_time[kept_points[m].line]
        BY <1>1, <3>2 DEF KeptBegun
      <4>2. ASSUME NEW m \in DOMAIN kept_points, kept_points[m].line = kept_points[n].line
            PROVE  kept_points[m].sent - first_time[kept_points[m].line] < 2 * Turn
        <5>1. m \in DOMAIN kept_points' /\ kept_points'[m] = kept_points[m]
              /\ kept_points'[n] = kept_points[n]
          BY <1>3, <2>1
        <5>2. kept_points'[m].sent - first_time'[kept_points'[m].line] < 2 * Turn
          BY <3>2, <4>2, <5>1 DEF Steady
        <5> QED
          BY <4>1, <5>1, <5>2
      <4> QED
        BY <2>1, <4>1, <4>2 DEF Steady
    <3> QED
      BY <1>3, <2>1, <3>1, <3>2
  <2>2. CASE kept_points'[n] = q /\ TimeRight(q)
    <3>1. ASSUME FromYaw, Steady(kept_points[n])'
          PROVE  q.sent - first_time'[q.line] < 2 * Turn
      BY <2>2, <3>1 DEF Steady
    <3> QED
      BY <2>2, <3>1 DEF TimeRight
  <2> QED
    BY <1>3, <2>1, <2>2
<1> QED
  BY <1>3, <1>4, <1>5

\* The point the lidar measured.
LEMMA MeasuredPoint ==
  ASSUME FilterInv, NEW p \in Measured
  PROVE  /\ p.time \in Nat /\ point_time <= p.time /\ p.line \in ScanLines \cup {N_SCANS}
         /\ p.line \in ScanLines \/ LinesAsked
         /\ p.line \in ScanLines /\ first_time[p.line] # Unseen => p.time - last_seen[p.line] < Turn
         /\ [sent |-> p.time, line |-> p.line, curvature |-> p.time] \in Kept
         /\ [sent |-> p.time, line |-> p.line, curvature |-> 0] \in Kept
<1>1. Turn \in Nat /\ point_time \in Nat
  BY FilterAssumption DEF FilterInv, FilterTypes
<1>2. p.time \in point_time..point_time + Turn - 1 /\ p.line \in ScanLines \cup {N_SCANS}
  BY DEF Measured
<1>3. p.time \in Nat /\ point_time <= p.time
  BY <1>1, <1>2
<1> QED
  BY <1>2, <1>3 DEF Measured, Kept

\* What a turn of the loop does whatever the handler.
Seen(p) ==
  /\ point_time' = p.time
  /\ last_seen' = [l \in ScanLines |-> IF l = p.line THEN p.time ELSE last_seen[l]]
  /\ UNCHANGED <<lidar_type, feature_enabled, given_offset_time>>

\* The handlers that keep no clock.
LEMMA UnclockedStep ==
  ASSUME FilterInv, NEW p \in Measured, Seen(p), UNCHANGED <<first_time, yaw_fp, time_last>>,
         ~FromYaw \/ (p.line \notin ScanLines /\ kept_points' = kept_points),
         NEW q \in Kept, kept_points' = kept_points \/ kept_points' = Append(kept_points, q),
         given_offset_time /\ lidar_type # "default" => q.curvature = q.sent
  PROVE  FilterInv'
<1>1. p.time \in Nat /\ point_time <= p.time /\ point_time \in Nat /\ last_seen \in [ScanLines -> Nat]
  BY MeasuredPoint DEF FilterInv, FilterTypes
<1>2. kept_points' \in Seq(Kept) /\ KeptBegun' /\ ScanTimes'
  <2>1. \/ kept_points' = kept_points
        \/ kept_points' = Append(kept_points, q) /\ TimeRight(q)
    BY DEF TimeRight
  <2>2. UNCHANGED <<lidar_type, given_offset_time>>
    BY DEF Seen
  <2> QED
    BY <2>1, <2>2, KeptStep
<1>3. last_seen' \in [ScanLines -> Nat]
  BY <1>1 DEF Seen
<1>4. FromYaw => \A l \in ScanLines : last_seen'[l] = last_seen[l]
  BY DEF Seen
<1>5. ASSUME FromYaw, NEW l \in ScanLines, first_time[l] # Unseen
      PROVE  LineClock(l)'
  <2>1. LineClock(l) /\ last_seen'[l] = last_seen[l] /\ last_seen[l] \in Nat
    BY <1>1, <1>4, <1>5 DEF FilterInv
  <2> QED
    BY <1>1, <2>1 DEF LineClock, Seen, Yaw
<1>6. FromYaw' = FromYaw
  BY DEF FromYaw, Seen
<1>7. FilterTypes'
  BY <1>1, <1>2, <1>3 DEF FilterInv, FilterTypes, Seen, Kept, ScanLines
<1> QED
  BY <1>2, <1>5, <1>6, <1>7 DEF FilterInv, Seen, ScanLines, Unseen

\* The handlers whose lines have clocks.
LEMMA ClockStep ==
  ASSUME FilterInv, FromYaw, NEW p \in Measured, p.line \in ScanLines, Seen(p),
         NEW kept \in BOOLEAN, FirstOfLine(p) \/ TimedPoint(kept, p)
  PROVE  FilterInv'
<1> DEFINE l0 == p.line
           c == OffsetTime(l0, Yaw(p.time))
           q == [sent |-> p.time, line |-> l0, curvature |-> c]
<1>1. /\ p.time \in Nat /\ point_time <= p.time /\ point_time \in Nat
      /\ last_seen \in [ScanLines -> Nat] /\ first_time \in [ScanLines -> Int]
      /\ yaw_fp \in [ScanLines -> Int] /\ time_last \in [ScanLines -> Int]
      /\ Turn \in Nat /\ Turn > 0
  <2>1. p.time \in Nat /\ point_time <= p.time
    BY MeasuredPoint
  <2> QED
    BY <2>1, FilterAssumption DEF FilterInv, FilterTypes
<1>2. Yaw(p.time) \in Int
  BY <1>1 DEF Yaw
<1>3. c \in Int /\ q \in Kept
  BY <1>1, <1>2 DEF OffsetTime, Turned, Kept
<1>4. FromYaw' = FromYaw /\ UNCHANGED <<lidar_type, given_offset_time>>
  BY DEF FromYaw, Seen
<1>5. ASSUME NEW l \in ScanLines, first_time[l] # Unseen PROVE LineClock(l)
  BY <1>5 DEF FilterInv
<1>6. last_seen' \in [ScanLines -> Nat] /\ last_seen'[l0] = p.time
      /\ \A l \in ScanLines : l # l0 => last_seen'[l] = last_seen[l]
  BY <1>1 DEF Seen
<1> HIDE DEF c
<1>7. CASE FirstOfLine(p)
  <2>1. /\ first_time[l0] = Unseen
        /\ first_time' = [first_time EXCEPT ![l0] = p.time]
        /\ yaw_fp' = [yaw_fp EXCEPT ![l0] = Yaw(p.time)]
        /\ time_last' = [time_last EXCEPT ![l0] = 0]
        /\ kept_points' = kept_points
    BY <1>7 DEF FirstOfLine, Drop
  <2>2. kept_points' \in Seq(Kept) /\ KeptBegun' /\ ScanTimes'
    <3>1. \A l \in ScanLines : first_time[l] # Unseen => first_time'[l] = first_time[l]
      BY <1>1, <2>1
    <3> QED
      BY <1>3, <1>4, <2>1, <3>1, KeptStep
  <2>3. /\ first_time' \in [ScanLines -> Int] /\ yaw_fp' \in [ScanLines -> Int]
        /\ time_last' \in [ScanLines -> Int]
        /\ first_time'[l0] = p.time /\ yaw_fp'[l0] = Yaw(p.time) /\ time_last'[l0] = 0
        /\ \A l \in ScanLines : l # l0 => /\ first_time'[l] = first_time[l] /\ yaw_fp'[l] = yaw_fp[l]
                                          /\ time_last'[l] = time_last[l]
    BY <1>1, <1>2, <2>1
  <2>4. ASSUME NEW l \in ScanLines, first_time'[l] # Unseen PROVE LineClock(l)'
    <3>1. CASE l = l0
      <4>1. /\ yaw_fp'[l] = Yaw(first_time'[l]) /\ first_time'[l] = p.time /\ last_seen'[l] = p.time
            /\ point_time' = p.time /\ time_last'[l] = 0
        BY <1>6, <2>3, <3>1 DEF Seen
      <4> QED
        BY <1>1, <4>1 DEF LineClock, Yaw
    <3>2. CASE l # l0
      <4>1. LineClock(l) /\ last_seen[l] \in Nat
        BY <1>1, <1>5, <2>3, <2>4, <3>2
      <4>2. /\ first_time'[l] = first_time[l] /\ yaw_fp'[l] = yaw_fp[l] /\ time_last'[l] = time_last[l]
            /\ last_seen'[l] = last_seen[l] /\ point_time' = p.time
        BY <1>6, <2>3, <3>2 DEF Seen
      <4> QED
        BY <1>1, <4>1, <4>2 DEF LineClock, Yaw
    <3> QED
      BY <3>1, <3>2
  <2>5. FilterTypes'
    BY <1>1, <1>6, <2>2, <2>3 DEF FilterInv, FilterTypes, Seen, Kept, ScanLines
  <2> QED
    BY <1>4, <2>2, <2>4, <2>5 DEF FilterInv, Seen, ScanLines, Unseen
<1>8. CASE TimedPoint(kept, p)
  <2>1. /\ first_time[l0] # Unseen
        /\ time_last' = [time_last EXCEPT ![l0] = c]
        /\ kept_points' = kept_points \/ kept_points' = Append(kept_points, q)
        /\ first_time' = first_time /\ yaw_fp' = yaw_fp
    BY <1>8 DEF TimedPoint, KeepIf, Keep, Drop, c
  <2>2. p.time - first_time[l0] < 2 * Turn => c = p.time - first_time[l0]
    <3> SUFFICES ASSUME p.time - first_time[l0] < 2 * Turn PROVE c = p.time - first_time[l0]
      OBVIOUS
    <3>1. LineClock(l0) /\ p.time - last_seen[l0] < Turn
      BY <1>5, <2>1, MeasuredPoint
    <3>2. /\ first_time[l0] \in Int /\ last_seen[l0] \in Int /\ time_last[l0] \in Int
          /\ yaw_fp[l0] = Yaw(first_time[l0])
          /\ first_time[l0] <= last_seen[l0] /\ last_seen[l0] <= p.time
      BY <1>1, <3>1 DEF LineClock
    <3>3. last_seen[l0] - first_time[l0] < 2 * Turn
      BY <1>1, <3>2
    <3>4. time_last[l0] = last_seen[l0] - first_time[l0]
      BY <3>1, <3>3 DEF LineClock
    <3>5. /\ 0 <= time_last[l0] /\ time_last[l0] <= p.time - first_time[l0]
          /\ p.time - first_time[l0] - time_last[l0] < Turn
      BY <1>1, <3>1, <3>2, <3>4
    <3> QED
      BY <1>1, <3>2, <3>5, OffsetTimeRight DEF c
  <2>3. kept_points' \in Seq(Kept) /\ KeptBegun' /\ ScanTimes'
    <3>1. TimeRight(q)
      BY <2>1, <2>2 DEF TimeRight, FromYaw
    <3> HIDE DEF q
    <3> QED
      BY <1>3, <1>4, <2>1, <3>1, KeptStep
  <2>4. /\ time_last' \in [ScanLines -> Int] /\ time_last'[l0] = c
        /\ \A l \in ScanLines : l # l0 => time_last'[l] = time_last[l]
    BY <1>1, <1>3, <2>1
  <2>5. ASSUME NEW l \in ScanLines, first_time[l] # Unseen PROVE LineClock(l)'
    <3>1. LineClock(l) /\ last_seen[l] \in Nat /\ first_time[l] \in Int
      BY <1>1, <1>5, <2>5
    <3>2. CASE l = l0
      <4>1. /\ last_seen'[l] = p.time /\ point_time' = p.time /\ time_last'[l] = c
            /\ first_time'[l] = first_time[l] /\ yaw_fp'[l] = yaw_fp[l]
        BY <1>6, <2>1, <2>4, <3>2 DEF Seen
      <4>2. first_time[l] <= p.time
        BY <1>1, <3>1 DEF LineClock
      <4> QED
        BY <1>1, <2>2, <3>1, <3>2, <4>1, <4>2 DEF LineClock, Yaw
    <3>3. CASE l # l0
      <4>1. /\ last_seen'[l] = last_seen[l] /\ point_time' = p.time /\ time_last'[l] = time_last[l]
            /\ first_time'[l] = first_time[l] /\ yaw_fp'[l] = yaw_fp[l]
        BY <1>6, <2>1, <2>4, <3>3 DEF Seen
      <4> QED
        BY <1>1, <3>1, <4>1 DEF LineClock, Yaw
    <3> QED
      BY <3>2, <3>3
  <2>6. FilterTypes'
    BY <1>1, <1>6, <2>1, <2>3, <2>4 DEF FilterInv, FilterTypes, Seen, Kept, ScanLines
  <2> QED
    BY <1>4, <2>1, <2>3, <2>5, <2>6 DEF FilterInv, Seen, ScanLines, Unseen
<1> QED
  BY <1>7, <1>8

\* One handler at a time.
LEMMA PointStep ==
  ASSUME FilterInv, NEW p \in Measured, Seen(p), ProcessPoint(p)
  PROVE  FilterInv'
<1> DEFINE timed == [sent |-> p.time, line |-> p.line, curvature |-> p.time]
           plain == [sent |-> p.time, line |-> p.line, curvature |-> 0]
<1>1. /\ timed \in Kept /\ plain \in Kept /\ timed.curvature = timed.sent
      /\ p.line \in ScanLines \/ LinesAsked
  BY MeasuredPoint
<1>2. FromYaw => lidar_type \in {"VELO16", "MID360"}
  BY DEF FilterInv
<1>3. CASE lidar_type = "AVIA" /\ avia_handler(p)
  <2>1. UNCHANGED <<first_time, yaw_fp, time_last>>
        /\ (kept_points' = kept_points \/ kept_points' = Append(kept_points, timed))
    BY <1>3 DEF avia_handler, KeepIf, Keep, Drop
  <2>2. ~FromYaw
    BY <1>2, <1>3
  <2> HIDE DEF timed
  <2> QED
    BY <1>1, <2>1, <2>2, UnclockedStep
<1>4. CASE lidar_type = "OUST64" /\ oust64_handler(p)
  <2>1. UNCHANGED <<first_time, yaw_fp, time_last>>
        /\ (kept_points' = kept_points \/ kept_points' = Append(kept_points, timed))
    BY <1>4 DEF oust64_handler, KeepIf, Keep, Drop
  <2>2. ~FromYaw
    BY <1>2, <1>4
  <2> HIDE DEF timed
  <2> QED
    BY <1>1, <2>1, <2>2, UnclockedStep
<1>5. CASE lidar_type = "default" /\ default_handler(p)
  <2>1. UNCHANGED <<first_time, yaw_fp, time_last>>
        /\ (kept_points' = kept_points \/ kept_points' = Append(kept_points, plain))
    BY <1>5 DEF default_handler, KeepIf, Keep, Drop
  <2>2. ~FromYaw /\ ~(lidar_type # "default")
    BY <1>5 DEF FromYaw
  <2> HIDE DEF plain
  <2> QED
    BY <1>1, <2>1, <2>2, UnclockedStep
<1>6. CASE lidar_type = "VELO16" /\ velodyne_handler(p)
  <2>1. CASE p.line \notin ScanLines
    <3>1. UNCHANGED <<first_time, yaw_fp, time_last>> /\ kept_points' = kept_points
      BY <1>6, <2>1 DEF velodyne_handler, Drop
    <3> HIDE DEF timed
    <3> QED
      BY <1>1, <2>1, <3>1, UnclockedStep
  <2>2. CASE p.line \in ScanLines /\ given_offset_time
    <3>1. UNCHANGED <<first_time, yaw_fp, time_last>>
          /\ (kept_points' = kept_points \/ kept_points' = Append(kept_points, timed))
      BY <1>6, <2>2 DEF velodyne_handler, KeepIf, Keep, Drop
    <3>2. ~FromYaw
      BY <2>2 DEF FromYaw
    <3> HIDE DEF timed
    <3> QED
      BY <1>1, <3>1, <3>2, UnclockedStep
  <2>3. CASE p.line \in ScanLines /\ ~given_offset_time
    <3> DEFINE kept == feature_enabled \/ (Thinned(point_idx) /\ Far(p))
    <3>1. (FirstOfLine(p) \/ TimedPoint(kept, p)) /\ FromYaw /\ kept \in BOOLEAN
      BY <1>6, <2>3 DEF velodyne_handler, FromYaw
    <3> HIDE DEF kept
    <3> QED
      BY <2>3, <3>1, ClockStep
  <2> QED
    BY <2>1, <2>2, <2>3
<1>7. CASE lidar_type = "MID360" /\ mid360_handler(p)
  <2>1. p.line \in ScanLines /\ FromYaw
    BY <1>1, <1>7 DEF LinesAsked, FilterInv, FromYaw
  <2>2. (FirstOfLine(p) \/ TimedPoint(Far(p), p)) /\ Far(p) \in BOOLEAN
    BY <1>7 DEF mid360_handler, Far
  <2> QED
    BY <2>1, <2>2, ClockStep
<1> QED
  BY <1>3, <1>4, <1>5, <1>6, <1>7 DEF ProcessPoint

\* The time of a kept point is right: as it was sent, or, where it is computed from the yaw,
\* for two turns of its line, as long as less than a turn lies between two of its points;
\* for any number of lines, any turn and any thinning (preprocess.cpp:430-457).
THEOREM TimesRight == FilterSpec => []ScanTimes
<1>1. FilterInit => FilterInv
  <2> SUFFICES ASSUME FilterInit PROVE FilterInv
    OBVIOUS
  <2>1. /\ lidar_type \in LidarTypes /\ feature_enabled \in BOOLEAN
        /\ given_offset_time \in (IF lidar_type = "VELO16" THEN BOOLEAN ELSE {lidar_type # "MID360"})
        /\ point_time = 0 /\ kept_points = <<>>
        /\ first_time = [l \in ScanLines |-> Unseen]
        /\ yaw_fp = [l \in ScanLines |-> 0] /\ time_last = [l \in ScanLines |-> 0]
        /\ last_seen = [l \in ScanLines |-> 0]
    BY DEF FilterInit
  <2>2. /\ given_offset_time \in BOOLEAN
        /\ ~given_offset_time => lidar_type \in {"VELO16", "MID360"}
        /\ lidar_type = "MID360" => ~given_offset_time
    BY <2>1
  <2>3. FilterTypes
    BY <2>1, <2>2 DEF FilterTypes, Unseen
  <2>4. DOMAIN kept_points = {} /\ \A l \in ScanLines : first_time[l] = Unseen
    BY <2>1
  <2> QED
    BY <2>2, <2>3, <2>4 DEF FilterInv, KeptBegun, ScanTimes, FromYaw
<1>2. FilterInv /\ [FilterNext]_filterVars => FilterInv'
  <2> SUFFICES ASSUME FilterInv, [FilterNext]_filterVars PROVE FilterInv'
    OBVIOUS
  <2>1. CASE FilterNext
    <3>1. PICK p \in Measured : ProcessPoint(p) /\ Seen(p)
      BY <2>1 DEF FilterNext, Seen
    <3> QED
      BY <3>1, PointStep
  <2>2. CASE UNCHANGED filterVars
    BY <2>2 DEF filterVars, FilterInv, FilterTypes, FromYaw, KeptBegun, LineClock, ScanTimes, Steady,
                Kept, ScanLines, Yaw
  <2> QED
    BY <2>1, <2>2
<1>3. FilterInv => ScanTimes
  BY DEF FilterInv
<1> QED
  BY <1>1, <1>2, <1>3, PTL DEF FilterSpec

-----------------------------------------------------------------------------
(* The features *)

Run == [from : Nat, to : Nat, points : SUBSET Nat]
Collecting == pass \in {"collect", "done"}

\* A point inside the blind range stays unmarked, and those before the head are inside it.
MarksInv ==
  /\ plsize \in Nat /\ near \subseteq LinePoints /\ head \in Nat /\ cursor \in Nat
  /\ ftype \in [LinePoints -> FeatureTypes]
  /\ \A j \in near : ftype[j] = "Nor"
  /\ \A j \in LinePoints : j < head => j \in near

\* The points of the runs.
Points(R) == UNION { r.from..r.to : r \in R }

RunsOrdered == \A m, n \in DOMAIN pl_surf : m < n => pl_surf[m].to < pl_surf[n].from
SurfacesInRuns ==
  { j \in Passed : Surface(ftype[j]) } = Points(Runs) \cup OpenRun

\* The runs lie before the cursor and before the open run, which is not full.
RunsInv ==
  /\ pl_surf \in Seq(Run) /\ last_surface \in Nat \cup {NoRun}
  /\ \A r \in Runs : /\ r.from <= r.to /\ r.to < cursor /\ r.to - r.from < SurfaceThinning
                     /\ r.points \subseteq r.from..r.to
  /\ last_surface # NoRun => /\ last_surface < cursor /\ cursor - last_surface < SurfaceThinning
                             /\ \A r \in Runs : r.to < last_surface
  /\ RunsOrdered
  /\ SurfacesInRuns
  /\ pl_corn \in Seq(Nat) /\ \A n \in DOMAIN pl_corn : pl_corn[n] \notin near

FeatureInv ==
  /\ MarksInv
  /\ RunsInv
  /\ ~Collecting => pl_surf = <<>> /\ last_surface = NoRun

\* The runs hold surface points only, none of them inside the blind range.
LEMMA RunsAreSurfaces == MarksInv /\ RunsInv => SurfaceRuns
<1> SUFFICES ASSUME MarksInv, RunsInv PROVE SurfaceRuns
  OBVIOUS
<1>1. ASSUME NEW r \in Runs PROVE r.to - r.from < SurfaceThinning /\ NoneNear(r.points)
  <2>1. ASSUME NEW j \in r.points PROVE j \notin near
    <3>1. j \in r.from..r.to
      BY <2>1 DEF RunsInv
    <3>2. j \in { x \in Passed : Surface(ftype[x]) }
      BY <3>1 DEF RunsInv, SurfacesInRuns, Points
    <3>3. Surface(ftype[j])
      BY <3>2
    <3> QED
      BY <3>3 DEF MarksInv, Surface
  <2> QED
    BY <2>1 DEF RunsInv, NoneNear
<1>2. { j \in Passed : Surface(ftype[j]) } = (UNION { r.from..r.to : r \in Runs }) \cup OpenRun
  BY DEF RunsInv, SurfacesInRuns, Points
<1>3. /\ \A m, n \in DOMAIN pl_surf : m < n => pl_surf[m].to < pl_surf[n].from
      /\ \A n \in DOMAIN pl_corn : pl_corn[n] \notin near
  BY DEF RunsInv, RunsOrdered
<1> QED
  BY <1>1, <1>2, <1>3, Zenon DEF SurfaceRuns

\* The loops before the last one: whatever they mark is outside the blind range.
LEMMA MarkStep ==
  ASSUME MarksInv, UNCHANGED <<plsize, near>>, FindHead \/ SurfLoop \/ JumpLoop \/ SmallLoop
  PROVE  MarksInv'
<1>1. /\ plsize \in Nat /\ near \subseteq LinePoints /\ head \in Nat /\ cursor \in Nat
      /\ ftype \in [LinePoints -> FeatureTypes] /\ LinePoints' = LinePoints
      /\ \A j \in near : ftype[j] = "Nor"
  BY DEF MarksInv, LinePoints
<1>2. CASE FindHead
  <2>1. ftype' = ftype
    BY <1>2 DEF FindHead
  <2>2. CASE head \in near /\ head' = head + 1 /\ cursor' = cursor
    <3>1. head' \in Nat /\ \A j \in LinePoints : j < head' => j < head \/ j = head
      BY <1>1, <2>2 DEF LinePoints
    <3> QED
      BY <1>1, <2>1, <2>2, <3>1 DEF MarksInv
  <2>3. CASE head' = head /\ cursor' = head
    BY <1>1, <2>1, <2>3 DEF MarksInv
  <2> QED
    BY <1>2, <2>2, <2>3 DEF FindHead
<1>3. CASE SurfLoop
  <2>1. head' = head
    BY <1>3 DEF SurfLoop
  <2>2. CASE ftype' = ftype /\ cursor' \in {cursor + 1, head + 3}
    <3>1. cursor' \in Nat
      BY <1>1, <2>2
    <3> QED
      BY <1>1, <2>1, <2>2, <3>1 DEF MarksInv
  <2>3. CASE cursor \notin near /\ FindPlane
    <3>1. PICK i_nex \in 0..plsize :
            \/ PlaneJudge("plane", i_nex) /\ MarkPlane(i_nex) /\ cursor' = i_nex
            \/ ftype' = ftype /\ cursor' = i_nex + 1
      BY <2>3 DEF FindPlane
    <3>2. cursor' \in Nat
      BY <3>1
    <3>3. CASE PlaneJudge("plane", i_nex) /\ MarkPlane(i_nex)
      <4>1. NoneNear(cursor..i_nex)
        BY <3>3 DEF PlaneJudge, GroupEnds
      <4>2. PICK joint \in {"Edge_Plane", "Real_Plane", "Poss_Plane"} :
              ftype' = [j \in LinePoints |->
                CASE j = cursor -> joint
                  [] j \in cursor + 1..i_nex - 1 -> "Real_Plane"
                  [] j = i_nex -> "Poss_Plane"
                  [] OTHER -> ftype[j]]
        BY <3>3, Zenon DEF MarkPlane
      <4>3. ASSUME NEW j \in LinePoints
            PROVE  ftype'[j] \in FeatureTypes
        BY <1>1, <4>2 DEF FeatureTypes
      <4>4. ASSUME NEW j \in near PROVE ftype'[j] = "Nor"
        <5>1. j \in LinePoints /\ j # cursor
          BY <1>1, <2>3
        <5>2. j \notin cursor + 1..i_nex - 1 /\ (j = i_nex => i_nex < cursor)
          BY <1>1, <3>1, <4>1 DEF NoneNear
        <5>3. i_nex >= cursor
          BY <1>1, <3>3, FeatureAssumption DEF PlaneJudge, GroupEnds
        <5> QED
          BY <1>1, <4>2, <5>1, <5>2, <5>3
      <4>5. ftype' \in [LinePoints -> FeatureTypes]
        BY <4>2, <4>3
      <4> QED
        BY <1>1, <2>1, <3>2, <4>4, <4>5 DEF MarksInv
    <3>4. CASE ftype' = ftype
      BY <1>1, <2>1, <3>2, <3>4 DEF MarksInv
    <3> QED
      BY <3>1, <3>3, <3>4
  <2> QED
    BY <1>3, <2>2, <2>3 DEF SurfLoop
<1>4. CASE JumpLoop
  <2>1. head' = head /\ cursor' \in Nat
    BY <1>1, <1>4 DEF JumpLoop
  <2>2. ftype' = ftype \/ \E f \in {"Edge_Jump", "Wire"} : cursor \notin near /\ Mark(cursor, f)
    BY <1>4 DEF JumpLoop, JumpTurn
  <2>3. ftype' \in [LinePoints -> FeatureTypes] /\ \A j \in near : ftype'[j] = "Nor"
    <3>1. CASE ftype' = ftype
      BY <1>1, <3>1
    <3>2. ASSUME NEW f \in {"Edge_Jump", "Wire"}, cursor \notin near, Mark(cursor, f)
          PROVE  ftype' \in [LinePoints -> FeatureTypes] /\ \A j \in near : ftype'[j] = "Nor"
      <4>1. ftype' = [ftype EXCEPT ![cursor] = f] /\ f \in FeatureTypes
        BY <3>2 DEF Mark, FeatureTypes
      <4> QED
        BY <1>1, <3>2, <4>1
    <3> QED
      BY <2>2, <3>1, <3>2
  <2> QED
    BY <1>1, <2>1, <2>3 DEF MarksInv
<1>5. CASE SmallLoop
  <2>1. head' = head /\ cursor' \in Nat
    BY <1>1, <1>5 DEF SmallLoop
  <2>2. ftype' = ftype \/ SmallTurn(cursor)
    BY <1>5 DEF SmallLoop
  <2>3. ftype' \in [LinePoints -> FeatureTypes] /\ \A j \in near : ftype'[j] = "Nor"
    <3>1. CASE ftype' = ftype
      BY <1>1, <3>1
    <3>2. CASE SmallTurn(cursor) /\ ftype' # ftype
      <4>1. /\ NoneNear(cursor - 1..cursor + 1)
            /\ ftype' = [j \in LinePoints |->
                 IF j \in cursor - 1..cursor + 1 /\ ftype[j] = "Nor" THEN "Real_Plane" ELSE ftype[j]]
        BY <3>2 DEF SmallTurn
      <4>2. \A j \in near : j \in LinePoints /\ j \notin cursor - 1..cursor + 1
        BY <1>1, <4>1 DEF NoneNear
      <4>3. ftype' \in [LinePoints -> FeatureTypes]
        BY <1>1, <4>1 DEF FeatureTypes
      <4> QED
        BY <1>1, <4>1, <4>2, <4>3
    <3> QED
      BY <2>2, <3>1, <3>2
  <2> QED
    BY <1>1, <2>1, <2>3 DEF MarksInv
<1> QED
  BY <1>2, <1>3, <1>4, <1>5

\* Until the points are gathered there are no runs.
LEMMA NoRunsYet ==
  ASSUME MarksInv', ~Collecting, RunsInv, pl_surf = <<>>, last_surface = NoRun,
         UNCHANGED <<near, pl_surf, pl_corn, last_surface>>,
         ~Collecting' \/ cursor' = head'
  PROVE  RunsInv'
<1>1. Runs' = {} /\ OpenRun' = {} /\ DOMAIN pl_surf' = {}
  BY DEF Runs, OpenRun
<1>2. \A j \in Passed' : ~Surface(ftype'[j])
  BY DEF MarksInv, Passed, Collecting, Surface, LinePoints
<1>3. SurfacesInRuns'
  BY <1>1, <1>2 DEF SurfacesInRuns, Surface, Points
<1> QED
  BY <1>1, <1>3 DEF RunsInv, RunsOrdered

\* A run that is added behind the others.
LEMMA RunAdded ==
  ASSUME pl_surf \in Seq(Run), RunsOrdered, NEW r \in Run, pl_surf' = Append(pl_surf, r),
         \A q \in Runs : q.to < r.from
  PROVE  pl_surf' \in Seq(Run) /\ Runs' = Runs \cup {r} /\ RunsOrdered'
<1>1. /\ Len(pl_surf) \in Nat /\ DOMAIN pl_surf = 1..Len(pl_surf)
      /\ pl_surf' \in Seq(Run) /\ DOMAIN pl_surf' = 1..Len(pl_surf) + 1
      /\ \A n \in 1..Len(pl_surf) : pl_surf'[n] = pl_surf[n]
      /\ pl_surf'[Len(pl_surf) + 1] = r
  OBVIOUS
<1>2. \A n \in 1..Len(pl_surf) + 1 : n \in 1..Len(pl_surf) \/ n = Len(pl_surf) + 1
  BY <1>1
<1>3. Runs' = Runs \cup {r}
  <2>1. Len(pl_surf) + 1 \in DOMAIN pl_surf' /\ \A n \in DOMAIN pl_surf : n \in DOMAIN pl_surf'
    BY <1>1
  <2> QED
    BY <1>1, <1>2, <2>1 DEF Runs
<1>4. ASSUME NEW m \in DOMAIN pl_surf', NEW n \in DOMAIN pl_surf', m < n
      PROVE  pl_surf'[m].to < pl_surf'[n].from
  <2>1. m \in 1..Len(pl_surf)
    BY <1>1, <1>4
  <2>2. CASE n \in 1..Len(pl_surf)
    BY <1>1, <1>4, <2>1, <2>2 DEF RunsOrdered
  <2>3. CASE n = Len(pl_surf) + 1
    BY <1>1, <2>1, <2>3 DEF Runs
  <2> QED
    BY <1>1, <1>2, <2>2, <2>3
<1> QED
  BY <1>1, <1>3, <1>4 DEF RunsOrdered

LEMMA PointsAdded ==
  ASSUME NEW R, NEW r
  PROVE  Points(R \cup {r}) = Points(R) \cup r.from..r.to
<1>1. \A x : x \in Points(R \cup {r}) <=> x \in Points(R) \/ x \in r.from..r.to
  BY DEF Points
<1> QED
  BY <1>1

\* A turn of the last loop: a surface point opens, continues or fills a run, any other
\* closes it.
LEMMA CollectStep ==
  ASSUME MarksInv, RunsInv, pass = "collect", pass' = "collect", cursor < plsize,
         Collect(cursor), cursor' = cursor + 1, UNCHANGED <<plsize, near, head, ftype>>
  PROVE  RunsInv'
<1> DEFINE j == cursor
           first == IF last_surface = NoRun THEN j ELSE last_surface
           T == SurfaceThinning
<1>1. /\ j \in Nat /\ j \in LinePoints /\ plsize \in Nat /\ T \in Nat /\ T > 0
      /\ last_surface \in Nat \cup {NoRun} /\ NoRun \notin Nat
  BY FeatureAssumption DEF MarksInv, RunsInv, LinePoints, NoRun
<1>2. /\ Passed' = Passed \cup {j} /\ j \notin Passed
      /\ { x \in Passed' : Surface(ftype'[x]) }
           = { x \in Passed : Surface(ftype[x]) } \cup (IF Surface(ftype[j]) THEN {j} ELSE {})
  <2>1. Passed = {x \in LinePoints : x < j} /\ Passed' = {x \in LinePoints : x < j + 1}
    BY DEF Passed, LinePoints
  <2>2. \A x \in LinePoints : x < j + 1 <=> x < j \/ x = j
    BY <1>1 DEF LinePoints
  <2>3. Passed' = Passed \cup {j} /\ j \notin Passed
    <3>1. ~(j < j) /\ j < j + 1
      BY <1>1
    <3>2. \A x : x \in Passed' <=> x \in Passed \/ x = j
      BY <1>1, <2>1, <2>2, <3>1
    <3> QED
      BY <2>1, <3>1, <3>2
  <2> QED
    BY <2>3 DEF Surface
<1>3. /\ first \in Nat /\ first <= j /\ j - first < T
      /\ \A r \in Runs : r.to < first
      /\ OpenRun = first..j - 1
  <2>1. CASE last_surface = NoRun
    <3>1. first..j - 1 = {}
      BY <1>1, <2>1
    <3> QED
      BY <1>1, <2>1, <3>1 DEF RunsInv, OpenRun
  <2>2. CASE last_surface # NoRun
    BY <1>1, <2>2 DEF RunsInv, OpenRun
  <2> QED
    BY <2>1, <2>2
<1>4. \A r \in Runs : r \in Run /\ r.from <= r.to /\ r.to < j /\ r.to - r.from < T
                      /\ r.points \subseteq r.from..r.to
  BY DEF RunsInv, Runs
<1>5. { x \in Passed : Surface(ftype[x]) } = Points(Runs) \cup OpenRun
      /\ RunsOrdered /\ pl_surf \in Seq(Run)
      /\ pl_corn \in Seq(Nat) /\ \A n \in DOMAIN pl_corn : pl_corn[n] \notin near
  BY DEF RunsInv, SurfacesInRuns
<1>6. CASE SurfacePoint(j)
  <2>1. Surface(ftype[j]) /\ pl_corn' = pl_corn
    BY <1>6 DEF SurfacePoint
  <2>2. CASE j = first + T - 1
    <3> DEFINE r == [from |-> first, to |-> j, points |-> {j}]
    <3>1. pl_surf' = Append(pl_surf, r) /\ last_surface' = NoRun
      BY <1>6, <2>2 DEF SurfacePoint
    <3>2. r \in Run /\ r.from = first /\ r.to = j /\ r.points = {j} /\ j \in first..j
      BY <1>1, <1>3 DEF Run
    <3> HIDE DEF r
    <3>3. pl_surf' \in Seq(Run) /\ Runs' = Runs \cup {r} /\ RunsOrdered'
      BY <1>3, <1>5, <3>1, <3>2, RunAdded
    <3>4. OpenRun' = {}
      BY <3>1 DEF OpenRun
    <3>5. SurfacesInRuns'
      <4> SUFFICES { x \in Passed' : Surface(ftype'[x]) } = Points(Runs') \cup OpenRun'
        BY DEF SurfacesInRuns, Surface, Points
      <4>1. first..j = (first..j - 1) \cup {j}
        BY <1>1, <1>3
      <4>2. Points(Runs') = Points(Runs) \cup (first..j)
        BY <3>2, <3>3, PointsAdded
      <4> QED
        BY <1>2, <1>3, <1>5, <2>1, <3>4, <4>1, <4>2
    <3>6. \A q \in Runs' : /\ q.from <= q.to /\ q.to < j + 1 /\ q.to - q.from < T
                           /\ q.points \subseteq q.from..q.to
      <4>1. \A q \in Runs : q.to < j + 1
        BY <1>1, <1>4 DEF Run
      <4>2. r.from <= r.to /\ r.to < j + 1 /\ r.to - r.from < T /\ r.points \subseteq r.from..r.to
        BY <1>1, <1>3, <3>2
      <4> QED
        BY <1>4, <3>3, <4>1, <4>2
    <3> QED
      BY <1>5, <2>1, <3>1, <3>3, <3>5, <3>6 DEF RunsInv
  <2>3. CASE j # first + T - 1
    <3>1. last_surface' = first /\ pl_surf' = pl_surf
      BY <1>6, <2>3 DEF SurfacePoint
    <3>2. Runs' = Runs /\ RunsOrdered'
      BY <1>5, <3>1 DEF Runs, RunsOrdered
    <3>3. first # NoRun /\ OpenRun' = first..j
      <4>1. first # NoRun /\ (j + 1) - 1 = j
        BY <1>1, <1>3
      <4> QED
        BY <3>1, <4>1 DEF OpenRun
    <3>4. SurfacesInRuns'
      <4> SUFFICES { x \in Passed' : Surface(ftype'[x]) } = Points(Runs') \cup OpenRun'
        BY DEF SurfacesInRuns, Surface, Points
      <4>1. first..j = (first..j - 1) \cup {j}
        BY <1>1, <1>3
      <4> QED
        BY <1>2, <1>3, <1>5, <2>1, <3>2, <3>3, <4>1
    <3>5. first < j + 1 /\ (j + 1) - first < T
      BY <1>1, <1>3, <2>3
    <3>6. \A q \in Runs : q.to < j + 1
      BY <1>1, <1>4 DEF Run
    <3> QED
      BY <1>3, <1>4, <1>5, <2>1, <3>1, <3>2, <3>4, <3>5, <3>6 DEF RunsInv
  <2> QED
    BY <2>2, <2>3
<1>7. CASE OtherPoint(j)
  <2>1. ~Surface(ftype[j]) /\ last_surface' = NoRun
    BY <1>7 DEF OtherPoint
  <2>2. pl_corn' \in Seq(Nat) /\ \A n \in DOMAIN pl_corn' : pl_corn'[n] \notin near'
    <3>1. CASE pl_corn' = pl_corn
      BY <1>5, <3>1
    <3>2. CASE pl_corn' = Append(pl_corn, j) /\ ftype[j] \in {"Edge_Jump", "Edge_Plane"}
      <4>1. j \notin near
        BY <3>2 DEF MarksInv
      <4>2. /\ pl_corn' \in Seq(Nat) /\ Len(pl_corn) \in Nat /\ DOMAIN pl_corn = 1..Len(pl_corn)
            /\ DOMAIN pl_corn' = 1..Len(pl_corn) + 1
            /\ \A n \in 1..Len(pl_corn) : pl_corn'[n] = pl_corn[n]
            /\ pl_corn'[Len(pl_corn) + 1] = j
        BY <1>1, <1>5, <3>2
      <4>3. \A n \in 1..Len(pl_corn) + 1 : n \in 1..Len(pl_corn) \/ n = Len(pl_corn) + 1
        BY <4>2
      <4> QED
        BY <1>5, <4>1, <4>2, <4>3
    <3> QED
      BY <1>7, <3>1, <3>2 DEF OtherPoint
  <2>3. OpenRun' = {}
    BY <2>1 DEF OpenRun
  <2>4. CASE last_surface = NoRun
    <3>1. pl_surf' = pl_surf /\ OpenRun = {}
      BY <1>7, <2>4 DEF OtherPoint, OpenRun
    <3>2. Runs' = Runs /\ RunsOrdered'
      BY <1>5, <3>1 DEF Runs, RunsOrdered
    <3>3. SurfacesInRuns'
      BY <1>2, <1>5, <2>1, <2>3, <3>1, <3>2 DEF SurfacesInRuns
    <3>4. \A q \in Runs : q.to < j + 1
      BY <1>1, <1>4 DEF Run
    <3> QED
      BY <1>4, <1>5, <2>1, <2>2, <3>1, <3>2, <3>3, <3>4 DEF RunsInv
  <2>5. CASE last_surface # NoRun
    <3> DEFINE r == [from |-> last_surface, to |-> j - 1, points |-> last_surface..j - 1]
    <3>1. pl_surf' = Append(pl_surf, r)
      BY <1>7, <2>5 DEF OtherPoint
    <3>2. /\ first = last_surface /\ last_surface \in Nat /\ last_surface < j /\ j - last_surface < T
      BY <1>1, <2>5 DEF RunsInv
    <3>3. /\ r \in Run /\ r.from = first /\ r.to = j - 1 /\ r.points = first..j - 1
      <4>1. j - 1 \in Nat /\ last_surface..j - 1 \subseteq Nat
        BY <1>1, <3>2
      <4> QED
        BY <3>2, <4>1 DEF Run
    <3> HIDE DEF r, first
    <3>4. pl_surf' \in Seq(Run) /\ Runs' = Runs \cup {r} /\ RunsOrdered'
      BY <1>3, <1>5, <3>1, <3>3, RunAdded
    <3>5. SurfacesInRuns'
      <4> SUFFICES { x \in Passed' : Surface(ftype'[x]) } = Points(Runs') \cup OpenRun'
        BY DEF SurfacesInRuns, Surface, Points
      <4>1. Points(Runs') = Points(Runs) \cup (first..j - 1)
        BY <3>3, <3>4, PointsAdded
      <4> QED
        BY <1>2, <1>3, <1>5, <2>1, <2>3, <4>1
    <3>6. \A q \in Runs' : /\ q.from <= q.to /\ q.to < j + 1 /\ q.to - q.from < T
                           /\ q.points \subseteq q.from..q.to
      <4>1. \A q \in Runs : q.to < j + 1
        BY <1>1, <1>4 DEF Run
      <4>2. r.from <= r.to /\ r.to < j + 1 /\ r.to - r.from < T /\ r.points \subseteq r.from..r.to
        BY <1>1, <3>2, <3>3
      <4> QED
        BY <1>4, <3>4, <4>1, <4>2
    <3> QED
      BY <2>1, <2>2, <3>4, <3>5, <3>6 DEF RunsInv
  <2> QED
    BY <2>4, <2>5
<1> QED
  BY <1>6, <1>7 DEF Collect

LEMMA FeatureStep == FeatureInv /\ [FeatureNext]_featureVars => FeatureInv'
<1> SUFFICES ASSUME FeatureInv, [FeatureNext]_featureVars PROVE FeatureInv'
  OBVIOUS
<1>1. MarksInv /\ RunsInv /\ (~Collecting => pl_surf = <<>> /\ last_surface = NoRun)
  BY DEF FeatureInv
<1>2. CASE UNCHANGED <<plsize, near>> /\ (FindHead \/ SurfLoop \/ JumpLoop \/ SmallLoop)
  <2>1. MarksInv'
    BY <1>1, <1>2, MarkStep
  <2>2. /\ UNCHANGED <<near, pl_surf, pl_corn, last_surface>> /\ ~Collecting
        /\ ~Collecting' \/ cursor' = head'
    BY <1>2 DEF FindHead, SurfLoop, JumpLoop, SmallLoop, Collecting
  <2>3. RunsInv'
    BY <1>1, <2>1, <2>2, NoRunsYet
  <2> QED
    BY <1>1, <2>1, <2>2, <2>3 DEF FeatureInv, NoRun
<1>3. CASE UNCHANGED <<plsize, near>> /\ CollectLoop
  <2>1. UNCHANGED <<plsize, near, head, ftype>> /\ pass = "collect"
    BY <1>3 DEF CollectLoop
  <2>2. CASE cursor < plsize /\ Collect(cursor) /\ cursor' = cursor + 1 /\ UNCHANGED pass
    <3>1. RunsInv'
      BY <1>1, <2>1, <2>2, CollectStep
    <3>2. MarksInv' /\ Collecting'
      BY <1>1, <2>1, <2>2 DEF MarksInv, LinePoints, Collecting
    <3> QED
      BY <3>1, <3>2 DEF FeatureInv
  <2>3. CASE pass' = "done" /\ UNCHANGED <<cursor, last_surface, pl_surf, pl_corn>>
    <3>1. Collecting' /\ MarksInv' /\ Passed' = Passed /\ Runs' = Runs /\ OpenRun' = OpenRun
      BY <1>1, <2>1, <2>3 DEF Collecting, MarksInv, LinePoints, Passed, Runs, OpenRun
    <3>2. SurfacesInRuns' /\ RunsOrdered'
      BY <1>1, <2>1, <2>3, <3>1 DEF RunsInv, SurfacesInRuns, RunsOrdered
    <3> QED
      BY <1>1, <2>1, <2>3, <3>1, <3>2 DEF FeatureInv, RunsInv, NoRun
  <2> QED
    BY <1>3, <2>2, <2>3 DEF CollectLoop
<1>4. CASE UNCHANGED featureVars
  <2>1. MarksInv' /\ Collecting' = Collecting /\ Passed' = Passed /\ Runs' = Runs /\ OpenRun' = OpenRun
    BY <1>1, <1>4 DEF featureVars, Collecting, MarksInv, LinePoints, Passed, Runs, OpenRun
  <2>2. SurfacesInRuns' /\ RunsOrdered'
    BY <1>1, <1>4, <2>1 DEF featureVars, RunsInv, SurfacesInRuns, RunsOrdered
  <2> QED
    BY <1>1, <1>4, <2>1, <2>2 DEF featureVars, FeatureInv, RunsInv, NoRun
<1> QED
  BY <1>2, <1>3, <1>4 DEF FeatureNext

\* The surface points that come out stand for runs of neighbouring surface points, none
\* longer than the thinning and no two meeting, that hold every surface point seen; nothing
\* inside the blind range comes out.  For lines of any length, any group size and whatever
\* the distances and angles say (preprocess.cpp:588-895, 905-960).
THEOREM RunsOfSurface == FeatureSpec => []SurfaceRuns
<1>1. FeatureInit => FeatureInv
  <2> SUFFICES ASSUME FeatureInit PROVE FeatureInv
    OBVIOUS
  <2>1. /\ plsize \in Nat /\ near \subseteq LinePoints /\ head = 0 /\ cursor = 0 /\ pass = "head"
        /\ ftype = [j \in LinePoints |-> "Nor"] /\ last_surface = NoRun
        /\ pl_surf = <<>> /\ pl_corn = <<>>
    BY FeatureAssumption DEF FeatureInit
  <2>2. MarksInv
    BY <2>1 DEF MarksInv, FeatureTypes, LinePoints
  <2>3. Runs = {} /\ OpenRun = {} /\ Passed = {} /\ DOMAIN pl_surf = {} /\ DOMAIN pl_corn = {}
    BY <2>1 DEF Runs, OpenRun, Passed
  <2>4. SurfacesInRuns /\ RunsOrdered
    BY <2>3 DEF SurfacesInRuns, RunsOrdered, Points
  <2>5. pl_surf \in Seq(Run) /\ pl_corn \in Seq(Nat)
    BY <2>1
  <2> QED
    BY <2>1, <2>2, <2>3, <2>4, <2>5 DEF FeatureInv, RunsInv
<1>2. FeatureInv => SurfaceRuns
  BY RunsAreSurfaces DEF FeatureInv
<1> QED
  BY <1>1, <1>2, FeatureStep, PTL DEF FeatureSpec

-----------------------------------------------------------------------------
(* The iterated update *)

UpdateTypes ==
  /\ updating \in BOOLEAN /\ converge \in BOOLEAN
  /\ i \in Int /\ i >= -1 /\ t \in Nat
  /\ point_selected_surf \subseteq ScanPoints
  /\ x_ \in Nat /\ Nearest_Points \in Nat /\ emptied \in Nat

\* While every turn had a point, the state counts the turns, the last turn searches
\* unless a correction was small, and after a small correction a search is due or done.
TurnsCounted ==
  updating /\ emptied = 0 =>
    /\ x_ = i + 1
    /\ t = 0 /\ i = maximum_iter - 1 => converge
    /\ t > 0 => i >= 0 /\ (converge \/ Nearest_Points > 0)

\* FreshMatches speaks of finished updates only: the turns before need TurnsCounted.
UpdateInv ==
  /\ UpdateTypes
  /\ updating => i < maximum_iter
  /\ TurnsCounted
  /\ FreshMatches

\* A search, and what it leaves in point_selected_surf.
LEMMA SearchTypes ==
  ASSUME UpdateInv, h_share_model
  PROVE /\ point_selected_surf' \subseteq ScanPoints
        /\ Nearest_Points' = IF converge THEN x_ ELSE Nearest_Points
        /\ Nearest_Points' \in Nat
BY DEF UpdateInv, UpdateTypes, h_share_model, Searched

\* A new scan starts the count over, and the first turn searches.
LEMMA PredictKeeps ==
  ASSUME UpdateAssumption, UpdateInv, predict
  PROVE UpdateInv'
<1>1. UpdateTypes'
  BY DEF predict, BeginUpdate, UpdateInv, UpdateTypes
<1>2. updating' => i' < maximum_iter'
  BY DEF predict, BeginUpdate, UpdateAssumption
<1>3. TurnsCounted'
  BY DEF predict, BeginUpdate, TurnsCounted
<1>4. FreshMatches'
  BY DEF predict, BeginUpdate, FreshMatches
<1> QED
  BY <1>1, <1>2, <1>3, <1>4 DEF UpdateInv

\* A turn without a point is remembered in emptied, and may end the update.
LEMMA EmptyTurnKeeps ==
  ASSUME UpdateAssumption, UpdateInv, updating, h_share_model, NoEffectivePoints
  PROVE UpdateInv'
<1>1. UpdateTypes'
  BY SearchTypes DEF NoEffectivePoints, UpdateInv, UpdateTypes
<1>2. updating' => i' < maximum_iter'
  BY DEF NoEffectivePoints
<1>3. emptied' > 0
  BY DEF NoEffectivePoints, UpdateInv, UpdateTypes
<1>4. TurnsCounted'
  BY <1>3 DEF TurnsCounted
<1>5. FreshMatches'
  BY <1>3 DEF FreshMatches, NoEffectivePoints, valid
<1> QED
  BY <1>1, <1>2, <1>4, <1>5 DEF UpdateInv

\* A correction that does not close the update counts; one that closes it has used
\* planes that were searched after a correction.
LEMMA CorrectionKeeps ==
  ASSUME UpdateAssumption, UpdateInv, updating, h_share_model,
         NEW small \in BOOLEAN, Correction(small)
  PROVE UpdateInv'
<1> DEFINE closing == t' > 1 \/ i = maximum_iter - 1
<1>1. t' \in Nat /\ t' >= t /\ i' = i + 1 /\ x_' = x_ + 1
  BY DEF Correction, UpdateInv, UpdateTypes
<1>2. converge' \in BOOLEAN
  BY DEF Correction, Converge
<1>3. updating' = ~closing /\ updating' \in BOOLEAN
  BY DEF Correction
<1>4. UpdateTypes'
  BY <1>1, <1>2, <1>3, SearchTypes DEF Correction, UpdateInv, UpdateTypes
<1>5. updating' => i' < maximum_iter'
  <2>1. updating' => i # maximum_iter - 1
    BY <1>3
  <2>2. i < maximum_iter /\ i \in Int /\ maximum_iter' = maximum_iter
    BY DEF UpdateInv, UpdateTypes
  <2> QED
    BY <1>1, <2>1, <2>2 DEF UpdateAssumption
<1>6. TurnsCounted'
  <2> SUFFICES ASSUME updating', emptied = 0
               PROVE /\ x_' = i' + 1
                     /\ t' = 0 /\ i' = maximum_iter - 1 => converge'
                     /\ t' > 0 => i' >= 0 /\ (converge' \/ Nearest_Points' > 0)
    BY DEF TurnsCounted, Correction
  <2>1. x_ = i + 1 /\ (t > 0 => i >= 0 /\ (converge \/ Nearest_Points > 0))
    BY DEF UpdateInv, TurnsCounted
  <2>2. t' = 0 /\ i' = maximum_iter - 1 => converge'
    BY <1>1 DEF Correction, Converge, UpdateInv, UpdateTypes, UpdateAssumption
  <2>3. ASSUME t' > 0
        PROVE converge' \/ Nearest_Points' > 0
    <3>1. CASE small
      BY <3>1 DEF Correction, Converge
    <3>2. CASE ~small
      <4>1. t > 0
        BY <2>3, <3>2 DEF Correction, UpdateInv, UpdateTypes
      <4> QED
        BY <2>1, <4>1, SearchTypes DEF UpdateInv, UpdateTypes
    <3> QED
      BY <3>1, <3>2
  <2> QED
    BY <1>1, <2>1, <2>2, <2>3 DEF UpdateInv, UpdateTypes
<1>7. FreshMatches'
  <2> SUFFICES ASSUME closing, maximum_iter > 0, emptied = 0
               PROVE Nearest_Points' > 0
    BY <1>3 DEF FreshMatches, Correction, ScanTakenIn, Transported
  <2>1. /\ x_ = i + 1
        /\ t = 0 /\ i = maximum_iter - 1 => converge
        /\ t > 0 => i >= 0 /\ (converge \/ Nearest_Points > 0)
    BY DEF UpdateInv, TurnsCounted
  <2>2. CASE t > 0
    BY <2>1, <2>2, SearchTypes DEF UpdateInv, UpdateTypes
  <2>3. CASE t = 0
    <3>1. i = maximum_iter - 1
      BY <2>3 DEF Correction
    <3> QED
      BY <2>1, <2>3, <3>1, SearchTypes DEF UpdateAssumption
  <2> QED
    BY <2>2, <2>3 DEF UpdateInv, UpdateTypes
<1> QED
  BY <1>4, <1>5, <1>6, <1>7 DEF UpdateInv

\* The loop of update_iterated_dyn_share_modified keeps its invariant, for any number
\* of turns and any points.
THEOREM UpdateInductive == UpdateSpec => []UpdateInv
<1> USE UpdateAssumption
<1>1. UpdateInit => UpdateInv
  <2> SUFFICES ASSUME UpdateInit
               PROVE UpdateInv
    OBVIOUS
  <2>1. UpdateTypes
    <3>1. updating \in BOOLEAN /\ converge \in BOOLEAN /\ point_selected_surf \subseteq ScanPoints
      BY Zenon DEF UpdateInit
    <3>2. /\ i \in Int /\ i >= -1 /\ t \in Nat
          /\ x_ \in Nat /\ Nearest_Points \in Nat /\ emptied \in Nat
      BY DEF UpdateInit
    <3> QED
      BY <3>1, <3>2 DEF UpdateTypes
  <2>2. FreshMatches
    BY DEF UpdateInit, FreshMatches, ScanTakenIn, Transported
  <2> QED
    BY <2>1, <2>2 DEF UpdateInit, UpdateInv, TurnsCounted
<1>2. UpdateInv /\ [UpdateNext]_updateVars => UpdateInv'
  <2> SUFFICES ASSUME UpdateInv, [UpdateNext]_updateVars
               PROVE UpdateInv'
    OBVIOUS
  <2>1. CASE predict
    BY <2>1, PredictKeeps
  <2>2. CASE LoopTurn
    <3>1. CASE NoEffectivePoints
      BY <2>2, <3>1, EmptyTurnKeeps DEF LoopTurn
    <3>2. CASE \E small \in BOOLEAN : Correction(small)
      BY <2>2, <3>2, CorrectionKeeps DEF LoopTurn
    <3> QED
      BY <2>2, <3>1, <3>2 DEF LoopTurn
  <2>3. CASE UNCHANGED updateVars
    BY <2>3 DEF updateVars, UpdateInv, UpdateTypes, TurnsCounted, FreshMatches
  <2> QED
    BY <2>1, <2>2, <2>3 DEF UpdateNext
<1> QED
  BY <1>1, <1>2, PTL DEF UpdateSpec

\* A scan enters the covariance through planes searched after a correction, for any
\* scan and any limit of turns (esekfom.hpp:1638-1641 and :1829-1834).
THEOREM MatchesAreFresh == UpdateSpec => []FreshMatches
<1>1. UpdateInv => FreshMatches
  BY DEF UpdateInv
<1> QED
  BY <1>1, UpdateInductive, PTL

-----------------------------------------------------------------------------
(* The local map *)

MapTypes ==
  /\ pos_LiD \in [Axes -> Int]
  /\ vertex_min \in [Axes -> Int] /\ vertex_max \in [Axes -> Int]
  /\ Localmap_Initialized \in BOOLEAN
  /\ ikdtree \subseteq [Axes -> Int]

\* Before the first scan there is no cube, and no point either.
MapInv ==
  /\ MapTypes
  /\ ~Localmap_Initialized => ikdtree = {}
  /\ MapAround

\* The lengths of the code, as linear facts about the two constants.
LEMMA Lengths ==
  ASSUME MapAssumption
  PROVE /\ HalfRange \in Nat /\ Slack \in Nat /\ HalfRange > 0
        /\ DET_RANGE = 2 * HalfRange /\ EdgeMargin = 3 * HalfRange
        /\ cube_len = 6 * HalfRange + 20 * Slack
        /\ cube_len \div 2 = 3 * HalfRange + 10 * Slack
        /\ mov_dist \in Nat /\ mov_dist >= HalfRange /\ mov_dist <= 20 * Slack
BY DEF MapAssumption, DET_RANGE, EdgeMargin, cube_len, mov_dist

\* Where a scan takes the lidar: at most half the range away on every axis.
LEMMA ReachableNear ==
  ASSUME MapAssumption, MapTypes, NEW pos \in Reachable(pos_LiD)
  PROVE /\ pos \in [Axes -> Int]
        /\ \A d \in Axes : pos[d] - pos_LiD[d] <= HalfRange /\ pos_LiD[d] - pos[d] <= HalfRange
<1>1. PICK step \in [Axes -> Steps] : pos = [d \in Axes |-> pos_LiD[d] + step[d]]
  BY DEF Reachable
<1>2. ASSUME NEW d \in Axes
      PROVE /\ pos[d] \in Int
            /\ pos[d] - pos_LiD[d] <= HalfRange /\ pos_LiD[d] - pos[d] <= HalfRange
  <2>1. step[d] \in -HalfRange..HalfRange /\ pos_LiD[d] \in Int /\ HalfRange \in Nat
    BY <1>1 DEF MapAssumption, MapTypes
  <2>2. pos[d] = pos_LiD[d] + step[d]
    BY <1>1
  <2> QED
    BY <2>1, <2>2
<1> QED
  BY <1>1, <1>2

\* On every axis the cube keeps its length and its margin around the lidar.
LEMMA CubeFollows ==
  ASSUME MapAssumption, MapInv, Localmap_Initialized,
         NEW pos \in Reachable(pos_LiD), NEW d \in Axes
  PROVE /\ MoveOf(d, pos) \in Int
        /\ vertex_min[d] + MoveOf(d, pos) + EdgeMargin <= pos[d]
        /\ pos[d] + EdgeMargin <= vertex_max[d] + MoveOf(d, pos)
<1> DEFINE r == HalfRange
           lo == vertex_min[d]
           hi == vertex_max[d]
<1>1. r \in Nat /\ Slack \in Nat /\ mov_dist \in Nat /\ mov_dist >= r /\ mov_dist <= 20 * Slack
      /\ EdgeMargin = 3 * r
  BY Lengths
<1>2. lo \in Int /\ hi \in Int /\ pos[d] \in Int /\ pos_LiD[d] \in Int
  BY ReachableNear DEF MapInv, MapTypes
<1>3. /\ hi - lo = 6 * r + 20 * Slack
      /\ lo + 3 * r <= pos_LiD[d] /\ pos_LiD[d] + 3 * r <= hi
  BY Lengths DEF MapInv, MapAround, LidarInBox
<1>4. pos[d] - pos_LiD[d] <= r /\ pos_LiD[d] - pos[d] <= r
  BY ReachableNear DEF MapInv
<1>5. pos[d] >= lo + 2 * r /\ pos[d] <= hi - 2 * r
  BY <1>1, <1>2, <1>3, <1>4
<1>6. AxisDistance(pos[d], lo) = pos[d] - lo /\ AxisDistance(pos[d], hi) = hi - pos[d]
  BY <1>1, <1>2, <1>5 DEF AxisDistance
<1>7. CASE AtMin(d, pos)
  <2>1. pos[d] - lo <= 3 * r /\ MoveOf(d, pos) = -mov_dist
    BY <1>1, <1>6, <1>7 DEF AtMin, MoveOf
  <2> QED
    BY <1>1, <1>2, <1>3, <1>5, <2>1
<1>8. CASE ~AtMin(d, pos) /\ AtMax(d, pos)
  <2>1. hi - pos[d] <= 3 * r /\ MoveOf(d, pos) = mov_dist
    BY <1>1, <1>6, <1>8 DEF AtMax, MoveOf
  <2> QED
    BY <1>1, <1>2, <1>3, <1>5, <2>1
<1>9. CASE ~AtMin(d, pos) /\ ~AtMax(d, pos)
  <2>1. pos[d] - lo > 3 * r /\ hi - pos[d] > 3 * r /\ MoveOf(d, pos) = 0
    BY <1>1, <1>2, <1>6, <1>9 DEF AtMin, AtMax, MoveOf
  <2> QED
    BY <1>1, <1>2, <2>1
<1> QED
  BY <1>7, <1>8, <1>9

\* lasermap_fov_segment leaves the lidar well inside the cube, whether it places the
\* cube or moves it.
LEMMA SegmentKeepsLidar ==
  ASSUME MapAssumption, MapInv, NEW pos \in Reachable(pos_LiD),
         lasermap_fov_segment(pos), pos_LiD' = pos
  PROVE /\ Localmap_Initialized' = TRUE
        /\ vertex_min' \in [Axes -> Int] /\ vertex_max' \in [Axes -> Int]
        /\ LidarInBox'
<1>1. pos \in [Axes -> Int]
  BY ReachableNear DEF MapInv
<1>2. CASE ~Localmap_Initialized /\ PlaceCube(pos)
  <2>1. cube_len \div 2 \in Int /\ Localmap_Initialized' = TRUE
    BY <1>2, Lengths DEF PlaceCube
  <2>2. vertex_min' \in [Axes -> Int] /\ vertex_max' \in [Axes -> Int]
    BY <1>1, <1>2, <2>1 DEF PlaceCube
  <2>3. ASSUME NEW d \in Axes
        PROVE /\ vertex_max'[d] - vertex_min'[d] = cube_len
              /\ vertex_min'[d] + EdgeMargin <= pos_LiD'[d]
              /\ pos_LiD'[d] + EdgeMargin <= vertex_max'[d]
    <3>1. /\ vertex_min'[d] = pos[d] - (3 * HalfRange + 10 * Slack)
          /\ vertex_max'[d] = pos[d] + (3 * HalfRange + 10 * Slack)
          /\ pos_LiD'[d] = pos[d] /\ pos[d] \in Int
      BY <1>1, <1>2, Lengths DEF PlaceCube
    <3> QED
      BY <3>1, Lengths
  <2> QED
    BY <2>1, <2>2, <2>3 DEF LidarInBox, cube_len, EdgeMargin
<1>3. CASE Localmap_Initialized /\ MoveCube(pos)
  <2>1. Localmap_Initialized' = TRUE
    BY <1>3 DEF MoveCube, MapInv, MapTypes
  <2>2. ASSUME NEW d \in Axes
        PROVE /\ vertex_min'[d] = vertex_min[d] + MoveOf(d, pos)
              /\ vertex_max'[d] = vertex_max[d] + MoveOf(d, pos)
              /\ vertex_min[d] \in Int /\ vertex_max[d] \in Int /\ MoveOf(d, pos) \in Int
              /\ vertex_max[d] - vertex_min[d] = cube_len
    BY <1>3, CubeFollows DEF MoveCube, MapInv, MapTypes, MapAround, LidarInBox
  <2>3. vertex_min' \in [Axes -> Int] /\ vertex_max' \in [Axes -> Int]
    BY <1>3, <2>2 DEF MoveCube
  <2>4. ASSUME NEW d \in Axes
        PROVE /\ vertex_max'[d] - vertex_min'[d] = cube_len
              /\ vertex_min'[d] + EdgeMargin <= pos_LiD'[d]
              /\ pos_LiD'[d] + EdgeMargin <= vertex_max'[d]
    BY <1>3, <2>2, CubeFollows, Lengths
  <2> QED
    BY <2>1, <2>3, <2>4 DEF LidarInBox, cube_len, EdgeMargin
<1> QED
  BY <1>2, <1>3 DEF lasermap_fov_segment

\* What is not left behind is inside the cube after the move.
LEMMA SegmentedInside ==
  ASSUME MapAssumption, MapInv, NEW pos \in Reachable(pos_LiD),
         lasermap_fov_segment(pos), NEW p \in Segmented(pos)
  PROVE p \in ikdtree /\ \A d \in Axes : vertex_min'[d] <= p[d] /\ p[d] <= vertex_max'[d]
<1>1. p \in ikdtree /\ p \in [Axes -> Int]
  BY DEF Segmented, MapInv, MapTypes
<1>2. Localmap_Initialized
  BY <1>1 DEF MapInv
<1>3. ASSUME NEW d \in Axes
      PROVE vertex_min'[d] <= p[d] /\ p[d] <= vertex_max'[d]
  <2>1. \A a \in Axes : vertex_min[a] <= p[a] /\ p[a] <= vertex_max[a]
    BY <1>1 DEF MapInv, MapAround, MapInBox
  <2>2. ~LeftBehind(d, pos, p)
    BY <1>2 DEF Segmented
  <2>3. /\ AtMin(d, pos) => ~(p[d] > vertex_max[d] - mov_dist)
        /\ AtMax(d, pos) => ~(p[d] < vertex_min[d] + mov_dist)
    BY <2>1, <2>2 DEF LeftBehind
  <2>4. /\ vertex_min'[d] = vertex_min[d] + MoveOf(d, pos)
        /\ vertex_max'[d] = vertex_max[d] + MoveOf(d, pos)
    BY <1>2 DEF lasermap_fov_segment, MoveCube
  <2>5. p[d] \in Int /\ vertex_min[d] \in Int /\ vertex_max[d] \in Int /\ mov_dist \in Nat
    BY <1>1, Lengths DEF MapInv, MapTypes
  <2>6. CASE AtMin(d, pos)
    BY <2>1, <2>3, <2>4, <2>5, <2>6 DEF MoveOf
  <2>7. CASE ~AtMin(d, pos) /\ AtMax(d, pos)
    BY <2>1, <2>3, <2>4, <2>5, <2>7 DEF MoveOf
  <2>8. CASE ~AtMin(d, pos) /\ ~AtMax(d, pos)
    BY <2>1, <2>4, <2>5, <2>8 DEF MoveOf
  <2> QED
    BY <2>6, <2>7, <2>8
<1> QED
  BY <1>1, <1>3

\* map_incremental makes up no points.
LEMMA NothingMadeUp ==
  ASSUME NEW tree, NEW feats, NEW inited
  PROVE map_incremental(tree, feats, inited) \subseteq tree \cup feats
BY DEF map_incremental, Downsampled

\* The invariant over a scan.
LEMMA ScanKeepsMap ==
  ASSUME MapAssumption, MapInv, NEW pos \in Reachable(pos_LiD), NEW inited \in BOOLEAN,
         NEW feats \in SUBSET {p \in Landmarks : InRange(p, pos)},
         LidarScan(pos, feats, inited)
  PROVE MapInv'
<1>1. pos_LiD' = pos /\ pos \in [Axes -> Int] /\ lasermap_fov_segment(pos)
  BY ReachableNear DEF LidarScan, MapInv
<1>2. /\ Localmap_Initialized' = TRUE
      /\ vertex_min' \in [Axes -> Int] /\ vertex_max' \in [Axes -> Int]
      /\ LidarInBox'
  BY <1>1, SegmentKeepsLidar
<1>3. ikdtree' \subseteq Segmented(pos) \cup feats
  BY NothingMadeUp DEF LidarScan, BuildMapTree
<1>4. feats \subseteq [Axes -> Int]
  BY DEF MapAssumption
<1>5. ASSUME NEW p \in feats, NEW d \in Axes
      PROVE vertex_min'[d] <= p[d] /\ p[d] <= vertex_max'[d]
  <2>1. /\ vertex_min'[d] + EdgeMargin <= pos[d]
        /\ pos[d] + EdgeMargin <= vertex_max'[d]
    BY <1>1, <1>2 DEF LidarInBox, EdgeMargin
  <2>2. AxisDistance(p[d], pos[d]) <= DET_RANGE
    BY DEF InRange
  <2>3. p[d] \in Int /\ pos[d] \in Int /\ vertex_min'[d] \in Int /\ vertex_max'[d] \in Int
    BY <1>1, <1>2, <1>4
  <2> QED
    BY <2>1, <2>2, <2>3, Lengths DEF AxisDistance
<1>6. ASSUME NEW p \in Segmented(pos)
      PROVE p \in ikdtree /\ \A d \in Axes : vertex_min'[d] <= p[d] /\ p[d] <= vertex_max'[d]
  BY <1>1, SegmentedInside
<1>7. MapTypes'
  BY <1>1, <1>2, <1>3, <1>4, <1>6 DEF MapTypes, MapInv
<1>8. MapInBox'
  BY <1>3, <1>5, <1>6 DEF MapInBox
<1> QED
  BY <1>2, <1>7, <1>8 DEF MapInv, MapAround

\* The cube stays around the lidar and the map stays in the cube, for any range, walk
\* and landmarks (laserMapping.cpp:235-281).
THEOREM MapStaysAround == MapSpec => []MapAround
<1> USE MapAssumption
<1>1. MapInit => MapInv
  <2> SUFFICES ASSUME MapInit
               PROVE MapInv
    OBVIOUS
  <2>1. Localmap_Initialized \in BOOLEAN /\ ~Localmap_Initialized /\ ikdtree = {}
    BY Zenon DEF MapInit
  <2>2. /\ pos_LiD \in [Axes -> Int]
        /\ vertex_min \in [Axes -> Int] /\ vertex_max \in [Axes -> Int]
    BY DEF MapInit
  <2> QED
    BY <2>1, <2>2 DEF MapInv, MapTypes, MapAround, LidarInBox, MapInBox
<1>2. MapInv /\ [ScanNext]_mapVars => MapInv'
  <2> SUFFICES ASSUME MapInv, [ScanNext]_mapVars
               PROVE MapInv'
    OBVIOUS
  <2>1. CASE ScanNext
    BY <2>1, ScanKeepsMap DEF ScanNext
  <2>2. CASE UNCHANGED mapVars
    BY <2>2 DEF mapVars, MapInv, MapTypes, MapAround, LidarInBox, MapInBox, cube_len, EdgeMargin
  <2> QED
    BY <2>1, <2>2
<1>3. MapInv => MapAround
  BY DEF MapInv
<1> QED
  BY <1>1, <1>2, <1>3, PTL DEF MapSpec

-----------------------------------------------------------------------------
(* The map that is published and saved *)

Placed == [cloud : Nat, state : Nat]

\* Between two steps of the node the state is that of the last package, the dense cloud
\* is of that package or empty, and the sparse one lags behind only over empty scans.
CloudsOfState ==
  /\ state_point = package
  /\ feats_undistort = package \/ feats_undistort = NoCloud
  /\ feats_down_body <= package
  /\ feats_down_body + 1 .. package \subseteq emptyScans

OutputsInv ==
  /\ dense_pub_en \in BOOLEAN /\ package \in Nat /\ feats_down_body \in Nat
  /\ pcl_wait_pub \in Seq(Placed)
  /\ CloudsOfState
  /\ CloudsPlaced

\* The map is unchanged while a package is processed, and empty scans stay known.
LEMMA MapRests ==
  ASSUME OutputsInv, UNCHANGED <<dense_pub_en, pcl_wait_pub>>, emptyScans \subseteq emptyScans'
  PROVE CloudsPlaced'
BY DEF OutputsInv, CloudsPlaced

\* timer_callback: a scan with points brings the sparse cloud up to the state, one
\* without them is remembered.
LEMMA PackageKeeps ==
  ASSUME OutputsInv, outputs_timer_callback
  PROVE OutputsInv'
<1>1. /\ package' = package + 1 /\ state_point' = package + 1
      /\ UNCHANGED <<dense_pub_en, pcl_wait_pub>>
  BY DEF outputs_timer_callback, EmptyScan, FewPoints, BuildMap, UpdatedScan, FilteredScan,
         NextPackage, mapOut
<1>2. CASE EmptyScan
  <2>1. /\ feats_undistort' = NoCloud /\ feats_down_body' = feats_down_body
        /\ emptyScans' = emptyScans \cup {package + 1}
    BY <1>1, <1>2 DEF EmptyScan
  <2>2. feats_down_body' + 1 .. package' \subseteq emptyScans'
    BY <1>1, <2>1 DEF OutputsInv, CloudsOfState
  <2> QED
    BY <1>1, <2>1, <2>2, MapRests DEF OutputsInv, CloudsOfState
<1>3. CASE FewPoints \/ BuildMap \/ UpdatedScan
  <2>1. /\ feats_undistort' = package + 1 /\ feats_down_body' = package + 1
        /\ emptyScans' = emptyScans
    BY <1>1, <1>3 DEF FewPoints, BuildMap, UpdatedScan, FilteredScan
  <2>2. feats_down_body' + 1 .. package' \subseteq emptyScans'
    BY <1>1, <2>1 DEF OutputsInv
  <2> QED
    BY <1>1, <2>1, <2>2, MapRests DEF OutputsInv, CloudsOfState
<1> QED
  BY <1>2, <1>3 DEF outputs_timer_callback

\* The map timer places a cloud with the state of the moment.
LEMMA PublishKeeps ==
  ASSUME OutputsInv, map_publish_callback
  PROVE OutputsInv'
<1> DEFINE entry == [cloud |-> MapCloud, state |-> state_point]
<1>1. /\ pcl_wait_pub' = IF MapCloud = NoCloud THEN pcl_wait_pub ELSE Append(pcl_wait_pub, entry)
      /\ UNCHANGED <<dense_pub_en, package, state_point, feats_undistort, feats_down_body, emptyScans>>
  BY DEF map_publish_callback, publish_map, scanVars
<1>2. CASE MapCloud = NoCloud
  BY <1>1, <1>2 DEF OutputsInv, CloudsOfState, CloudsPlaced
<1>3. CASE MapCloud # NoCloud
  <2>1. /\ MapCloud \in Nat /\ MapCloud <= state_point
        /\ MapCloud + 1 .. state_point \subseteq emptyScans
        /\ dense_pub_en => MapCloud = state_point
    BY <1>3 DEF OutputsInv, CloudsOfState, MapCloud, WorldCloud
  <2>2. entry \in Placed
    BY <2>1 DEF Placed, OutputsInv, CloudsOfState
  <2>3. pcl_wait_pub' = Append(pcl_wait_pub, entry) /\ pcl_wait_pub' \in Seq(Placed)
    BY <1>1, <1>3, <2>2 DEF OutputsInv
  <2>4. ASSUME NEW n \in DOMAIN pcl_wait_pub'
        PROVE LET c == pcl_wait_pub'[n] IN
              /\ c.cloud <= c.state
              /\ c.cloud + 1 .. c.state \subseteq emptyScans
              /\ dense_pub_en => c.cloud = c.state
    <3>1. CASE n = Len(pcl_wait_pub) + 1
      BY <2>1, <2>2, <2>3, <3>1 DEF OutputsInv
    <3>2. CASE n # Len(pcl_wait_pub) + 1
      <4>1. n \in DOMAIN pcl_wait_pub /\ pcl_wait_pub'[n] = pcl_wait_pub[n]
        BY <2>2, <2>3, <2>4, <3>2 DEF OutputsInv
      <4> QED
        BY <4>1 DEF OutputsInv, CloudsPlaced
    <3> QED
      BY <3>1, <3>2
  <2> QED
    BY <1>1, <2>3, <2>4 DEF OutputsInv, CloudsOfState, CloudsPlaced
<1> QED
  BY <1>2, <1>3

\* Every cloud of the map is where its own scan saw it, for any packages, parameters
\* and timers (laserMapping.cpp:573-583).
THEOREM MapIsPlaced == OutputsSpec => []CloudsPlaced
<1>1. OutputsInit => OutputsInv
  <2> SUFFICES ASSUME OutputsInit
               PROVE OutputsInv
    OBVIOUS
  <2>1. dense_pub_en \in BOOLEAN
    BY Zenon DEF OutputsInit
  <2>2. pcl_wait_pub = <<>> /\ package = 0 /\ state_point = 0 /\ feats_undistort = 0 /\ feats_down_body = 0
    BY DEF OutputsInit, NoCloud
  <2> QED
    BY <2>1, <2>2 DEF OutputsInv, CloudsOfState, CloudsPlaced
<1>2. OutputsInv /\ [OutputsNext]_outputVars => OutputsInv'
  <2> SUFFICES ASSUME OutputsInv, [OutputsNext]_outputVars
               PROVE OutputsInv'
    OBVIOUS
  <2>1. CASE outputs_timer_callback
    BY <2>1, PackageKeeps
  <2>2. CASE map_publish_callback
    BY <2>2, PublishKeeps
  <2>3. CASE map_save_callback \/ UNCHANGED outputVars
    BY <2>3 DEF map_save_callback, save_to_pcd, outputVars, scanVars, mapOut,
                OutputsInv, CloudsOfState, CloudsPlaced
  <2> QED
    BY <2>1, <2>2, <2>3 DEF OutputsNext
<1>3. OutputsInv => CloudsPlaced
  BY DEF OutputsInv
<1> QED
  BY <1>1, <1>2, <1>3, PTL DEF OutputsSpec
=============================================================================
