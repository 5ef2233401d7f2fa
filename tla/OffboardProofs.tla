--------------------------- MODULE OffboardProofs ---------------------------
(***************************************************************************)
(* Proofs of the safety properties of Offboard, for every take-off height, *)
(* warm-up, set of positions, queue depth and number of crashes.           *)
(***************************************************************************)
EXTENDS OffboardProps, TLAPS

-----------------------------------------------------------------------------
(* Queues of requests *)

\* A queue of S stays one when a request of S joins it.
LEMMA EnqueueType ==
  ASSUME NEW S, NEW queue \in Seq(S), NEW r \in S
  PROVE  Enqueue(queue, r) \in Seq(S)
<1>1. CASE Len(queue) < QueueDepth
  BY <1>1 DEF Enqueue
<1>2. CASE ~(Len(queue) < QueueDepth)
  <2>1. queue # <<>>
    BY <1>2, OffboardAssumption
  <2>2. Tail(queue) \in Seq(S)
    BY <2>1
  <2>3. QED
    BY <1>2, <2>2 DEF Enqueue
<1>3. QED
  BY <1>1, <1>2

\* What MAVROS holds after a crash, and at the start.
LEMMA EmptyQueues ==
  /\ <<>> \in Seq({"OFFBOARD", "AUTO.LAND"}) /\ <<>> \in Seq(BOOLEAN)
  /\ <<>> \in Seq([arm : BOOLEAN, success : BOOLEAN])
OBVIOUS

\* The parts of a nonempty queue.
LEMMA HeadTailType ==
  ASSUME NEW S, NEW queue \in Seq(S), queue # <<>>
  PROVE  Head(queue) \in S /\ Tail(queue) \in Seq(S)
OBVIOUS

-----------------------------------------------------------------------------
(* Type correctness *)

\* Each way through the timer callback that executes a flight state keeps the
\* types of what Execute changes.
LEMMA ExecuteType ==
  ASSUME TypeOK, NEW s \in FlightState, Execute(s)
  PROVE  /\ flight_state_' \in FlightState
         /\ current_waypoint_index_' \in 0..NumWaypoints
         /\ stage1_started' \in BOOLEAN /\ stage1_completed' \in BOOLEAN
         /\ setpoint' \in [kind : Kinds, wp : 0..NumWaypoints]
         /\ s = "LAND" => /\ apply_arm_flag_' \in BOOLEAN
                          /\ apply_disarm_flag_' \in BOOLEAN
                          /\ armRequests' \in Seq(BOOLEAN)
                          /\ armReplies' \in Seq([arm : BOOLEAN, success : BOOLEAN])
<1>1. CASE s \in {"INIT", "TAKEOFF"}
  BY <1>1 DEF Execute, Publish, TypeOK, Kinds, NumWaypoints, stageVars
<1>2. CASE s = "WAYPOINT"
  BY <1>2 DEF Execute, execute_waypoint_mission, Publish, PublishWaypoint, TypeOK,
              Kinds, NumWaypoints, stageVars
<1>3. CASE s = "TILTLAND"
  <2>1. tilt_land /\ UNCHANGED current_waypoint_index_
    BY <1>3 DEF Execute
  <2>2. \E kind \in {"none", "tiltline", "tiltdescend"} : Publish(kind)
    BY <2>1 DEF tilt_land
  <2>3. setpoint' \in [kind : Kinds, wp : 0..NumWaypoints]
    BY <2>2 DEF Publish, Kinds, NumWaypoints
  <2>4. /\ flight_state_' \in FlightState
        /\ stage1_started' \in BOOLEAN /\ stage1_completed' \in BOOLEAN
    BY <2>1, Zenon DEF tilt_land, TypeOK, FlightState
  <2>5. QED
    BY <1>3, <2>1, <2>3, <2>4 DEF TypeOK
<1>4. CASE s = "LAND"
  <2>1. Enqueue(armRequests, FALSE) \in Seq(BOOLEAN)
    BY EnqueueType DEF TypeOK
  <2>2. land
    BY <1>4 DEF Execute
  <2>3. setpoint' \in [kind : Kinds, wp : 0..NumWaypoints]
    BY <2>2 DEF land, Publish, Kinds, NumWaypoints
  <2>4. /\ apply_arm_flag_' \in BOOLEAN /\ apply_disarm_flag_' \in BOOLEAN
        /\ armRequests' \in Seq(BOOLEAN)
        /\ armReplies' \in Seq([arm : BOOLEAN, success : BOOLEAN])
    BY <2>1, <2>2 DEF land, TypeOK
  <2>5. QED
    BY <1>4, <2>3, <2>4 DEF Execute, TypeOK, stageVars
<1>5. QED
  BY <1>1, <1>2, <1>3, <1>4 DEF FlightState

LEMMA TickType == TypeOK /\ timer_callback => TypeOK'
<1> SUFFICES ASSUME TypeOK, timer_callback PROVE TypeOK'
  OBVIOUS
<1> USE OffboardAssumption
<1>0. /\ launch_flag_' \in BOOLEAN /\ current_task_id_' \in {1, 2}
      /\ current_state_' \in VehicleState /\ local_position_' \in Point
      /\ mavros' \in BOOLEAN /\ crashes' \in 0..MaxCrashes /\ fcu' \in VehicleState
  BY DEF timer_callback, inputVars, commandVars, worldVars, TypeOK
<1>1. CASE TickWarmup
  <2>1. setpoint' \in [kind : Kinds, wp : 0..NumWaypoints]
    BY <1>1 DEF TickWarmup, Publish, Kinds, NumWaypoints
  <2>2. setpoint_ready_' \in BOOLEAN /\ offboard_setpoint_counter_' \in Nat
    BY <1>1 DEF TickWarmup, TypeOK
  <2>3. QED
    BY <1>0, <1>1, <2>1, <2>2 DEF TickWarmup, TypeOK, missionVars, stageVars, modeVars, armVars
<1>2. CASE TickEmergency
  <2>1. /\ Enqueue(modeRequests, "AUTO.LAND") \in Seq({"OFFBOARD", "AUTO.LAND"})
        /\ flight_state_ \in FlightState
    BY EnqueueType DEF TypeOK
  <2>2. /\ modeRequests' \in Seq({"OFFBOARD", "AUTO.LAND"})
        /\ apply_offboard_flag_' \in BOOLEAN /\ offboardReplies' \in Nat
    BY <1>2, <2>1 DEF TickEmergency, auto_land, TypeOK
  <2>3. setpoint_ready_' \in BOOLEAN /\ offboard_setpoint_counter_' \in Nat
    BY <1>2 DEF TickEmergency, warmupVars, TypeOK
  <2>4. /\ apply_arm_flag_' \in BOOLEAN /\ apply_disarm_flag_' \in BOOLEAN
        /\ armRequests' \in Seq(BOOLEAN)
        /\ armReplies' \in Seq([arm : BOOLEAN, success : BOOLEAN])
    BY <1>2, <2>1, ExecuteType DEF TickEmergency, armVars, TypeOK
  <2>5. QED
    BY <1>0, <1>2, <2>1, <2>2, <2>3, <2>4, ExecuteType DEF TickEmergency, TypeOK
<1>3. CASE TickInit
  <2>1. /\ Enqueue(modeRequests, "OFFBOARD") \in Seq({"OFFBOARD", "AUTO.LAND"})
        /\ Enqueue(armRequests, TRUE) \in Seq(BOOLEAN)
    BY EnqueueType DEF TypeOK
  <2>2. \E s \in {"INIT", "TAKEOFF"} : Execute(s)
    BY <1>3 DEF TickInit
  <2>3. setpoint_ready_' \in BOOLEAN /\ offboard_setpoint_counter_' \in Nat
    BY <1>3 DEF TickInit, warmupVars, TypeOK
  <2>4. /\ modeRequests' \in Seq({"OFFBOARD", "AUTO.LAND"})
        /\ apply_offboard_flag_' \in BOOLEAN /\ offboardReplies' \in Nat
    BY <1>3, <2>1 DEF TickInit, engage_offboard_mode, modeVars, TypeOK
  <2>5. /\ apply_arm_flag_' \in BOOLEAN /\ apply_disarm_flag_' \in BOOLEAN
        /\ armRequests' \in Seq(BOOLEAN)
        /\ armReplies' \in Seq([arm : BOOLEAN, success : BOOLEAN])
    BY <1>3, <2>1 DEF TickInit, arm, armVars, TypeOK
  <2>6. PICK s \in FlightState : Execute(s)
    BY <2>2 DEF FlightState
  <2>7. QED
    BY <1>0, <2>3, <2>4, <2>5, <2>6, ExecuteType DEF TypeOK
<1>4. CASE TickTakeoff \/ TickWaypoint \/ TickTiltLand
  <2>1. \E s \in {"TAKEOFF", "WAYPOINT", "TILTLAND"} : Execute(s)
    BY <1>4 DEF TickTakeoff, TickWaypoint, TickTiltLand
  <2>2. PICK s \in FlightState : Execute(s)
    BY <2>1 DEF FlightState
  <2>3. UNCHANGED <<warmupVars, modeVars, armVars>>
    BY <1>4 DEF TickTakeoff, TickWaypoint, TickTiltLand
  <2>4. QED
    BY <1>0, <2>2, <2>3, ExecuteType DEF warmupVars, modeVars, armVars, TypeOK
<1>5. CASE TickLand
  <2>1. Execute("LAND") /\ "LAND" \in FlightState
    BY <1>5 DEF TickLand, FlightState
  <2>2. QED
    BY <1>0, <1>5, <2>1, ExecuteType DEF TickLand, warmupVars, modeVars, TypeOK
<1>6. QED
  BY <1>1, <1>2, <1>3, <1>4, <1>5 DEF timer_callback

LEMMA ReplyType == TypeOK /\ (set_mode_callback \/ arm_callback \/ disarm_callback) => TypeOK'
<1> SUFFICES ASSUME TypeOK, set_mode_callback \/ arm_callback \/ disarm_callback PROVE TypeOK'
  OBVIOUS
<1> USE DEF nodeVars, warmupVars, missionVars, stageVars, inputVars, commandVars, worldVars
<1>1. CASE set_mode_callback
  <2>1. offboardReplies' \in Nat
    BY <1>1 DEF set_mode_callback, TypeOK
  <2>2. QED
    BY <1>1, <2>1 DEF set_mode_callback, TypeOK, armVars
<1>2. CASE arm_callback \/ disarm_callback
  <2>1. armReplies # <<>>
    BY <1>2 DEF arm_callback, disarm_callback
  <2>2. /\ Tail(armReplies) \in Seq([arm : BOOLEAN, success : BOOLEAN])
        /\ Head(armReplies) \in [arm : BOOLEAN, success : BOOLEAN]
    BY <2>1, HeadTailType DEF TypeOK
  <2>3. /\ apply_arm_flag_' \in BOOLEAN /\ apply_disarm_flag_' \in BOOLEAN
        /\ armReplies' \in Seq([arm : BOOLEAN, success : BOOLEAN])
    BY <1>2, <2>2 DEF arm_callback, disarm_callback, TypeOK
  <2>4. QED
    BY <1>2, <2>3 DEF arm_callback, disarm_callback, TypeOK, modeVars
<1>3. QED
  BY <1>1, <1>2

LEMMA InputType ==
  ASSUME TypeOK,
         \/ \E data \in BOOLEAN : launch_callback(data)
         \/ \E id \in TaskMsgs : task_callback(id)
         \/ vehicle_state_callback
         \/ \E p \in Drift : local_position_callback(p)
         \/ Fly
  PROVE  TypeOK'
<1> USE DEF nodeVars, warmupVars, missionVars, stageVars, commandVars, worldVars, modeVars, armVars
<1>1. CASE \E data \in BOOLEAN : launch_callback(data)
  BY <1>1 DEF launch_callback, TypeOK
<1>2. CASE \E id \in TaskMsgs : task_callback(id)
  BY <1>2 DEF task_callback, TypeOK
<1>3. CASE vehicle_state_callback
  BY <1>3 DEF vehicle_state_callback, TypeOK
<1>4. CASE (\E p \in Drift : local_position_callback(p)) \/ Fly
  <2>1. \E p \in Point : local_position_callback(p)
    BY <1>4, OffboardAssumption DEF Fly
  <2>2. QED
    BY <2>1 DEF local_position_callback, TypeOK
<1>5. QED
  BY <1>1, <1>2, <1>3, <1>4

LEMMA WorldType ==
  ASSUME TypeOK,
         \/ \E accepted \in BOOLEAN : FcuSetMode(accepted) \/ FcuArm(accepted)
         \/ FcuOwnChange \/ MavrosCrash \/ MavrosRestart
  PROVE  TypeOK'
<1> USE DEF nodeVars, warmupVars, missionVars, stageVars, inputVars, commandVars
<1>1. ASSUME NEW accepted \in BOOLEAN, FcuSetMode(accepted) PROVE TypeOK'
  <2>1. modeRequests # <<>>
    BY <1>1 DEF FcuSetMode
  <2>2. /\ Tail(modeRequests) \in Seq({"OFFBOARD", "AUTO.LAND"})
        /\ Head(modeRequests) \in {"OFFBOARD", "AUTO.LAND"}
    BY <2>1 DEF TypeOK
  <2>3. fcu' \in VehicleState
    BY <1>1, <2>2 DEF FcuSetMode, TypeOK, VehicleState, Modes
  <2>4. offboardReplies' \in Nat
    BY <1>1 DEF FcuSetMode, TypeOK
  <2>5. QED
    BY <1>1, <2>2, <2>3, <2>4 DEF FcuSetMode, TypeOK, armVars
<1>2. ASSUME NEW accepted \in BOOLEAN, FcuArm(accepted) PROVE TypeOK'
  <2>1. armRequests # <<>>
    BY <1>2 DEF FcuArm
  <2>2. Tail(armRequests) \in Seq(BOOLEAN) /\ Head(armRequests) \in BOOLEAN
    BY <2>1 DEF TypeOK
  <2>3. fcu' \in VehicleState
    BY <1>2, <2>2 DEF FcuArm, TypeOK, VehicleState
  <2>4. armReplies' \in Seq([arm : BOOLEAN, success : BOOLEAN])
    BY <1>2, <2>2 DEF FcuArm, TypeOK
  <2>5. QED
    BY <1>2, <2>2, <2>3, <2>4 DEF FcuArm, TypeOK, modeVars
<1>3. CASE FcuOwnChange
  BY <1>3 DEF FcuOwnChange, TypeOK, modeVars, armVars
<1>4. CASE MavrosCrash
  <2>1. crashes' \in 0..MaxCrashes
    BY <1>4, OffboardAssumption DEF MavrosCrash, TypeOK
  <2>2. QED
    BY <1>4, <2>1, EmptyQueues DEF MavrosCrash, TypeOK
<1>5. CASE MavrosRestart
  BY <1>5 DEF MavrosRestart, TypeOK, modeVars, armVars
<1>6. QED
  BY <1>1, <1>2, <1>3, <1>4, <1>5

LEMMA TypeInit == Init => TypeOK
<1> SUFFICES ASSUME Init PROVE TypeOK
  OBVIOUS
<1>1. /\ current_state_ \in VehicleState /\ fcu \in VehicleState
      /\ local_position_ \in Point
  BY DEF Init, VehicleState, Modes, Origin, Point
<1>2. setpoint \in [kind : Kinds, wp : 0..NumWaypoints]
  BY DEF Init, Kinds, NumWaypoints
<1>3. /\ flight_state_ \in FlightState /\ current_waypoint_index_ \in 0..NumWaypoints
      /\ crashes \in 0..MaxCrashes
  BY OffboardAssumption DEF Init, FlightState, NumWaypoints
<1>4. QED
  BY <1>1, <1>2, <1>3, EmptyQueues DEF Init, TypeOK

LEMMA TypeStep == TypeOK /\ [Next]_vars => TypeOK'
<1> SUFFICES ASSUME TypeOK, [Next]_vars PROVE TypeOK'
  OBVIOUS
<1>1. CASE Next
  BY <1>1, TickType, ReplyType, InputType, WorldType DEF Next
<1>2. CASE UNCHANGED vars
  BY <1>2 DEF vars, nodeVars, warmupVars, missionVars, stageVars, inputVars, commandVars,
              modeVars, armVars, worldVars, TypeOK
<1>3. QED
  BY <1>1, <1>2

\* Every variable keeps its type, in every instance.
THEOREM TypeCorrect == Spec => []TypeOK
BY TypeInit, TypeStep, PTL DEF Spec

-----------------------------------------------------------------------------
(* How many requests of a kind a queue holds *)

\* Taking the oldest request away never adds one, and takes the only one away.
LEMMA TailRequests ==
  ASSUME NEW S, NEW queue \in Seq(S), queue # <<>>, NEW r,
         AtMostOne(RequestsOf(queue, r))
  PROVE  /\ AtMostOne(RequestsOf(Tail(queue), r))
         /\ RequestsOf(Tail(queue), r) # {} => RequestsOf(queue, r) # {}
         /\ Head(queue) = r => RequestsOf(Tail(queue), r) = {}
         /\ Head(queue) = r => RequestsOf(queue, r) # {}
<1>1. /\ Len(queue) \in Nat /\ Len(queue) >= 1
      /\ Len(Tail(queue)) = Len(queue) - 1
      /\ \A i \in 1..Len(queue) - 1 : Tail(queue)[i] = queue[i + 1]
      /\ Head(queue) = queue[1]
  OBVIOUS
<1>2. ASSUME NEW i \in RequestsOf(Tail(queue), r) PROVE i + 1 \in RequestsOf(queue, r)
  BY <1>1, <1>2 DEF RequestsOf
<1>3. AtMostOne(RequestsOf(Tail(queue), r))
  <2> SUFFICES ASSUME NEW i \in RequestsOf(Tail(queue), r), NEW j \in RequestsOf(Tail(queue), r)
               PROVE  i = j
    BY DEF AtMostOne
  <2>1. i + 1 = j + 1
    BY <1>2 DEF AtMostOne
  <2>2. i \in Nat /\ j \in Nat
    BY <1>1 DEF RequestsOf
  <2>3. QED
    BY <2>1, <2>2
<1>4. Head(queue) = r => 1 \in RequestsOf(queue, r)
  BY <1>1 DEF RequestsOf
<1>5. ASSUME Head(queue) = r, NEW i \in RequestsOf(Tail(queue), r) PROVE FALSE
  <2>1. i + 1 = 1
    BY <1>2, <1>4, <1>5 DEF AtMostOne
  <2>2. i \in Nat /\ i >= 1
    BY <1>1 DEF RequestsOf
  <2>3. QED
    BY <2>1, <2>2
<1>6. QED
  BY <1>2, <1>3, <1>4, <1>5

\* A request that joins a queue without one of its kind is the only one, and it
\* adds none of another kind.
LEMMA EnqueueRequests ==
  ASSUME NEW S, NEW queue \in Seq(S), NEW x \in S, NEW r,
         AtMostOne(RequestsOf(queue, r))
  PROVE  /\ RequestsOf(queue, r) = {} => AtMostOne(RequestsOf(Enqueue(queue, x), r))
         /\ x # r => AtMostOne(RequestsOf(Enqueue(queue, x), r))
         /\ x # r /\ RequestsOf(Enqueue(queue, x), r) # {} => RequestsOf(queue, r) # {}
<1>1. PICK kept \in Seq(S) :
        /\ Enqueue(queue, x) = Append(kept, x)
        /\ AtMostOne(RequestsOf(kept, r))
        /\ RequestsOf(kept, r) # {} => RequestsOf(queue, r) # {}
  <2>1. CASE Len(queue) < QueueDepth
    BY <2>1 DEF Enqueue
  <2>2. CASE ~(Len(queue) < QueueDepth)
    <3>1. queue # <<>>
      BY <2>2, OffboardAssumption
    <3>2. Tail(queue) \in Seq(S) /\ Enqueue(queue, x) = Append(Tail(queue), x)
      BY <2>2, <3>1, HeadTailType DEF Enqueue
    <3>3. QED
      BY <3>1, <3>2, TailRequests
  <2>3. QED
    BY <2>1, <2>2
<1>2. /\ Len(Append(kept, x)) = Len(kept) + 1 /\ Len(kept) \in Nat
      /\ \A i \in 1..Len(kept) : Append(kept, x)[i] = kept[i]
      /\ Append(kept, x)[Len(kept) + 1] = x
  OBVIOUS
<1>3. ASSUME NEW i \in RequestsOf(Append(kept, x), r)
      PROVE  i \in RequestsOf(kept, r) \/ (i = Len(kept) + 1 /\ x = r)
  BY <1>2, <1>3 DEF RequestsOf
<1>4. x # r => RequestsOf(Append(kept, x), r) \subseteq RequestsOf(kept, r)
  BY <1>3
<1>5. RequestsOf(queue, r) = {} => RequestsOf(Append(kept, x), r) \subseteq {Len(kept) + 1}
  BY <1>1, <1>3
<1>6. QED
  BY <1>1, <1>4, <1>5 DEF AtMostOne

\* The same of the replies.
LEMMA TailAnswers ==
  ASSUME NEW S, NEW replies \in Seq(S), replies # <<>>, NEW r,
         AtMostOne(AnswersTo(replies, r))
  PROVE  /\ AtMostOne(AnswersTo(Tail(replies), r))
         /\ AnswersTo(Tail(replies), r) # {} => AnswersTo(replies, r) # {}
         /\ Head(replies).arm = r => AnswersTo(Tail(replies), r) = {}
<1>1. /\ Len(replies) \in Nat /\ Len(replies) >= 1
      /\ Len(Tail(replies)) = Len(replies) - 1
      /\ \A i \in 1..Len(replies) - 1 : Tail(replies)[i] = replies[i + 1]
      /\ Head(replies) = replies[1]
  OBVIOUS
<1>2. ASSUME NEW i \in AnswersTo(Tail(replies), r)
      PROVE  i \in Nat /\ i >= 1 /\ i + 1 \in AnswersTo(replies, r)
  BY <1>1, <1>2 DEF AnswersTo
<1>3. Head(replies).arm = r => 1 \in AnswersTo(replies, r)
  BY <1>1 DEF AnswersTo
<1>4. AtMostOne(AnswersTo(Tail(replies), r))
  <2> SUFFICES ASSUME NEW i \in AnswersTo(Tail(replies), r), NEW j \in AnswersTo(Tail(replies), r)
               PROVE  i = j
    BY DEF AtMostOne
  <2>1. i + 1 = j + 1
    BY <1>2 DEF AtMostOne
  <2>2. QED
    BY <1>2, <2>1
<1>5. ASSUME Head(replies).arm = r, NEW i \in AnswersTo(Tail(replies), r) PROVE FALSE
  <2>1. i + 1 = 1
    BY <1>2, <1>3, <1>5 DEF AtMostOne
  <2>2. QED
    BY <1>2, <2>1
<1>6. QED
  BY <1>2, <1>4, <1>5

LEMMA AppendAnswers ==
  ASSUME NEW S, NEW replies \in Seq(S), NEW x \in S, NEW r,
         AtMostOne(AnswersTo(replies, r))
  PROVE  /\ AnswersTo(replies, r) = {} => AtMostOne(AnswersTo(Append(replies, x), r))
         /\ x.arm # r => AnswersTo(Append(replies, x), r) = AnswersTo(replies, r)
         /\ x.arm = r => AnswersTo(Append(replies, x), r) # {}
<1>1. /\ Len(Append(replies, x)) = Len(replies) + 1 /\ Len(replies) \in Nat
      /\ \A i \in 1..Len(replies) : Append(replies, x)[i] = replies[i]
      /\ Append(replies, x)[Len(replies) + 1] = x
  OBVIOUS
<1>2. AnswersTo(Append(replies, x), r) =
        AnswersTo(replies, r) \cup (IF x.arm = r THEN {Len(replies) + 1} ELSE {})
  <2>1. ASSUME NEW i PROVE i \in AnswersTo(Append(replies, x), r) <=>
                            i \in AnswersTo(replies, r) \/ (i = Len(replies) + 1 /\ x.arm = r)
    BY <1>1 DEF AnswersTo
  <2>2. QED
    BY <2>1
<1>3. QED
  BY <1>2 DEF AtMostOne

-----------------------------------------------------------------------------
(* Which steps touch the mission, the arming service and the mode service *)

\* The flight state a tick may leave for its switch statement.
Reachable(s) ==
  \/ s = flight_state_
  \/ flight_state_ = "INIT" /\ s = "TAKEOFF"
  \/ flight_state_ = "TAKEOFF" /\ s = "WAYPOINT"
  \/ flight_state_ = "WAYPOINT" /\ RouteFlown /\ s = "TILTLAND"

LEMMA MissionSteps ==
  ASSUME TypeOK, [Next]_vars
  PROVE  \/ UNCHANGED <<missionVars, setpoint, warmupVars>>
         \/ TickWarmup
         \/ /\ setpoint_ready_ /\ UNCHANGED warmupVars
            /\ \E s \in FlightState : Reachable(s) /\ Execute(s)
<1>1. CASE timer_callback
  <2>1. CASE TickEmergency
    BY <2>1 DEF TickEmergency, Reachable, TypeOK
  <2>2. CASE TickInit
    BY <2>2 DEF TickInit, Checking, Reachable, FlightState
  <2>3. CASE TickTakeoff
    BY <2>3 DEF TickTakeoff, Checking, Reachable, FlightState
  <2>4. CASE TickWaypoint
    BY <2>4 DEF TickWaypoint, Checking, Reachable, FlightState
  <2>5. CASE TickTiltLand \/ TickLand
    BY <2>5 DEF TickTiltLand, TickLand, Checking, Reachable, FlightState
  <2>6. QED
    BY <1>1, <2>1, <2>2, <2>3, <2>4, <2>5 DEF timer_callback
<1>2. CASE UNCHANGED nodeVars
  BY <1>2 DEF nodeVars
<1>3. CASE UNCHANGED vars
  BY <1>3 DEF vars, nodeVars
<1>4. QED
  BY <1>1, <1>2, <1>3
     DEF Next, launch_callback, task_callback, vehicle_state_callback, local_position_callback,
         set_mode_callback, arm_callback, disarm_callback, FcuSetMode, FcuArm, FcuOwnChange,
         MavrosCrash, MavrosRestart, Fly

LEMMA ArmSteps ==
  ASSUME TypeOK, [Next]_vars
  PROVE  \/ UNCHANGED armVars
         \/ setpoint_ready_ /\ arm /\ ~apply_arm_flag_ /\ flight_state_ = "INIT"
         \/ setpoint_ready_ /\ land /\ flight_state_ = "LAND"
         \/ arm_callback \/ disarm_callback
         \/ \E accepted \in BOOLEAN : FcuArm(accepted)
         \/ MavrosCrash
<1>1. CASE timer_callback
  <2>1. CASE TickEmergency
    BY <2>1 DEF TickEmergency, Execute
  <2>2. CASE TickInit
    BY <2>2 DEF TickInit, Checking
  <2>3. CASE TickLand
    BY <2>3 DEF TickLand, Checking, Execute
  <2>4. CASE TickWarmup \/ TickTakeoff \/ TickWaypoint \/ TickTiltLand
    BY <2>4 DEF TickWarmup, TickTakeoff, TickWaypoint, TickTiltLand
  <2>5. QED
    BY <1>1, <2>1, <2>2, <2>3, <2>4 DEF timer_callback
<1>2. CASE UNCHANGED vars
  BY <1>2 DEF vars
<1>3. QED
  BY <1>1, <1>2
     DEF Next, launch_callback, task_callback, vehicle_state_callback, local_position_callback,
         set_mode_callback, FcuSetMode, FcuOwnChange, MavrosRestart, Fly

LEMMA ModeSteps ==
  ASSUME TypeOK, [Next]_vars
  PROVE  \/ UNCHANGED modeVars
         \/ setpoint_ready_ /\ auto_land
         \/ setpoint_ready_ /\ engage_offboard_mode /\ ~apply_offboard_flag_
         \/ set_mode_callback
         \/ \E accepted \in BOOLEAN : FcuSetMode(accepted)
         \/ MavrosCrash
<1>1. CASE timer_callback
  <2>1. CASE TickEmergency
    BY <2>1 DEF TickEmergency
  <2>2. CASE TickInit
    BY <2>2 DEF TickInit, Checking
  <2>3. CASE TickWarmup \/ TickTakeoff \/ TickWaypoint \/ TickTiltLand \/ TickLand
    BY <2>3 DEF TickWarmup, TickTakeoff, TickWaypoint, TickTiltLand, TickLand
  <2>4. QED
    BY <1>1, <2>1, <2>2, <2>3 DEF timer_callback
<1>2. CASE UNCHANGED vars
  BY <1>2 DEF vars
<1>3. QED
  BY <1>1, <1>2
     DEF Next, launch_callback, task_callback, vehicle_state_callback, local_position_callback,
         arm_callback, disarm_callback, FcuArm, FcuOwnChange, MavrosRestart, Fly

-----------------------------------------------------------------------------
(* The inductive invariant, one lemma for each of its parts *)

LEMMA RouteOrderKept == TypeOK /\ RouteOrder /\ [Next]_vars => RouteOrder'
<1> SUFFICES ASSUME TypeOK, RouteOrder, [Next]_vars PROVE RouteOrder'
  OBVIOUS
<1>1. CASE UNCHANGED missionVars
  BY <1>1 DEF missionVars, RouteOrder
<1>2. ASSUME NEW s \in FlightState, Reachable(s), Execute(s) PROVE RouteOrder'
  <2>1. CASE s \in {"INIT", "TAKEOFF", "LAND"}
    BY <1>2, <2>1 DEF Reachable, Execute, RouteOrder
  <2>2. CASE s = "WAYPOINT"
    BY <1>2, <2>2 DEF Execute, RouteOrder
  <2>3. CASE s = "TILTLAND"
    <3>1. current_waypoint_index_' = current_waypoint_index_
      BY <1>2, <2>3 DEF Execute
    <3>2. flight_state_' \in {"TILTLAND", "LAND"}
      BY <1>2, <2>3 DEF Execute, tilt_land
    <3>3. current_waypoint_index_ = NumWaypoints
      BY <1>2, <2>3 DEF Reachable, RouteOrder, RouteFlown, TypeOK, NumWaypoints
    <3>4. QED
      BY <3>1, <3>2, <3>3 DEF RouteOrder
  <2>4. QED
    BY <2>1, <2>2, <2>3 DEF FlightState
<1>3. QED
  BY <1>1, <1>2, MissionSteps DEF TickWarmup

LEMMA SetpointGapsKept ==
  TypeOK /\ RouteOrder /\ SetpointGaps /\ [Next]_vars => SetpointGaps'
<1> SUFFICES ASSUME TypeOK, RouteOrder, SetpointGaps, [Next]_vars PROVE SetpointGaps'
  OBVIOUS
<1>1. CASE UNCHANGED <<missionVars, setpoint>>
  BY <1>1 DEF missionVars, SetpointGaps
<1>2. CASE TickWarmup
  BY <1>2 DEF TickWarmup, Publish, SetpointGaps
<1>3. ASSUME NEW s \in FlightState, Reachable(s), Execute(s) PROVE SetpointGaps'
  <2>1. CASE s \in {"INIT", "TAKEOFF", "LAND"}
    <3>1. \E kind \in {"hold", "takeoff", "descend", "stop"} : Publish(kind)
      BY <1>3, <2>1 DEF Execute, land
    <3>2. QED
      BY <3>1 DEF Publish, SetpointGaps
  <2>2. CASE s = "WAYPOINT"
    <3>1. \/ setpoint'.kind = "waypoint"
          \/ current_waypoint_index_ >= NumWaypoints /\ UNCHANGED current_waypoint_index_
      BY <1>3, <2>2 DEF Execute, execute_waypoint_mission, Publish, PublishWaypoint
    <3>2. flight_state_' = "WAYPOINT"
      BY <1>3, <2>2 DEF Execute
    <3>3. QED
      BY <3>1, <3>2 DEF SetpointGaps, TypeOK, NumWaypoints
  <2>3. CASE s = "TILTLAND"
    <3>1. current_waypoint_index_' = NumWaypoints
      BY <1>3, <2>3 DEF Execute, Reachable, RouteOrder, RouteFlown, TypeOK, NumWaypoints
    <3>2. setpoint'.kind = "none" => flight_state_' = "LAND"
      BY <1>3, <2>3 DEF Execute, tilt_land, Publish
    <3>3. QED
      BY <3>1, <3>2 DEF SetpointGaps
  <2>4. QED
    BY <2>1, <2>2, <2>3 DEF FlightState
<1>4. QED
  BY <1>1, <1>2, <1>3, MissionSteps

LEMMA WarmedUpKept == TypeOK /\ WarmedUp /\ [Next]_vars => WarmedUp'
<1> SUFFICES ASSUME TypeOK, WarmedUp, [Next]_vars PROVE WarmedUp'
  OBVIOUS
<1>1. CASE setpoint_ready_
  <2>1. UNCHANGED warmupVars
    BY <1>1, MissionSteps DEF TickWarmup
  <2>2. QED
    BY <1>1, <2>1 DEF warmupVars, WarmedUp
<1>2. CASE ~setpoint_ready_
  <2>1. armRequests' = <<>>
    BY <1>2, ArmSteps DEF WarmedUp, armVars, arm_callback, disarm_callback, FcuArm, MavrosCrash
  <2>2. modeRequests' = <<>>
    BY <1>2, ModeSteps DEF WarmedUp, modeVars, set_mode_callback, FcuSetMode, MavrosCrash
  <2>3. flight_state_' = "INIT" /\ (UNCHANGED warmupVars \/ TickWarmup)
    BY <1>2, MissionSteps DEF WarmedUp, missionVars, TickWarmup
  <2>4. setpoint_ready_' => offboard_setpoint_counter_' > WarmupTicks
    BY <1>2, <2>3 DEF warmupVars, TickWarmup
  <2>5. QED
    BY <2>1, <2>2, <2>3, <2>4 DEF WarmedUp
<1>3. QED
  BY <1>1, <1>2 DEF TypeOK

LEMMA SingleArmCallKept == TypeOK /\ SingleArmCall /\ [Next]_vars => SingleArmCall'
<1> SUFFICES ASSUME TypeOK, SingleArmCall, [Next]_vars PROVE SingleArmCall'
  OBVIOUS
<1> DEFINE Calls(q) == RequestsOf(q, TRUE)
           Answers(q) == AnswersTo(q, TRUE)
<1>1. CASE UNCHANGED armVars
  BY <1>1 DEF armVars, SingleArmCall, ArmCalls, ArmAnswers
<1>2. CASE arm /\ ~apply_arm_flag_
  <2>1. Calls(armRequests) = {} /\ Answers(armReplies) = {}
    BY <1>2 DEF SingleArmCall, ArmCalls, ArmAnswers
  <2>2. AtMostOne(Calls(Enqueue(armRequests, TRUE)))
    BY <2>1, EnqueueRequests DEF TypeOK, SingleArmCall, ArmCalls
  <2>3. QED
    BY <1>2, <2>1, <2>2 DEF arm, SingleArmCall, ArmCalls, ArmAnswers
<1>3. CASE land
  <2>1. /\ AtMostOne(Calls(Enqueue(armRequests, FALSE)))
        /\ Calls(Enqueue(armRequests, FALSE)) # {} => Calls(armRequests) # {}
    BY EnqueueRequests DEF TypeOK, SingleArmCall, ArmCalls
  <2>2. QED
    BY <1>3, <2>1 DEF land, SingleArmCall, ArmCalls, ArmAnswers
<1>4. CASE arm_callback
  <2>1. armReplies # <<>> /\ Head(armReplies).arm \in BOOLEAN /\ Head(armReplies).arm
    BY <1>4, HeadTailType DEF arm_callback, TypeOK
  <2>2. Head(armReplies).arm = TRUE
    BY <2>1
  <2>3. Answers(armReplies) # {}
    BY <2>1, <2>2 DEF AnswersTo, TypeOK
  <2>4. Answers(Tail(armReplies)) = {} /\ Calls(armRequests) = {}
    BY <2>1, <2>2, <2>3, TailAnswers DEF TypeOK, SingleArmCall, ArmCalls, ArmAnswers
  <2>5. QED
    BY <1>4, <2>4 DEF arm_callback, SingleArmCall, ArmCalls, ArmAnswers, AtMostOne
<1>5. CASE disarm_callback
  <2>1. armReplies # <<>>
    BY <1>5 DEF disarm_callback
  <2>2. /\ AtMostOne(Answers(Tail(armReplies)))
        /\ Answers(Tail(armReplies)) # {} => Answers(armReplies) # {}
    BY <2>1, TailAnswers DEF TypeOK, SingleArmCall, ArmAnswers
  <2>3. QED
    BY <1>5, <2>2 DEF disarm_callback, SingleArmCall, ArmCalls, ArmAnswers
<1>6. ASSUME NEW accepted \in BOOLEAN, FcuArm(accepted) PROVE SingleArmCall'
  <2> DEFINE r == Head(armRequests)
             reply == [arm |-> r, success |-> accepted]
  <2>1. armRequests # <<>> /\ r \in BOOLEAN /\ reply \in [arm : BOOLEAN, success : BOOLEAN]
    BY <1>6, HeadTailType DEF FcuArm, TypeOK
  <2>2. /\ AtMostOne(Calls(Tail(armRequests)))
        /\ Calls(Tail(armRequests)) # {} => Calls(armRequests) # {}
        /\ r = TRUE => Calls(Tail(armRequests)) = {} /\ Calls(armRequests) # {}
    BY <2>1, TailRequests DEF TypeOK, SingleArmCall, ArmCalls
  <2>3. /\ Answers(armReplies) = {} => AtMostOne(Answers(Append(armReplies, reply)))
        /\ r # TRUE => Answers(Append(armReplies, reply)) = Answers(armReplies)
    <3>1. reply.arm = r
      OBVIOUS
    <3> HIDE DEF reply
    <3>2. armReplies \in Seq([arm : BOOLEAN, success : BOOLEAN]) /\ AtMostOne(Answers(armReplies))
      BY DEF TypeOK, SingleArmCall, ArmAnswers
    <3>3. QED
      BY <2>1, <3>1, <3>2, AppendAnswers
  <2>4. /\ armRequests' = Tail(armRequests) /\ armReplies' = Append(armReplies, reply)
        /\ apply_arm_flag_' = apply_arm_flag_
    BY <1>6 DEF FcuArm
  <2>5. CASE r = TRUE
    BY <2>2, <2>3, <2>4, <2>5 DEF SingleArmCall, ArmCalls, ArmAnswers
  <2>6. CASE r # TRUE
    BY <2>2, <2>3, <2>4, <2>6 DEF SingleArmCall, ArmCalls, ArmAnswers
  <2>7. QED
    BY <2>5, <2>6
<1>7. CASE MavrosCrash
  BY <1>7 DEF MavrosCrash, SingleArmCall, ArmCalls, ArmAnswers, RequestsOf, AnswersTo, AtMostOne
<1>8. QED
  BY <1>1, <1>2, <1>3, <1>4, <1>5, <1>6, <1>7, ArmSteps

LEMMA SingleOffboardCallKept == TypeOK /\ SingleOffboardCall /\ [Next]_vars => SingleOffboardCall'
<1> SUFFICES ASSUME TypeOK, SingleOffboardCall, [Next]_vars PROVE SingleOffboardCall'
  OBVIOUS
<1> DEFINE Calls(q) == RequestsOf(q, "OFFBOARD")
<1>1. CASE UNCHANGED modeVars
  BY <1>1 DEF modeVars, SingleOffboardCall, OffboardCalls
<1>2. CASE auto_land
  <2>1. /\ AtMostOne(Calls(Enqueue(modeRequests, "AUTO.LAND")))
        /\ Calls(Enqueue(modeRequests, "AUTO.LAND")) # {} => Calls(modeRequests) # {}
    BY EnqueueRequests DEF TypeOK, SingleOffboardCall, OffboardCalls
  <2>2. QED
    BY <1>2, <2>1 DEF auto_land, SingleOffboardCall, OffboardCalls
<1>3. CASE engage_offboard_mode /\ ~apply_offboard_flag_
  <2>1. Calls(modeRequests) = {} /\ offboardReplies = 0
    BY <1>3 DEF SingleOffboardCall, OffboardCalls, TypeOK
  <2>2. AtMostOne(Calls(Enqueue(modeRequests, "OFFBOARD")))
    BY <2>1, EnqueueRequests DEF TypeOK, SingleOffboardCall, OffboardCalls
  <2>3. QED
    BY <1>3, <2>1, <2>2 DEF engage_offboard_mode, SingleOffboardCall, OffboardCalls
<1>4. CASE set_mode_callback
  <2>1. offboardReplies = 1 /\ Calls(modeRequests) = {}
    BY <1>4 DEF set_mode_callback, TypeOK, SingleOffboardCall, OffboardCalls
  <2>2. QED
    BY <1>4, <2>1 DEF set_mode_callback, SingleOffboardCall, OffboardCalls
<1>5. ASSUME NEW accepted \in BOOLEAN, FcuSetMode(accepted) PROVE SingleOffboardCall'
  <2>1. modeRequests # <<>>
    BY <1>5 DEF FcuSetMode
  <2>2. /\ AtMostOne(Calls(Tail(modeRequests)))
        /\ Calls(Tail(modeRequests)) # {} => Calls(modeRequests) # {}
        /\ Head(modeRequests) = "OFFBOARD" =>
             Calls(Tail(modeRequests)) = {} /\ Calls(modeRequests) # {}
    BY <2>1, TailRequests DEF TypeOK, SingleOffboardCall, OffboardCalls
  <2>3. CASE Head(modeRequests) = "OFFBOARD"
    <3>1. offboardReplies' = 1
      BY <1>5, <2>2, <2>3 DEF FcuSetMode, SingleOffboardCall, OffboardCalls
    <3>2. QED
      BY <1>5, <2>2, <2>3, <3>1 DEF FcuSetMode, SingleOffboardCall, OffboardCalls
  <2>4. CASE Head(modeRequests) # "OFFBOARD"
    BY <1>5, <2>2, <2>4 DEF FcuSetMode, SingleOffboardCall, OffboardCalls
  <2>5. QED
    BY <2>3, <2>4
<1>6. CASE MavrosCrash
  BY <1>6 DEF MavrosCrash, SingleOffboardCall, OffboardCalls, RequestsOf, AtMostOne
<1>7. QED
  BY <1>1, <1>2, <1>3, <1>4, <1>5, <1>6, ModeSteps

\* LAND is never left, and the route stays flown in it.
LEMMA LandIsFinal ==
  ASSUME TypeOK, RouteOrder, WarmedUp, [Next]_vars, flight_state_ = "LAND"
  PROVE  flight_state_' = "LAND" /\ current_waypoint_index_' = NumWaypoints
<1>1. flight_state_' = "LAND"
  <2>1. ASSUME NEW s \in FlightState, Reachable(s), Execute(s) PROVE flight_state_' = "LAND"
    BY <2>1 DEF Reachable, Execute
  <2>2. QED
    BY <2>1, MissionSteps DEF missionVars, TickWarmup, WarmedUp
<1>2. QED
  BY <1>1, RouteOrderKept DEF RouteOrder

\* The autopilot's answer to one request leaves the other kind's calls absent.
LEMMA AnswersNothingElse ==
  ASSUME TypeOK, NEW accepted \in BOOLEAN, FcuArm(accepted), NEW r,
         AtMostOne(RequestsOf(armRequests, r)), AtMostOne(AnswersTo(armReplies, r))
  PROVE  RequestsOf(armRequests, r) = {} /\ AnswersTo(armReplies, r) = {}
           => RequestsOf(armRequests, r)' = {} /\ AnswersTo(armReplies, r)' = {}
<1> DEFINE reply == [arm |-> Head(armRequests), success |-> accepted]
<1>1. /\ armRequests # <<>> /\ Head(armRequests) \in BOOLEAN
      /\ reply \in [arm : BOOLEAN, success : BOOLEAN] /\ reply.arm = Head(armRequests)
  BY HeadTailType DEF FcuArm, TypeOK
<1>2. armRequests' = Tail(armRequests) /\ armReplies' = Append(armReplies, reply)
  BY DEF FcuArm
<1>3. /\ RequestsOf(Tail(armRequests), r) # {} => RequestsOf(armRequests, r) # {}
      /\ Head(armRequests) = r => RequestsOf(armRequests, r) # {}
  BY <1>1, TailRequests DEF TypeOK
<1> HIDE DEF reply
<1>4. armReplies \in Seq([arm : BOOLEAN, success : BOOLEAN])
  BY DEF TypeOK
<1>5. reply.arm # r => AnswersTo(Append(armReplies, reply), r) = AnswersTo(armReplies, r)
  BY <1>1, <1>4, AppendAnswers
<1>6. QED
  BY <1>1, <1>2, <1>3, <1>5

\* A disarm call becomes outstanding in LAND only.
LEMMA DisarmStarts ==
  ASSUME TypeOK, [Next]_vars,
         DisarmCalls' # {} \/ DisarmAnswers' # {} \/ apply_disarm_flag_'
  PROVE  \/ DisarmCalls # {} \/ DisarmAnswers # {} \/ apply_disarm_flag_
         \/ flight_state_ = "LAND"
<1> SUFFICES ASSUME DisarmCalls = {}, DisarmAnswers = {}, ~apply_disarm_flag_,
                    flight_state_ # "LAND"
             PROVE  FALSE
  OBVIOUS
<1>0. RequestsOf(armRequests, FALSE) = {} /\ AnswersTo(armReplies, FALSE) = {}
  BY DEF DisarmCalls, DisarmAnswers
<1>a. AtMostOne(RequestsOf(armRequests, FALSE)) /\ AtMostOne(AnswersTo(armReplies, FALSE))
  BY <1>0 DEF AtMostOne
<1>1. CASE UNCHANGED armVars
  BY <1>1 DEF armVars, DisarmCalls, DisarmAnswers
<1>2. CASE arm
  <2>1. RequestsOf(Enqueue(armRequests, TRUE), FALSE) # {} => RequestsOf(armRequests, FALSE) # {}
    BY <1>a, EnqueueRequests DEF TypeOK
  <2>2. QED
    BY <1>0, <1>2, <2>1 DEF arm, DisarmCalls, DisarmAnswers
<1>3. CASE arm_callback \/ disarm_callback
  <2>1. armReplies # <<>>
    BY <1>3 DEF arm_callback, disarm_callback
  <2>2. AnswersTo(Tail(armReplies), FALSE) # {} => AnswersTo(armReplies, FALSE) # {}
    BY <1>a, <2>1, TailAnswers DEF TypeOK
  <2>3. QED
    BY <1>0, <1>3, <2>2 DEF arm_callback, disarm_callback, DisarmCalls, DisarmAnswers
<1>4. ASSUME NEW accepted \in BOOLEAN, FcuArm(accepted) PROVE FALSE
  <2>1. RequestsOf(armRequests, FALSE)' = {} /\ AnswersTo(armReplies, FALSE)' = {}
    BY <1>0, <1>a, <1>4, AnswersNothingElse
  <2>2. apply_disarm_flag_' = apply_disarm_flag_
    BY <1>4 DEF FcuArm
  <2>3. QED
    BY <2>1, <2>2 DEF DisarmCalls, DisarmAnswers
<1>5. CASE MavrosCrash
  BY <1>5 DEF MavrosCrash, DisarmCalls, DisarmAnswers, RequestsOf, AnswersTo
<1>6. QED
  BY <1>1, <1>2, <1>3, <1>4, <1>5, ArmSteps

LEMMA DisarmOnlyInLandKept ==
  TypeOK /\ RouteOrder /\ WarmedUp /\ DisarmOnlyInLand /\ [Next]_vars => DisarmOnlyInLand'
<1> SUFFICES ASSUME TypeOK, RouteOrder, WarmedUp, DisarmOnlyInLand, [Next]_vars,
                    DisarmCalls' # {} \/ DisarmAnswers' # {} \/ apply_disarm_flag_'
             PROVE  flight_state_' = "LAND" /\ current_waypoint_index_' = NumWaypoints
  BY DEF DisarmOnlyInLand
<1>1. flight_state_ = "LAND"
  BY DisarmStarts DEF DisarmOnlyInLand
<1>2. QED
  BY <1>1, LandIsFinal

-----------------------------------------------------------------------------
(* The theorems *)

LEMMA InductiveInit == Init => Inductive
<1> SUFFICES ASSUME Init PROVE Inductive
  OBVIOUS
<1>1. /\ ArmCalls = {} /\ ArmAnswers = {} /\ DisarmCalls = {} /\ DisarmAnswers = {}
      /\ OffboardCalls = {}
  BY DEF Init, ArmCalls, ArmAnswers, DisarmCalls, DisarmAnswers, OffboardCalls, RequestsOf,
         AnswersTo
<1>2. TypeOK
  BY TypeInit
<1>3. SingleArmCall /\ SingleOffboardCall /\ DisarmOnlyInLand
  BY <1>1 DEF Init, SingleArmCall, SingleOffboardCall, DisarmOnlyInLand, AtMostOne
<1>4. RouteOrder /\ WarmedUp /\ SetpointGaps
  BY DEF Init, RouteOrder, WarmedUp, SetpointGaps
<1>5. QED
  BY <1>2, <1>3, <1>4 DEF Inductive

\* Every step keeps it.
LEMMA InductiveStep == Inductive /\ [Next]_vars => Inductive'
BY TypeStep, RouteOrderKept, WarmedUpKept, SingleArmCallKept, SingleOffboardCallKept,
   DisarmOnlyInLandKept, SetpointGapsKept DEF Inductive

\* The inductive invariant holds in every instance.
THEOREM InductiveInvariant == Spec => []Inductive
BY InductiveInit, InductiveStep, PTL DEF Spec

\* One arming call at most is ever outstanding.
THEOREM ArmCallsSingle == Spec => []SingleArmCall
<1>1. Inductive => SingleArmCall
  BY DEF Inductive
<1>2. QED
  BY <1>1, InductiveInvariant, PTL

\* One OFFBOARD call at most is ever outstanding.
THEOREM OffboardCallsSingle == Spec => []SingleOffboardCall
<1>1. Inductive => SingleOffboardCall
  BY DEF Inductive
<1>2. QED
  BY <1>1, InductiveInvariant, PTL

\* Only a vehicle that flew its route and is landing is sent a disarm request.
THEOREM DisarmsInLandOnly == Spec => []DisarmOnlyInLand
<1>1. Inductive => DisarmOnlyInLand
  BY DEF Inductive
<1>2. QED
  BY <1>1, InductiveInvariant, PTL

\* The ticks without a setpoint are the two kinds SetpointGaps names.
THEOREM GapsAreKnown == Spec => []SetpointGaps
<1>1. Inductive => SetpointGaps
  BY DEF Inductive
<1>2. QED
  BY <1>1, InductiveInvariant, PTL

\* Nothing is requested, and no flight begins, before the warm-up.
THEOREM WarmupFirst == Spec => []NothingBeforeWarmup
<1>1. Inductive => NothingBeforeWarmup
  BY DEF Inductive, WarmedUp, NothingBeforeWarmup, TypeOK
<1>2. QED
  BY <1>1, InductiveInvariant, PTL

-----------------------------------------------------------------------------
(* What backs the disarm flag *)

\* All requests for a are ahead of those for d.
Ahead(queue, a, d) == \A i \in RequestsOf(queue, a), j \in RequestsOf(queue, d) : i < j
ArmsFirst == Ahead(armRequests, TRUE, FALSE)
FailedIn(replies) == {i \in 1..Len(replies) : replies[i].arm = FALSE /\ replies[i].success = FALSE}

\* A set flag waits for a call, or for the refusal that will clear it, or the vehicle is
\* disarmed and no arming call is left that could change that.
FlagBacked ==
  apply_disarm_flag_ /\ crashes = 0 =>
    \/ DisarmCalls # {} \/ FailedIn(armReplies) # {}
    \/ ~fcu.armed /\ ArmCalls = {}

\* Since arming is requested in INIT only, arming calls are ahead of disarming ones.
DisarmInv == Inductive /\ ArmsFirst /\ FlagBacked

\* What the oldest request leaves behind.
LEMMA TailOrder ==
  ASSUME NEW S, NEW a, NEW d, a # d, NEW queue \in Seq(S), queue # <<>>, Ahead(queue, a, d)
  PROVE  /\ Ahead(Tail(queue), a, d)
         /\ Head(queue) = d => RequestsOf(queue, a) = {} /\ RequestsOf(Tail(queue), a) = {}
         /\ Head(queue) = a => /\ RequestsOf(queue, a) # {}
                               /\ RequestsOf(queue, d) # {} => RequestsOf(Tail(queue), d) # {}
<1>1. /\ Len(queue) \in Nat /\ Len(queue) >= 1
      /\ Len(Tail(queue)) = Len(queue) - 1
      /\ \A i \in 1..Len(queue) - 1 : Tail(queue)[i] = queue[i + 1]
      /\ Head(queue) = queue[1]
  OBVIOUS
<1>2. ASSUME NEW r, NEW i \in RequestsOf(Tail(queue), r)
      PROVE  i \in Nat /\ i >= 1 /\ i + 1 \in RequestsOf(queue, r)
  BY <1>1, <1>2 DEF RequestsOf
<1>3. Ahead(Tail(queue), a, d)
  <2> SUFFICES ASSUME NEW i \in RequestsOf(Tail(queue), a), NEW j \in RequestsOf(Tail(queue), d)
               PROVE  i < j
    BY DEF Ahead
  <2>1. i + 1 < j + 1 /\ i \in Nat /\ j \in Nat
    BY <1>2 DEF Ahead
  <2> QED
    BY <2>1
<1>4. ASSUME Head(queue) = d, NEW i \in RequestsOf(queue, a) PROVE FALSE
  <2>1. 1 \in RequestsOf(queue, d) /\ i \in Nat /\ i >= 1
    BY <1>1, <1>4 DEF RequestsOf
  <2> QED
    BY <2>1 DEF Ahead
<1>5. ASSUME Head(queue) = d, NEW i \in RequestsOf(Tail(queue), a) PROVE FALSE
  BY <1>2, <1>4, <1>5
<1>6. ASSUME Head(queue) = a, NEW j \in RequestsOf(queue, d)
      PROVE  RequestsOf(Tail(queue), d) # {}
  <2>1. j \in Nat /\ j > 1 /\ j <= Len(queue) /\ queue[j] = d
    BY <1>1, <1>6 DEF RequestsOf
  <2>2. j - 1 \in 1..Len(queue) - 1 /\ Tail(queue)[j - 1] = queue[j - 1 + 1] /\ j - 1 + 1 = j
    BY <1>1, <2>1
  <2>3. j - 1 \in RequestsOf(Tail(queue), d)
    BY <1>1, <2>1, <2>2 DEF RequestsOf
  <2> QED
    BY <2>3
<1>7. Head(queue) = a => 1 \in RequestsOf(queue, a)
  BY <1>1 DEF RequestsOf
<1> QED
  BY <1>3, <1>4, <1>5, <1>6, <1>7

\* A request that joins is behind all of the other kind, and is in the queue then.
LEMMA EnqueueBehind ==
  ASSUME NEW S, NEW a, NEW d \in S, a # d, NEW queue \in Seq(S), Ahead(queue, a, d)
  PROVE  /\ Ahead(Enqueue(queue, d), a, d)
         /\ RequestsOf(Enqueue(queue, d), d) # {}
<1>1. PICK kept \in Seq(S) : Enqueue(queue, d) = Append(kept, d) /\ Ahead(kept, a, d)
  <2>1. CASE Len(queue) < QueueDepth
    BY <2>1 DEF Enqueue
  <2>2. CASE ~(Len(queue) < QueueDepth)
    <3>1. queue # <<>>
      BY <2>2, OffboardAssumption
    <3>2. Tail(queue) \in Seq(S) /\ Enqueue(queue, d) = Append(Tail(queue), d)
      BY <2>2, <3>1, HeadTailType DEF Enqueue
    <3> QED
      BY <3>1, <3>2, TailOrder
  <2> QED
    BY <2>1, <2>2
<1>2. /\ Len(Append(kept, d)) = Len(kept) + 1 /\ Len(kept) \in Nat
      /\ \A i \in 1..Len(kept) : Append(kept, d)[i] = kept[i]
      /\ Append(kept, d)[Len(kept) + 1] = d
  OBVIOUS
<1>3. ASSUME NEW i \in RequestsOf(Append(kept, d), a)
      PROVE  i \in RequestsOf(kept, a) /\ i \in 1..Len(kept)
  BY <1>2, <1>3 DEF RequestsOf
<1>4. ASSUME NEW j \in RequestsOf(Append(kept, d), d)
      PROVE  j \in RequestsOf(kept, d) \/ j = Len(kept) + 1
  BY <1>2, <1>4 DEF RequestsOf
<1>5. Ahead(Append(kept, d), a, d)
  <2> SUFFICES ASSUME NEW i \in RequestsOf(Append(kept, d), a),
                      NEW j \in RequestsOf(Append(kept, d), d)
               PROVE  i < j
    BY DEF Ahead
  <2>1. i < Len(kept) + 1
    BY <1>2, <1>3
  <2> QED
    BY <1>1, <1>3, <1>4, <2>1 DEF Ahead
<1>6. Len(kept) + 1 \in RequestsOf(Append(kept, d), d)
  BY <1>2 DEF RequestsOf
<1> QED
  BY <1>1, <1>5, <1>6

\* A refusal stays among the replies until it is its turn.
LEMMA RefusalStays ==
  ASSUME NEW S, NEW replies \in Seq(S), FailedIn(replies) # {}
  PROVE  /\ \A x \in S : FailedIn(Append(replies, x)) # {}
         /\ replies # <<>> /\ ~(Head(replies).arm = FALSE /\ Head(replies).success = FALSE)
              => FailedIn(Tail(replies)) # {}
<1>1. PICK i \in 1..Len(replies) : replies[i].arm = FALSE /\ replies[i].success = FALSE
  BY DEF FailedIn
<1>2. ASSUME NEW x \in S PROVE FailedIn(Append(replies, x)) # {}
  <2>1. i \in 1..Len(Append(replies, x)) /\ Append(replies, x)[i] = replies[i]
    OBVIOUS
  <2> QED
    BY <1>1, <2>1 DEF FailedIn
<1>3. ASSUME replies # <<>>, ~(Head(replies).arm = FALSE /\ Head(replies).success = FALSE)
      PROVE  FailedIn(Tail(replies)) # {}
  <2>1. Head(replies) = replies[1] /\ Len(Tail(replies)) = Len(replies) - 1
    BY <1>3
  <2>2. i # 1
    BY <1>1, <1>3, <2>1
  <2>3. i - 1 \in 1..Len(Tail(replies)) /\ Tail(replies)[i - 1] = replies[i]
    BY <1>3, <2>1, <2>2
  <2>4. i - 1 \in FailedIn(Tail(replies))
    BY <1>1, <2>3 DEF FailedIn
  <2> QED
    BY <2>4
<1> QED
  BY <1>2, <1>3

\* Which step does what to the vehicle's arming and to the count of crashes.
LEMMA FcuSteps ==
  ASSUME TypeOK, [Next]_vars
  PROVE  \/ UNCHANGED <<fcu.armed, crashes>>
         \/ \E accepted \in BOOLEAN : FcuArm(accepted)
         \/ FcuOwnChange \/ MavrosCrash
<1>1. ASSUME NEW accepted \in BOOLEAN, FcuSetMode(accepted)
      PROVE  UNCHANGED <<fcu.armed, crashes>>
  BY <1>1 DEF FcuSetMode, TypeOK, VehicleState
<1>2. CASE UNCHANGED worldVars
  BY <1>2 DEF worldVars
<1>3. CASE UNCHANGED vars
  BY <1>3 DEF vars, worldVars
<1>4. CASE MavrosRestart
  BY <1>4 DEF MavrosRestart
<1> QED
  BY <1>1, <1>2, <1>3, <1>4
     DEF Next, timer_callback, launch_callback, task_callback, vehicle_state_callback,
         local_position_callback, set_mode_callback, arm_callback, disarm_callback, Fly

\* But for the autopilot's answers, nobody arms the vehicle after INIT.
LEMMA ArmedOnlyByCalls ==
  ASSUME TypeOK, [Next]_vars, ~\E accepted \in BOOLEAN : FcuArm(accepted)
  PROVE  /\ crashes' = 0 => crashes = 0 /\ ~MavrosCrash
         /\ fcu'.armed => fcu.armed \/ flight_state_ = "INIT"
<1>1. CASE UNCHANGED <<fcu.armed, crashes>>
  <2>1. ~MavrosCrash
    BY <1>1 DEF MavrosCrash, TypeOK
  <2> QED
    BY <1>1, <2>1
<1>2. CASE FcuOwnChange
  BY <1>2 DEF FcuOwnChange, MavrosCrash, TypeOK
<1>3. CASE MavrosCrash
  BY <1>3 DEF MavrosCrash, TypeOK
<1> QED
  BY <1>1, <1>2, <1>3, FcuSteps

\* The oldest arming call is answered.
LEMMA AnswerBacked ==
  ASSUME DisarmInv, NEW accepted \in BOOLEAN, FcuArm(accepted)
  PROVE  FlagBacked' /\ ArmsFirst'
<1> DEFINE reply == [arm |-> Head(armRequests), success |-> accepted]
<1>1. /\ armRequests \in Seq(BOOLEAN) /\ armRequests # <<>> /\ Head(armRequests) \in BOOLEAN
      /\ armReplies \in Seq([arm : BOOLEAN, success : BOOLEAN])
      /\ reply \in [arm : BOOLEAN, success : BOOLEAN]
  BY HeadTailType DEF FcuArm, DisarmInv, Inductive, TypeOK
<1>2. /\ armRequests' = Tail(armRequests) /\ armReplies' = Append(armReplies, reply)
      /\ crashes' = crashes /\ apply_disarm_flag_' = apply_disarm_flag_
  BY DEF FcuArm
<1>3. ArmsFirst'
  BY <1>1, <1>2, TailOrder DEF DisarmInv, ArmsFirst
<1>4. CASE Head(armRequests) = FALSE /\ accepted
  <2>1. ArmCalls' = {}
    BY <1>1, <1>2, <1>4, TailOrder DEF DisarmInv, ArmsFirst, ArmCalls
  <2>2. ~fcu'.armed
    BY <1>4 DEF FcuArm, DisarmInv, Inductive, TypeOK, VehicleState
  <2> QED
    BY <1>3, <2>1, <2>2 DEF FlagBacked
<1>5. CASE Head(armRequests) = FALSE /\ ~accepted
  <2>1. /\ Len(Append(armReplies, reply)) \in 1..Len(Append(armReplies, reply))
        /\ Append(armReplies, reply)[Len(Append(armReplies, reply))] = reply
    BY <1>1
  <2>2. reply.arm = FALSE /\ reply.success = FALSE
    BY <1>5
  <2>3. Len(Append(armReplies, reply)) \in FailedIn(Append(armReplies, reply))
    BY <2>1, <2>2 DEF FailedIn
  <2> QED
    BY <1>2, <1>3, <2>3 DEF FlagBacked
<1>6. CASE Head(armRequests) = TRUE
  <2>1. ArmCalls # {} /\ (DisarmCalls # {} => DisarmCalls' # {})
    <3>1. /\ RequestsOf(armRequests, TRUE) # {}
          /\ RequestsOf(armRequests, FALSE) # {} => RequestsOf(Tail(armRequests), FALSE) # {}
      <4> HIDE DEF reply
      <4>1. ASSUME NEW a, NEW d, a # d, Ahead(armRequests, a, d), Head(armRequests) = a
            PROVE  /\ RequestsOf(armRequests, a) # {}
                   /\ RequestsOf(armRequests, d) # {} => RequestsOf(Tail(armRequests), d) # {}
        <5> DEFINE S == BOOLEAN
        <5>1. armRequests \in Seq(S) /\ armRequests # <<>>
          BY <1>1
        <5> HIDE DEF S
        <5> QED
          BY <4>1, <5>1, TailOrder, Zenon
      <4>2. TRUE # FALSE /\ Ahead(armRequests, TRUE, FALSE) /\ Head(armRequests) = TRUE
        BY <1>6 DEF DisarmInv, ArmsFirst
      <4> QED
        BY <4>1, <4>2, Zenon
    <3> QED
      BY <1>2, <3>1 DEF ArmCalls, DisarmCalls
  <2>2. FailedIn(armReplies) # {} => FailedIn(armReplies)' # {}
    <3> HIDE DEF reply
    <3> QED
      BY <1>1, <1>2, RefusalStays
  <2> QED
    BY <1>2, <1>3, <2>1, <2>2 DEF FlagBacked, DisarmInv
<1> QED
  BY <1>1, <1>4, <1>5, <1>6

\* A reply that is not the refusal of a disarm leaves the refusals where they are.
LEMMA ReplyBacked ==
  ASSUME DisarmInv, [Next]_vars, arm_callback \/ disarm_callback,
         ~\E accepted \in BOOLEAN : FcuArm(accepted)
  PROVE  FlagBacked'
<1>1. /\ armReplies # <<>> /\ armReplies \in Seq([arm : BOOLEAN, success : BOOLEAN])
      /\ Head(armReplies) \in [arm : BOOLEAN, success : BOOLEAN]
  BY HeadTailType DEF arm_callback, disarm_callback, DisarmInv, Inductive, TypeOK
<1>2. armReplies' = Tail(armReplies) /\ armRequests' = armRequests
  BY DEF arm_callback, disarm_callback
<1> SUFFICES ASSUME apply_disarm_flag_', crashes' = 0
             PROVE  \/ DisarmCalls' # {} \/ FailedIn(armReplies)' # {}
                    \/ ~fcu'.armed /\ ArmCalls' = {}
  BY DEF FlagBacked
<1>3. /\ apply_disarm_flag_
      /\ ~(Head(armReplies).arm = FALSE /\ Head(armReplies).success = FALSE)
  BY <1>1 DEF arm_callback, disarm_callback, DisarmInv, Inductive, TypeOK
<1>4. FailedIn(armReplies) # {} => FailedIn(Tail(armReplies)) # {}
  BY <1>1, <1>3, RefusalStays
<1>5. flight_state_ # "INIT"
  BY <1>3 DEF DisarmInv, Inductive, DisarmOnlyInLand
<1>6. crashes = 0 /\ (fcu'.armed => fcu.armed)
  BY <1>5, ArmedOnlyByCalls DEF DisarmInv, Inductive
<1> QED
  BY <1>2, <1>3, <1>4, <1>6 DEF DisarmInv, FlagBacked, DisarmCalls, ArmCalls

LEMMA DisarmInvStep == DisarmInv /\ [Next]_vars => DisarmInv'
<1> SUFFICES ASSUME DisarmInv, [Next]_vars, Inductive'
             PROVE  FlagBacked' /\ ArmsFirst'
  BY InductiveStep DEF DisarmInv
<1>0. TypeOK /\ DisarmOnlyInLand /\ ArmsFirst /\ FlagBacked
  BY DEF DisarmInv, Inductive
<1>1. CASE \E accepted \in BOOLEAN : FcuArm(accepted)
  BY <1>1, AnswerBacked
<1>2. CASE ~\E accepted \in BOOLEAN : FcuArm(accepted)
  <2>1. /\ crashes' = 0 => crashes = 0 /\ ~MavrosCrash
        /\ fcu'.armed => fcu.armed \/ flight_state_ = "INIT"
    BY <1>0, <1>2, ArmedOnlyByCalls
  <2>2. apply_disarm_flag_ => flight_state_ # "INIT"
    BY <1>0 DEF DisarmOnlyInLand
  <2>3. CASE UNCHANGED armVars
    BY <1>0, <2>1, <2>2, <2>3 DEF armVars, FlagBacked, ArmsFirst, DisarmCalls, ArmCalls
  <2>4. CASE arm /\ flight_state_ = "INIT"
    <3>1. ~apply_disarm_flag_ /\ DisarmCalls = {}
      BY <1>0, <2>4 DEF DisarmOnlyInLand
    <3>2. RequestsOf(Enqueue(armRequests, TRUE), FALSE) = {}
      <4>1. AtMostOne(RequestsOf(armRequests, FALSE))
        BY <3>1 DEF AtMostOne, DisarmCalls
      <4> QED
        BY <1>0, <3>1, <4>1, EnqueueRequests DEF TypeOK, DisarmCalls
    <3>3. RequestsOf(armRequests', FALSE) = {}
      BY <2>4, <3>1, <3>2 DEF arm, DisarmCalls
    <3>4. apply_disarm_flag_' = apply_disarm_flag_
      BY <2>4 DEF arm
    <3> QED
      BY <3>1, <3>3, <3>4 DEF FlagBacked, ArmsFirst, Ahead
  <2>5. CASE land /\ flight_state_ = "LAND"
    <3>1. /\ Ahead(Enqueue(armRequests, FALSE), TRUE, FALSE)
          /\ RequestsOf(Enqueue(armRequests, FALSE), FALSE) # {}
      BY <1>0, EnqueueBehind DEF TypeOK, ArmsFirst
    <3>2. CASE armRequests' = Enqueue(armRequests, FALSE)
      BY <3>1, <3>2 DEF FlagBacked, DisarmCalls, ArmsFirst
    <3>3. CASE armRequests' = armRequests /\ apply_disarm_flag_' = FALSE
      BY <1>0, <3>3 DEF FlagBacked, ArmsFirst
    <3>4. CASE UNCHANGED <<apply_disarm_flag_, armRequests>>
      <4>1. armReplies' = armReplies
        BY <2>5 DEF land
      <4> QED
        BY <1>0, <2>1, <2>2, <3>4, <4>1 DEF FlagBacked, ArmsFirst, DisarmCalls, ArmCalls
    <3> QED
      BY <2>5, <3>2, <3>3, <3>4 DEF land
  <2>6. CASE arm_callback \/ disarm_callback
    <3>1. armRequests' = armRequests
      BY <2>6 DEF arm_callback, disarm_callback
    <3> QED
      BY <1>0, <1>2, <2>6, <3>1, ReplyBacked DEF ArmsFirst
  <2>7. CASE MavrosCrash
    <3>1. Ahead(<<>>, TRUE, FALSE)
      BY DEF Ahead, RequestsOf
    <3> QED
      BY <2>1, <2>7, <3>1 DEF MavrosCrash, FlagBacked, ArmsFirst
  <2> QED
    BY <1>0, <1>2, <2>3, <2>4, <2>5, <2>6, <2>7, ArmSteps
<1> QED
  BY <1>1, <1>2

LEMMA DisarmInvInit == Init => DisarmInv
<1> SUFFICES ASSUME Init PROVE DisarmInv
  OBVIOUS
<1>1. Inductive
  BY InductiveInit
<1>2. ArmsFirst /\ FlagBacked
  BY DEF Init, ArmsFirst, Ahead, RequestsOf, FlagBacked
<1> QED
  BY <1>1, <1>2 DEF DisarmInv

\* A disarm flag without an outstanding call means that the vehicle did disarm, unless
\* MAVROS lost the call (base_controller.cpp:203), for any pilot and any queue.
THEOREM DisarmFlagIsSound == Spec => []DisarmFlagSound
<1>1. DisarmInv => DisarmFlagSound
  <2> SUFFICES ASSUME DisarmInv, DisarmAnswers = {} PROVE FailedIn(armReplies) = {}
    BY DEF DisarmInv, FlagBacked, DisarmFlagSound
  <2> QED
    BY DEF FailedIn, DisarmAnswers, AnswersTo
<1> QED
  BY <1>1, DisarmInvInit, DisarmInvStep, PTL DEF Spec

-----------------------------------------------------------------------------
(* Without a pilot no disarm is asked twice *)

\* What the node believes of the arming, once it has left INIT.
Believed ==
  /\ current_state_.armed => fcu.armed \/ flight_state_ = "LAND"
  /\ flight_state_ # "INIT" /\ ~current_state_.armed => ~fcu.armed
  /\ flight_state_ = "LAND" /\ ~fcu.armed /\ current_state_.armed => apply_disarm_flag_

\* A vehicle that has disarmed after the flight stays so, and an armed one is not asked
\* while the flag is clear.
Settled ==
  /\ flight_state_ # "INIT" /\ ~fcu.armed =>
       /\ flight_state_ = "LAND" /\ ArmCalls = {} /\ DisarmCalls = {}
       /\ FailedIn(armReplies) = {}
  /\ fcu.armed /\ ~apply_disarm_flag_ => DisarmCalls = {} /\ DisarmAnswers = {}

OnceInv == DisarmInv /\ SingleDisarmCall /\ Believed /\ Settled

\* Where a refusal among the replies comes from.
LEMMA RefusalOrigins ==
  ASSUME NEW S, NEW replies \in Seq(S)
  PROVE  /\ \A x \in S : FailedIn(Append(replies, x)) # {} =>
              FailedIn(replies) # {} \/ (x.arm = FALSE /\ x.success = FALSE)
         /\ replies # <<>> /\ FailedIn(Tail(replies)) # {} => FailedIn(replies) # {}
<1>1. ASSUME NEW x \in S, NEW i \in FailedIn(Append(replies, x))
      PROVE  FailedIn(replies) # {} \/ (x.arm = FALSE /\ x.success = FALSE)
  <2>1. i \in 1..Len(replies) \/ i = Len(replies) + 1
    <3>1. Len(Append(replies, x)) = Len(replies) + 1 /\ Len(replies) \in Nat
      OBVIOUS
    <3> QED
      BY <1>1, <3>1 DEF FailedIn
  <2>2. CASE i = Len(replies) + 1
    <3>1. Append(replies, x)[i] = x
      BY <2>2
    <3>2. /\ Append(replies, x)[i].arm = FALSE /\ Append(replies, x)[i].success = FALSE
      BY <1>1 DEF FailedIn
    <3> QED
      BY <3>1, <3>2
  <2>3. CASE i \in 1..Len(replies)
    <3>1. Append(replies, x)[i] = replies[i]
      BY <2>3
    <3> QED
      BY <1>1, <2>3, <3>1 DEF FailedIn
  <2> QED
    BY <2>1, <2>2, <2>3
<1>2. ASSUME replies # <<>>, NEW i \in FailedIn(Tail(replies)) PROVE FailedIn(replies) # {}
  <2>1. Len(Tail(replies)) = Len(replies) - 1
    BY <1>2
  <2>2. i \in 1..Len(Tail(replies))
    BY <1>2 DEF FailedIn
  <2>3. i + 1 \in 1..Len(replies) /\ Tail(replies)[i] = replies[i + 1]
    BY <1>2, <2>1, <2>2
  <2>4. i + 1 \in FailedIn(replies)
    BY <1>2, <2>3 DEF FailedIn
  <2> QED
    BY <2>4
<1> QED
  BY <1>1, <1>2

\* How the flight state leaves INIT, and where the vehicle state comes from.
LEMMA FlightSteps ==
  ASSUME TypeOK, WarmedUp, [Next]_vars
  PROVE  /\ flight_state_ # "INIT" => flight_state_' # "INIT"
         /\ flight_state_ = "LAND" => flight_state_' = "LAND"
         /\ flight_state_ = "INIT" /\ flight_state_' # "INIT" =>
              /\ flight_state_' = "TAKEOFF" /\ current_state_.armed
              /\ UNCHANGED <<current_state_, armVars, fcu>>
         /\ \/ UNCHANGED current_state_
            \/ current_state_' = fcu /\ UNCHANGED <<armVars, fcu, flight_state_>>
<1>1. CASE timer_callback
  <2>0. UNCHANGED <<current_state_, fcu>>
    BY <1>1 DEF timer_callback, inputVars, worldVars
  <2>1. CASE TickWarmup
    BY <2>0, <2>1 DEF TickWarmup, WarmedUp, missionVars
  <2>2. CASE TickEmergency
    <3>1. flight_state_ = "INIT" => flight_state_' = "INIT"
      BY <2>2 DEF TickEmergency, Execute
    <3>2. flight_state_ # "INIT" => flight_state_' # "INIT"
      BY <2>2 DEF TickEmergency, Execute, tilt_land
    <3>3. flight_state_ = "LAND" => flight_state_' = "LAND"
      BY <2>2 DEF TickEmergency, Execute
    <3> QED
      BY <2>0, <3>1, <3>2, <3>3
  <2>3. CASE TickInit
    BY <2>0, <2>3 DEF TickInit, Checking, Execute, ReadyToFly
  <2>4. CASE TickTakeoff \/ TickWaypoint \/ TickTiltLand
    <3>1. flight_state_ \notin {"INIT", "LAND"} /\ flight_state_' # "INIT"
      BY <2>4 DEF TickTakeoff, TickWaypoint, TickTiltLand, Checking, Execute, tilt_land
    <3> QED
      BY <2>0, <3>1
  <2>5. CASE TickLand
    BY <2>0, <2>5 DEF TickLand, Checking, Execute
  <2> QED
    BY <1>1, <2>1, <2>2, <2>3, <2>4, <2>5 DEF timer_callback
<1>2. CASE vehicle_state_callback
  BY <1>2 DEF vehicle_state_callback, nodeVars, missionVars, worldVars
<1>3. CASE UNCHANGED <<flight_state_, current_state_>>
  BY <1>3
<1>4. CASE UNCHANGED vars
  BY <1>3, <1>4 DEF vars, nodeVars, missionVars, inputVars
<1> QED
  BY <1>1, <1>2, <1>3, <1>4
     DEF Next, launch_callback, task_callback, local_position_callback, set_mode_callback,
         arm_callback, disarm_callback, FcuSetMode, FcuArm, FcuOwnChange, MavrosCrash,
         MavrosRestart, Fly, nodeVars, missionVars, inputVars

\* Without a pilot only an answered call changes the arming.
LEMMA ArmingSteps ==
  ASSUME ~Pilot, TypeOK, [Next]_vars
  PROVE  UNCHANGED fcu.armed \/ \E accepted \in BOOLEAN : FcuArm(accepted)
BY FcuSteps DEF FcuOwnChange, MavrosCrash

\* The autopilot's answer.
LEMMA AnswerOnce ==
  ASSUME OnceInv, NEW accepted \in BOOLEAN, FcuArm(accepted)
  PROVE  SingleDisarmCall' /\ Believed' /\ Settled'
<1> DEFINE request == Head(armRequests)
           reply == [arm |-> request, success |-> accepted]
<1>1. /\ armRequests \in Seq(BOOLEAN) /\ armRequests # <<>> /\ request \in BOOLEAN
      /\ armReplies \in Seq([arm : BOOLEAN, success : BOOLEAN])
      /\ reply \in [arm : BOOLEAN, success : BOOLEAN]
      /\ reply.arm = request /\ reply.success = accepted
  BY HeadTailType DEF FcuArm, OnceInv, DisarmInv, Inductive, TypeOK
<1>2. /\ armRequests' = Tail(armRequests) /\ armReplies' = Append(armReplies, reply)
      /\ UNCHANGED <<apply_disarm_flag_, flight_state_, current_state_>>
      /\ fcu'.armed = IF accepted THEN request ELSE fcu.armed
  BY DEF FcuArm, nodeVars, missionVars, inputVars, OnceInv, DisarmInv, Inductive, TypeOK, VehicleState
<1>3. AtMostOne(ArmCalls) /\ AtMostOne(DisarmCalls) /\ AtMostOne(DisarmAnswers)
  BY DEF OnceInv, DisarmInv, Inductive, SingleArmCall, SingleDisarmCall
<1>4. /\ AtMostOne(DisarmCalls') /\ (DisarmCalls' # {} => DisarmCalls # {})
      /\ ArmCalls' # {} => ArmCalls # {}
      /\ request = FALSE => DisarmCalls' = {} /\ DisarmCalls # {}
      /\ request = TRUE => ArmCalls # {}
  BY <1>1, <1>2, <1>3, TailRequests DEF DisarmCalls, ArmCalls
<1>5. ArmsFirst /\ (request = FALSE => ArmCalls' = {})
  <2>1. ArmsFirst
    BY DEF OnceInv, DisarmInv
  <2>2. CASE Head(armRequests) = FALSE
    <3>1. RequestsOf(Tail(armRequests), TRUE) = {}
      <4>1. /\ armRequests \in Seq(BOOLEAN) /\ armRequests # <<>>
            /\ Ahead(armRequests, TRUE, FALSE) /\ Head(armRequests) = FALSE /\ TRUE # FALSE
        BY <1>1, <2>1, <2>2 DEF ArmsFirst
      <4> QED
        BY <4>1, TailOrder, Zenon
    <3> QED
      <4>1. armRequests' = Tail(armRequests)
        BY DEF FcuArm
      <4> QED
        BY <2>1, <3>1, <4>1 DEF ArmCalls
  <2>3. CASE Head(armRequests) = TRUE
    BY <2>1, <2>3
  <2> QED
    BY <1>1, <2>1, <2>2, <2>3
<1> HIDE DEF reply, request
<1>6. /\ DisarmAnswers = {} => AtMostOne(DisarmAnswers')
      /\ request # FALSE => DisarmAnswers' = DisarmAnswers
  <2>1. armReplies' = Append(armReplies, reply) /\ AtMostOne(AnswersTo(armReplies, FALSE))
    BY <1>2, <1>3 DEF DisarmAnswers
  <2>2. /\ AnswersTo(armReplies, FALSE) = {} =>
             AtMostOne(AnswersTo(Append(armReplies, reply), FALSE))
        /\ reply.arm # FALSE =>
             AnswersTo(Append(armReplies, reply), FALSE) = AnswersTo(armReplies, FALSE)
    BY <1>1, <2>1, AppendAnswers
  <2> QED
    BY <1>1, <2>1, <2>2 DEF DisarmAnswers
<1>7. FailedIn(armReplies)' # {} => FailedIn(armReplies) # {} \/ (request = FALSE /\ ~accepted)
  BY <1>1, <1>2, RefusalOrigins
<1>8. CASE request = FALSE
  <2>1. DisarmCalls # {} /\ DisarmCalls' = {} /\ ArmCalls' = {} /\ DisarmAnswers = {}
    BY <1>4, <1>5, <1>8 DEF OnceInv, SingleDisarmCall
  <2>2. flight_state_ = "LAND" /\ fcu.armed /\ apply_disarm_flag_
    BY <2>1 DEF OnceInv, DisarmInv, Inductive, DisarmOnlyInLand, Settled
  <2>3. FailedIn(armReplies) = {}
    BY <2>1 DEF FailedIn, DisarmAnswers, AnswersTo
  <2>4. SingleDisarmCall'
    BY <1>4, <1>6, <2>1 DEF SingleDisarmCall
  <2>5. Believed'
    BY <1>2, <2>2, <1>8 DEF Believed, OnceInv
  <2>6. Settled'
    BY <1>2, <1>7, <1>8, <2>1, <2>2, <2>3 DEF Settled
  <2> QED
    BY <2>4, <2>5, <2>6
<1>9. CASE request = TRUE
  <2>1. ArmCalls # {} /\ DisarmAnswers' = DisarmAnswers
    BY <1>4, <1>6, <1>9
  <2>2. flight_state_ # "INIT" => fcu.armed /\ current_state_.armed
    BY <2>1 DEF OnceInv, Settled, Believed
  <2>3. flight_state_ = "INIT" => DisarmCalls = {} /\ DisarmAnswers = {}
    BY DEF OnceInv, DisarmInv, Inductive, DisarmOnlyInLand
  <2>4. SingleDisarmCall'
    BY <1>4, <2>1 DEF SingleDisarmCall, OnceInv
  <2>5. fcu'.armed = (accepted \/ fcu.armed)
    BY <1>2, <1>9 DEF OnceInv, DisarmInv, Inductive, TypeOK, VehicleState
  <2>6. Believed'
    BY <1>2, <2>2, <2>5 DEF Believed, OnceInv
  <2>7. Settled'
    BY <1>2, <1>4, <1>7, <1>9, <2>1, <2>2, <2>3, <2>5 DEF Settled, OnceInv
  <2> QED
    BY <2>4, <2>6, <2>7
<1> QED
  BY <1>1, <1>8, <1>9

\* The replies the node takes.
LEMMA ReplyOnce ==
  ASSUME OnceInv, arm_callback \/ disarm_callback
  PROVE  SingleDisarmCall' /\ Believed' /\ Settled'
<1>1. /\ armReplies # <<>> /\ armReplies \in Seq([arm : BOOLEAN, success : BOOLEAN])
      /\ Head(armReplies) \in [arm : BOOLEAN, success : BOOLEAN]
  BY HeadTailType DEF arm_callback, disarm_callback, OnceInv, DisarmInv, Inductive, TypeOK
<1>2. /\ armReplies' = Tail(armReplies) /\ armRequests' = armRequests
      /\ UNCHANGED <<flight_state_, current_state_, fcu>>
  BY DEF arm_callback, disarm_callback, nodeVars, missionVars, inputVars, worldVars
<1>3. AtMostOne(DisarmAnswers)
  BY DEF OnceInv, SingleDisarmCall
<1>4. /\ AtMostOne(DisarmAnswers')
      /\ DisarmAnswers' # {} => DisarmAnswers # {}
      /\ Head(armReplies).arm = FALSE => DisarmAnswers' = {}
  BY <1>1, <1>2, <1>3, TailAnswers DEF DisarmAnswers
<1>5. FailedIn(armReplies)' # {} => FailedIn(armReplies) # {}
  BY <1>1, <1>2, RefusalOrigins
<1>6. SingleDisarmCall' /\ ArmCalls' = ArmCalls /\ DisarmCalls' = DisarmCalls
  BY <1>2, <1>4 DEF OnceInv, SingleDisarmCall, ArmCalls, DisarmCalls
<1>7. CASE apply_disarm_flag_' = apply_disarm_flag_
  BY <1>2, <1>4, <1>5, <1>6, <1>7 DEF OnceInv, Believed, Settled
<1>8. CASE apply_disarm_flag_' # apply_disarm_flag_
  <2>1. Head(armReplies).arm = FALSE /\ Head(armReplies).success = FALSE
    BY <1>1, <1>8 DEF arm_callback, disarm_callback, OnceInv, DisarmInv, Inductive, TypeOK
  <2>2. 1 \in DisarmAnswers /\ 1 \in FailedIn(armReplies)
    BY <1>1, <2>1 DEF DisarmAnswers, AnswersTo, FailedIn
  <2>3. flight_state_ = "LAND" /\ fcu.armed /\ DisarmCalls = {} /\ DisarmAnswers' = {}
    BY <1>4, <2>1, <2>2
       DEF OnceInv, DisarmInv, Inductive, DisarmOnlyInLand, Settled, SingleDisarmCall
  <2> QED
    BY <1>2, <1>5, <1>6, <2>3 DEF OnceInv, Believed, Settled
<1> QED
  BY <1>6, <1>7, <1>8

\* Every step keeps it.
LEMMA OnceStep ==
  ASSUME ~Pilot, OnceInv, [Next]_vars
  PROVE  SingleDisarmCall' /\ Believed' /\ Settled'
<1>0. TypeOK /\ WarmedUp /\ DisarmOnlyInLand
  BY DEF OnceInv, DisarmInv, Inductive
<1>1. ASSUME NEW accepted \in BOOLEAN, FcuArm(accepted)
      PROVE  SingleDisarmCall' /\ Believed' /\ Settled'
  BY <1>1, AnswerOnce
<1>2. CASE arm_callback \/ disarm_callback
  BY <1>2, ReplyOnce
<1>3. CASE UNCHANGED armVars /\ UNCHANGED fcu.armed
  <2>1. /\ SingleDisarmCall' /\ apply_disarm_flag_' = apply_disarm_flag_
        /\ ArmCalls' = ArmCalls /\ DisarmCalls' = DisarmCalls
        /\ DisarmAnswers' = DisarmAnswers /\ FailedIn(armReplies)' = FailedIn(armReplies)
    BY <1>3 DEF armVars, OnceInv, SingleDisarmCall, ArmCalls, DisarmCalls, DisarmAnswers
  <2>2. CASE flight_state_ = "INIT" /\ flight_state_' # "INIT"
    BY <1>0, <1>3, <2>1, <2>2, FlightSteps DEF OnceInv, Believed, Settled
  <2>3. CASE ~(flight_state_ = "INIT" /\ flight_state_' # "INIT")
    BY <1>0, <1>3, <2>1, <2>3, FlightSteps DEF OnceInv, Believed, Settled
  <2> QED
    BY <2>2, <2>3
<1>4. CASE ~UNCHANGED armVars /\ UNCHANGED fcu.armed
  <2>1. /\ UNCHANGED current_state_ /\ (flight_state_ = "LAND" => flight_state_' = "LAND")
        /\ flight_state_ = "INIT" => flight_state_' = "INIT"
        /\ flight_state_ # "INIT" => flight_state_' # "INIT"
    BY <1>0, <1>4, FlightSteps
  <2>2. CASE arm /\ flight_state_ = "INIT"
    <3>1. DisarmCalls = {} /\ DisarmAnswers = {} /\ ~apply_disarm_flag_
      BY <1>0, <2>2 DEF DisarmOnlyInLand
    <3>2. /\ AtMostOne(DisarmCalls)
          /\ UNCHANGED <<armReplies, apply_disarm_flag_>>
          /\ armRequests' = armRequests \/ armRequests' = Enqueue(armRequests, TRUE)
      BY <2>2, <3>1 DEF arm, AtMostOne
    <3>3. DisarmCalls' = {} /\ DisarmAnswers' = {}
      <4>1. AtMostOne(RequestsOf(armRequests, FALSE))
        BY <3>2 DEF DisarmCalls
      <4>2. RequestsOf(Enqueue(armRequests, TRUE), FALSE) = {}
        BY <1>0, <3>1, <4>1, EnqueueRequests DEF TypeOK, DisarmCalls
      <4> QED
        BY <3>1, <3>2, <4>2 DEF DisarmCalls, DisarmAnswers
    <3>4. SingleDisarmCall'
      BY <3>3 DEF SingleDisarmCall, AtMostOne
    <3> QED
      BY <1>4, <2>1, <2>2, <3>2, <3>3, <3>4 DEF OnceInv, Believed, Settled
  <2>3. CASE land /\ flight_state_ = "LAND"
    <3>0. UNCHANGED armReplies /\ flight_state_' = "LAND"
      BY <2>1, <2>3 DEF land
    <3>1. CASE ~current_state_.armed
      <4>1. ~apply_disarm_flag_' /\ UNCHANGED armRequests
        BY <2>3, <3>1 DEF land
      <4>2. /\ SingleDisarmCall' /\ ArmCalls' = ArmCalls /\ DisarmCalls' = DisarmCalls
            /\ FailedIn(armReplies)' = FailedIn(armReplies)
        BY <3>0, <4>1 DEF OnceInv, SingleDisarmCall, ArmCalls, DisarmCalls, DisarmAnswers
      <4> QED
        BY <1>4, <2>1, <2>3, <3>0, <3>1, <4>1, <4>2 DEF OnceInv, Believed, Settled
    <3>2. CASE current_state_.armed /\ MayDisarm
      <4>1. /\ armRequests' = Enqueue(armRequests, FALSE) /\ apply_disarm_flag_'
            /\ ~apply_disarm_flag_
        BY <2>3, <3>2 DEF land, MayDisarm
      <4>2. fcu.armed /\ DisarmCalls = {} /\ DisarmAnswers = {}
        BY <2>3, <3>2, <4>1 DEF OnceInv, Believed, Settled
      <4>3. AtMostOne(DisarmCalls') /\ DisarmAnswers' = {}
        BY <1>0, <3>0, <4>1, <4>2, EnqueueRequests
           DEF TypeOK, DisarmCalls, DisarmAnswers, OnceInv, SingleDisarmCall
      <4> QED
        BY <1>4, <2>1, <3>0, <4>1, <4>2, <4>3
           DEF OnceInv, Believed, Settled, SingleDisarmCall, AtMostOne
    <3>3. CASE current_state_.armed /\ ~MayDisarm
      BY <1>4, <2>3, <3>3 DEF land, armVars
    <3> QED
      BY <3>1, <3>2, <3>3
  <2>4. CASE MavrosCrash
    <3>1. /\ ArmCalls' = {} /\ DisarmCalls' = {} /\ DisarmAnswers' = {}
          /\ FailedIn(armReplies)' = {} /\ UNCHANGED <<apply_disarm_flag_, flight_state_>>
      BY <2>4 DEF MavrosCrash, ArmCalls, DisarmCalls, DisarmAnswers, RequestsOf, AnswersTo,
                  FailedIn, nodeVars, missionVars
    <3> QED
      BY <1>4, <2>1, <3>1 DEF OnceInv, Believed, Settled, SingleDisarmCall, AtMostOne
  <2> QED
    BY <1>0, <1>1, <1>2, <1>4, <2>2, <2>3, <2>4, ArmSteps
<1> QED
  BY <1>0, <1>1, <1>3, <1>4, ArmingSteps

\* Without a pilot, no second disarm call while one is outstanding (base_controller.cpp:187),
\* for any queue, any delays and any number of crashes of MAVROS.
THEOREM DisarmCallsSingle == ASSUME ~Pilot PROVE Spec => []SingleDisarmCall
<1>1. Init => OnceInv
  <2> SUFFICES ASSUME Init PROVE OnceInv
    OBVIOUS
  <2>1. DisarmCalls = {} /\ DisarmAnswers = {}
    BY DEF Init, DisarmCalls, DisarmAnswers, RequestsOf, AnswersTo
  <2>2. Believed /\ Settled
    BY <2>1 DEF Init, Believed, Settled
  <2> QED
    BY <2>1, <2>2, DisarmInvInit DEF OnceInv, SingleDisarmCall, AtMostOne
<1>2. OnceInv /\ [Next]_vars => OnceInv'
  BY OnceStep, DisarmInvStep DEF OnceInv
<1>3. OnceInv => SingleDisarmCall
  BY DEF OnceInv
<1> QED
  BY <1>1, <1>2, <1>3, PTL DEF Spec

-----------------------------------------------------------------------------
(* The refinement *)

\* The step of one executed flight state is a step of the mission, or none.
LEMMA ExecuteRefines ==
  ASSUME Inductive, NEW s \in FlightState, Reachable(s), Execute(s), s # "LAND",
         UNCHANGED (DisarmCalls # {})
  PROVE  [Abstract!Next]_(Abstract!mission)
<1> USE DEF Abstract!mission
<1>0. current_waypoint_index_ \in 0..3 /\ NumWaypoints = 3
  BY DEF Inductive, TypeOK, NumWaypoints
<1>1. CASE s = "INIT"
  BY <1>1 DEF Reachable, Execute
<1>2. CASE s = "TAKEOFF"
  BY <1>2 DEF Reachable, Execute, Abstract!Next, Abstract!TakeOff
<1>3. CASE s = "WAYPOINT"
  <2>1. /\ flight_state_' = "WAYPOINT"
        /\ \/ current_waypoint_index_' = current_waypoint_index_
           \/ /\ current_waypoint_index_ < NumWaypoints
              /\ current_waypoint_index_' = current_waypoint_index_ + 1
    BY <1>3 DEF Execute, execute_waypoint_mission
  <2>2. CASE flight_state_ = "TAKEOFF"
    <3>1. current_waypoint_index_ = 0
      BY <2>2 DEF Inductive, RouteOrder
    <3>2. QED
      BY <2>1, <2>2, <3>1 DEF Abstract!Next, Abstract!StartRoute
  <2>3. CASE flight_state_ = "WAYPOINT"
    BY <2>1, <2>3 DEF Abstract!Next, Abstract!Reach
  <2>4. QED
    BY <1>3, <2>2, <2>3 DEF Reachable
<1>4. CASE s = "TILTLAND"
  <2>1. /\ flight_state_' \in {"TILTLAND", "LAND"}
        /\ current_waypoint_index_' = current_waypoint_index_
    BY <1>4 DEF Execute, tilt_land
  <2>2. CASE flight_state_ = "WAYPOINT" /\ RouteFlown
    <3>1. current_waypoint_index_ = NumWaypoints
      BY <1>0, <2>2 DEF RouteFlown
    <3>2. QED
      BY <2>1, <2>2, <3>1 DEF Abstract!Next, Abstract!StartLanding
  <2>3. CASE flight_state_ = "TILTLAND"
    BY <2>1, <2>3 DEF Abstract!Next, Abstract!TouchDown
  <2>4. QED
    BY <1>4, <2>2, <2>3 DEF Reachable
<1>5. QED
  BY <1>1, <1>2, <1>3, <1>4 DEF FlightState

\* Every flight is a behaviour of the abstract mission.
THEOREM MissionImplemented == Spec => MissionSpec
<1>1. Init => Abstract!Init
  BY DEF Init, Abstract!Init, DisarmCalls, RequestsOf
<1>2. Inductive /\ [Next]_vars => [Abstract!Next]_(Abstract!mission)
  <2> SUFFICES ASSUME Inductive, [Next]_vars PROVE [Abstract!Next]_(Abstract!mission)
    OBVIOUS
  <2> USE DEF Abstract!mission
  <2>1. TypeOK /\ RouteOrder /\ WarmedUp /\ DisarmOnlyInLand
    BY DEF Inductive
  <2>2. CASE flight_state_ = "LAND"
    <3>1. flight_state_' = "LAND" /\ current_waypoint_index_' = NumWaypoints
      BY <2>1, <2>2, LandIsFinal
    <3>2. current_waypoint_index_ = NumWaypoints
      BY <2>1, <2>2 DEF RouteOrder
    <3>3. (DisarmCalls # {})' \in BOOLEAN
      OBVIOUS
    <3>4. QED
      BY <2>2, <3>1, <3>2, <3>3 DEF Abstract!Next, Abstract!Disarm
  <2>3. CASE flight_state_ # "LAND"
    <3>1. DisarmCalls = {} /\ DisarmCalls' = {}
      BY <2>1, <2>3, DisarmStarts DEF DisarmOnlyInLand
    <3>2. UNCHANGED (DisarmCalls # {})
      BY <3>1
    <3>3. CASE UNCHANGED missionVars
      BY <3>2, <3>3 DEF missionVars
    <3>4. ASSUME NEW s \in FlightState, Reachable(s), Execute(s)
          PROVE  [Abstract!Next]_(Abstract!mission)
      <4>1. s # "LAND"
        BY <2>3, <3>4 DEF Reachable
      <4>2. QED
        BY <3>2, <3>4, <4>1, ExecuteRefines
    <3>5. QED
      BY <2>1, <3>3, <3>4, MissionSteps DEF TickWarmup
  <2>4. QED
    BY <2>2, <2>3
<1>3. QED
  BY <1>1, <1>2, InductiveInvariant, PTL DEF Spec, MissionSpec, Abstract!Spec

=============================================================================
