----------------------------- MODULE LidarSetup -----------------------------
(***************************************************************************)
(* How livox_ros_driver2 brings a lidar into the state Sampling, in which  *)
(* its frames are published.  The SDK announces a lidar; the driver sends  *)
(* one request per configured option, remembers it as a bit, and the       *)
(* answer that clears the last bit ends the handshake.  Requests for the   *)
(* attitude, the work mode and the IMU go beside it.                       *)
(*                                                                         *)
(* The SDK is external: it answers every request it was given with a       *)
(* success, a refusal or a timeout, in any order.  The bits are set and    *)
(* cleared under config_mutex_, so that a callback is one step.  A lidar   *)
(* is known by its handle: indices are never given back.                   *)
(***************************************************************************)
EXTENDS Naturals, FiniteSets

CONSTANTS
  Handles,        \* the lidars of the network
  Options,        \* data type, scan pattern, blind spot, dual emit
  MaxSources,     \* kMaxSourceLidar
  MaxAnnounced,   \* bound: how often the SDK announces a lidar
  Extras,         \* the requests nothing waits for: attitude, IMU
  WorkMode

Kinds == Options \cup Extras \cup {WorkMode}

ASSUME SetupAssumption ==
  /\ WorkMode \notin Options \cup Extras /\ Options \cap Extras = {}
  /\ MaxSources \in Nat /\ MaxAnnounced \in Nat

VARIABLES
  user_configs,   \* the lidars of the configuration file
  livox_config,   \* the options that are set for each lidar
  known,          \* the keys of map_index_
  set_bits,       \* the options a lidar still has to confirm
  connect_state,  \* the lidars that are sampling
  requests,       \* what the SDK has been given and not answered
  announced,      \* how often each lidar was announced
  applied,        \* what the lidar has carried out
  refused         \* what the lidar has refused

config == <<user_configs, livox_config>>
vars == <<config, known, set_bits, connect_state, requests, announced, applied, refused>>

-----------------------------------------------------------------------------
(* The callback that announces a lidar *)

Send(h, kinds) ==
  requests' = [requests EXCEPT ![h] = [k \in Kinds |-> IF k \in kinds THEN @[k] + 1 ELSE @[k]]]

\* The attitude of a lidar that is not in the file goes to handle 0; nothing waits
\* for its answer, so it is counted with the others.
Configure(h) ==
  /\ h \in known
  /\ set_bits' = [set_bits EXCEPT ![h] = @ \cup livox_config[h]]
  /\ Send(h, livox_config[h] \cup Extras \cup {WorkMode})
  /\ UNCHANGED known

Register(h) ==
  /\ h \notin known /\ Cardinality(known) < MaxSources
  /\ known' = known \cup {h}
  /\ Send(h, Extras \cup {WorkMode})
  /\ UNCHANGED set_bits

NoIndexLeft(h) ==
  /\ h \notin known /\ Cardinality(known) >= MaxSources
  /\ UNCHANGED <<config, known, set_bits, requests>>

LidarInfoChangeCallback(h) ==
  /\ announced[h] < MaxAnnounced
  /\ announced' = [announced EXCEPT ![h] = @ + 1]
  /\ Configure(h) \/ Register(h) \/ NoIndexLeft(h)
  /\ UNCHANGED <<config, connect_state, applied, refused>>

-----------------------------------------------------------------------------
(* The answers *)

Pending(h, k) == requests[h][k] > 0
Answered(h, k) == requests' = [requests EXCEPT ![h][k] = @ - 1]
CarriedOut(h, k) == applied' = [applied EXCEPT ![h] = @ \cup {k}]
Declined(h, k) == refused' = [refused EXCEPT ![h] = @ \cup {k}]

\* Faulty: any confirmed option starts the sampling.
Faulty_ConfirmOption(h, o) ==
  /\ set_bits' = [set_bits EXCEPT ![h] = @ \ {o}]
  /\ connect_state' = connect_state \cup {h}

\* Faulty: the bits are tested before the bit is cleared.
Faulty_LastBit(h, o) ==
  /\ set_bits' = [set_bits EXCEPT ![h] = @ \ {o}]
  /\ connect_state' = IF set_bits[h] = {} THEN connect_state \cup {h} ELSE connect_state

ConfirmOption(h, o) ==
  /\ set_bits' = [set_bits EXCEPT ![h] = @ \ {o}]
  /\ connect_state' = IF set_bits'[h] = {} THEN connect_state \cup {h} ELSE connect_state

\* SetDataTypeCallback, SetPatternModeCallback, SetBlindSpotCallback and
\* SetDualEmitCallback differ in their option only.
OptionSet(h, o) ==
  /\ Pending(h, o) /\ Answered(h, o) /\ CarriedOut(h, o)
  /\ ConfirmOption(h, o)
  /\ UNCHANGED <<config, known, announced, refused>>

\* The bit stays and nothing is sent again.
OptionRefused(h, o) ==
  /\ Pending(h, o) /\ Answered(h, o) /\ Declined(h, o)
  /\ UNCHANGED <<config, known, set_bits, connect_state, announced, applied>>

\* SetAttitudeCallback and EnableLivoxLidarImuDataCallback, with success or refusal.
ExtraAnswered(h, k) ==
  /\ Pending(h, k) /\ Answered(h, k)
  /\ UNCHANGED <<config, known, set_bits, connect_state, announced, applied, refused>>

WorkModeChanged(h) ==
  /\ Pending(h, WorkMode) /\ Answered(h, WorkMode) /\ CarriedOut(h, WorkMode)
  /\ UNCHANGED <<config, known, set_bits, connect_state, announced, refused>>

\* Faulty: a request that timed out is not sent again.
Faulty_TimedOut(h, o) ==
  /\ Pending(h, o) /\ Answered(h, o)
  /\ \/ CarriedOut(h, o)
     \/ UNCHANGED applied
  /\ UNCHANGED <<config, known, set_bits, connect_state, announced, refused>>

\* A request that timed out is sent again; the lidar may have carried it out.
TimedOut(h, o) ==
  /\ Pending(h, o)
  /\ \/ CarriedOut(h, o)
     \/ UNCHANGED applied
  /\ UNCHANGED <<config, known, set_bits, connect_state, announced, refused, requests>>

\* The extras are sent again after a timeout, the work mode after any failure.
Resent(h, k) == Pending(h, k) /\ UNCHANGED vars

Answer(h) ==
  \/ \E o \in Options : OptionSet(h, o) \/ OptionRefused(h, o)
  \/ \E o \in Options : TimedOut(h, o)
  \/ \E k \in Extras : ExtraAnswered(h, k) \/ Resent(h, k)
  \/ WorkModeChanged(h) \/ Resent(h, WorkMode)

-----------------------------------------------------------------------------
\* The lidars of the file, any of their options set or not; a file that cannot be
\* parsed has none.  A lidar that is not in the file has a configuration of zeros, and
\* zero is a value of each option: only -1 means that the option is not set.
ParseUserConfigs ==
  /\ user_configs \in SUBSET Handles
  /\ livox_config \in [Handles -> SUBSET Options]
  /\ \A h \in Handles \ user_configs : livox_config[h] = Options

\* InitLivoxLidar gives an index to every lidar of the file, while there are any.
Init ==
  /\ ParseUserConfigs
  /\ known \in SUBSET user_configs
  /\ \/ known = user_configs /\ Cardinality(known) <= MaxSources
     \/ known # user_configs /\ Cardinality(known) = MaxSources
  /\ set_bits = [h \in Handles |-> {}]
  /\ connect_state = {}
  /\ requests = [h \in Handles |-> [k \in Kinds |-> 0]]
  /\ announced = [h \in Handles |-> 0]
  /\ applied = [h \in Handles |-> {}]
  /\ refused = [h \in Handles |-> {}]

Next == \E h \in Handles : LidarInfoChangeCallback(h) \/ Answer(h)

Spec == Init /\ [][Next]_vars

\* The SDK announces every lidar of the network; a request that is sent again and
\* again is carried out, unless the lidar refuses it.
Fairness ==
  \A h \in Handles :
    /\ WF_vars(LidarInfoChangeCallback(h))
    /\ \A o \in Options : SF_vars(OptionSet(h, o))
    /\ SF_vars(WorkModeChanged(h))

FairSpec == Spec /\ Fairness

-----------------------------------------------------------------------------
(* Properties *)

\* The values of the handshake.
TypeOK ==
  /\ user_configs \subseteq Handles /\ livox_config \in [Handles -> SUBSET Options]
  /\ known \subseteq Handles /\ connect_state \subseteq known
  /\ set_bits \in [Handles -> SUBSET Options]
  /\ requests \in [Handles -> [Kinds -> Nat]]
  /\ \A h \in Handles : \A k \in Kinds : requests[h][k] <= announced[h]
  /\ announced \in [Handles -> 0..MaxAnnounced]
  /\ applied \in [Handles -> SUBSET Kinds] /\ refused \in [Handles -> SUBSET Kinds]

\* A lidar samples only after it has carried out every option that is wanted of it,
\* although the answers come in any order, an older announcement's answers arrive
\* after a newer one has set the bits again, and any of them may time out
\* (livox_lidar_callback.cpp:137-142 and its three siblings).
SamplingConfigured == \A h \in connect_state : livox_config[h] \subseteq applied[h]

\* A bit that is set is on its way or was refused: no option is forgotten, which
\* would keep the lidar from sampling for ever (livox_lidar_callback.cpp:145-155).
NoOptionForgotten ==
  \A h \in Handles : \A o \in set_bits[h] : Pending(h, o) \/ o \in refused[h]

\* The handshake ends: every lidar that is given an index comes to work mode Normal,
\* and one that refuses nothing samples, when any option is wanted of it; one that is
\* not in the file has to be announced twice (livox_lidar_callback.cpp:43-124).
SetupCompletes ==
  \A h \in Handles :
    /\ announced[h] > 0 /\ h \in known ~> WorkMode \in applied[h]
    /\ announced[h] > (IF h \in user_configs THEN 0 ELSE 1) /\ h \in known /\ livox_config[h] # {}
         ~> h \in connect_state \/ refused[h] # {}
=============================================================================
