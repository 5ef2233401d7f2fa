-------------------------- MODULE LidarSetupProofs ---------------------------
(***************************************************************************)
(* What holds of the handshake for any lidars, any options, any            *)
(* configuration file and any order of the answers.                        *)
(***************************************************************************)
EXTENDS LidarSetup, TLAPS

\* Who has a request outstanding is known to the driver.
AskedAreKnown == \A h \in Handles : \A k \in Kinds : Pending(h, k) => h \in known

\* While an option is on its way, every option that is wanted is carried out or has
\* its bit set: this is what the lock around the setting of the bits is for.
BitsComplete ==
  \A h \in Handles : \A o \in Options :
    Pending(h, o) => livox_config[h] \subseteq set_bits[h] \cup applied[h]

SetupInv == TypeOK /\ AskedAreKnown /\ BitsComplete /\ NoOptionForgotten /\ SamplingConfigured

\* Sending adds one request of every kind that is sent and changes no other.
LEMMA SendEffect ==
  ASSUME TypeOK, NEW h \in Handles, NEW kinds \in SUBSET Kinds, Send(h, kinds)
  PROVE  /\ requests' \in [Handles -> [Kinds -> Nat]]
         /\ \A k \in Kinds : requests'[h][k] = IF k \in kinds THEN requests[h][k] + 1 ELSE requests[h][k]
         /\ \A g \in Handles \ {h} : requests'[g] = requests[g]
BY DEF TypeOK, Send

\* An answer takes one request away.
LEMMA AnsweredEffect ==
  ASSUME TypeOK, NEW h \in Handles, NEW k \in Kinds, Pending(h, k), Answered(h, k)
  PROVE  /\ requests' \in [Handles -> [Kinds -> Nat]]
         /\ requests'[h][k] = requests[h][k] - 1
         /\ \A j \in Kinds \ {k} : requests'[h][j] = requests[h][j]
         /\ \A g \in Handles \ {h} : requests'[g] = requests[g]
<1>1. requests[h] \in [Kinds -> Nat]
  BY DEF TypeOK
<1>2. requests[h][k] - 1 \in Nat
  BY <1>1 DEF Pending
<1> QED
  BY <1>1, <1>2 DEF TypeOK, Answered

\* An announcement keeps the invariant.
LEMMA AnnouncedKeeps ==
  ASSUME SetupInv, NEW h \in Handles, LidarInfoChangeCallback(h) PROVE SetupInv'
<1> USE DEF SetupInv
<1>1. announced' \in [Handles -> 0..MaxAnnounced] /\ announced'[h] = announced[h] + 1
      /\ \A g \in Handles \ {h} : announced'[g] = announced[g]
  BY SetupAssumption DEF TypeOK, LidarInfoChangeCallback
<1>2. UNCHANGED <<config, connect_state, applied, refused>>
  BY DEF LidarInfoChangeCallback
<1>3. CASE Configure(h)
  <2>1. livox_config[h] \cup Extras \cup {WorkMode} \in SUBSET Kinds /\ livox_config[h] \subseteq Options
    BY DEF TypeOK, Kinds
  <2>2. /\ requests' \in [Handles -> [Kinds -> Nat]]
        /\ \A k \in Kinds : requests'[h][k] =
             IF k \in livox_config[h] \cup Extras \cup {WorkMode} THEN requests[h][k] + 1 ELSE requests[h][k]
        /\ \A g \in Handles \ {h} : requests'[g] = requests[g]
    BY <1>3, <2>1, SendEffect DEF Configure
  <2>3. h \in known /\ UNCHANGED known
    BY <1>3 DEF Configure
  <2>4. /\ set_bits' \in [Handles -> SUBSET Options]
        /\ set_bits'[h] = set_bits[h] \cup livox_config[h]
        /\ \A g \in Handles \ {h} : set_bits'[g] = set_bits[g]
    BY <1>3, <2>1 DEF Configure, TypeOK
  <2>5. TypeOK'
    BY <1>1, <1>2, <2>2, <2>3, <2>4 DEF TypeOK, config
  <2>6. AskedAreKnown'
    BY <2>2, <2>3 DEF AskedAreKnown, Pending
  <2>7. BitsComplete'
    <3> SUFFICES ASSUME NEW g \in Handles, NEW o \in Options, Pending(g, o)'
                 PROVE (livox_config[g] \subseteq set_bits[g] \cup applied[g])'
      BY DEF BitsComplete
    <3>1. CASE g = h
      BY <1>2, <2>4, <3>1 DEF config
    <3>2. CASE g # h
      BY <1>2, <2>2, <2>4, <3>2 DEF BitsComplete, Pending, config, Kinds
    <3> QED
      BY <3>1, <3>2
  <2>8. NoOptionForgotten'
    <3> SUFFICES ASSUME NEW g \in Handles, NEW o \in set_bits'[g]
                 PROVE requests'[g][o] > 0 \/ o \in refused'[g]
      BY DEF NoOptionForgotten, Pending
    <3>1. o \in Options /\ o \in Kinds
      BY <2>4 DEF Kinds
    <3>2. CASE g = h /\ o \in livox_config[h]
      BY <2>2, <3>1, <3>2 DEF TypeOK
    <3>3. CASE g = h /\ o \notin livox_config[h]
      <4>1. requests[h][o] > 0 \/ o \in refused[h]
        BY <2>4, <3>3 DEF NoOptionForgotten, Pending
      <4>2. requests'[h][o] >= requests[h][o] /\ requests[h][o] \in Nat
        BY <2>2, <3>1 DEF TypeOK
      <4>3. requests'[h][o] \in Nat
        BY <2>2, <3>1
      <4>4. requests'[h][o] > 0 \/ o \in refused[h]
        BY <4>1, <4>2, <4>3
      <4> QED
        BY <1>2, <3>3, <4>4
    <3>4. CASE g # h
      BY <1>2, <2>2, <2>4, <3>4 DEF NoOptionForgotten, Pending
    <3> QED
      BY <3>2, <3>3, <3>4
  <2>9. SamplingConfigured'
    BY <1>2 DEF SamplingConfigured, config
  <2> QED
    BY <2>5, <2>6, <2>7, <2>8, <2>9
<1>4. CASE Register(h)
  <2>1. Extras \cup {WorkMode} \in SUBSET Kinds
    BY DEF Kinds
  <2>2. /\ requests' \in [Handles -> [Kinds -> Nat]]
        /\ \A k \in Kinds : requests'[h][k] =
             IF k \in Extras \cup {WorkMode} THEN requests[h][k] + 1 ELSE requests[h][k]
        /\ \A g \in Handles \ {h} : requests'[g] = requests[g]
    BY <1>4, <2>1, SendEffect DEF Register
  <2>3. known' = known \cup {h} /\ UNCHANGED set_bits
    BY <1>4 DEF Register
  <2>4. \A g \in Handles : \A o \in Options : requests'[g][o] = requests[g][o]
    <3>1. \A o \in Options : o \in Kinds /\ o \notin Extras \cup {WorkMode}
      BY SetupAssumption DEF Kinds
    <3>2. \A o \in Options : requests'[h][o] = requests[h][o]
      BY <2>2, <3>1
    <3> SUFFICES ASSUME NEW g \in Handles, NEW o \in Options PROVE requests'[g][o] = requests[g][o]
      OBVIOUS
    <3>3. CASE g = h
      BY <3>2, <3>3
    <3>4. CASE g # h
      BY <2>2, <3>4
    <3> QED
      BY <3>3, <3>4
  <2>5. TypeOK'
    <3>1. ASSUME NEW g \in Handles, NEW k \in Kinds PROVE requests'[g][k] <= announced'[g]
      <4>1. requests[g][k] \in Nat /\ announced[g] \in Nat /\ requests[g][k] <= announced[g]
        BY SetupAssumption DEF TypeOK
      <4>2. CASE g = h
        BY <1>1, <2>2, <4>1, <4>2
      <4>3. CASE g # h
        BY <1>1, <2>2, <4>1, <4>3
      <4> QED
        BY <4>2, <4>3
    <3>2. known' \subseteq Handles /\ connect_state' \subseteq known'
      BY <1>2, <2>3 DEF TypeOK
    <3> QED
      BY <1>1, <1>2, <2>2, <2>3, <3>1, <3>2 DEF TypeOK, config
  <2>6. AskedAreKnown'
    BY <2>2, <2>3 DEF AskedAreKnown, Pending
  <2>7. BitsComplete'
    BY <1>2, <2>3, <2>4 DEF BitsComplete, Pending, config
  <2>8. NoOptionForgotten'
    <3>1. \A g \in Handles : set_bits'[g] = set_bits[g] /\ set_bits[g] \subseteq Options
      BY <2>3 DEF TypeOK
    <3> QED
      BY <1>2, <2>4, <3>1 DEF NoOptionForgotten, Pending
  <2>9. SamplingConfigured'
    BY <1>2 DEF SamplingConfigured, config
  <2> QED
    BY <2>5, <2>6, <2>7, <2>8, <2>9
<1>5. CASE NoIndexLeft(h)
  <2>1. UNCHANGED <<known, set_bits, requests>>
    BY <1>5 DEF NoIndexLeft
  <2>2. TypeOK'
    BY <1>1, <1>2, <2>1 DEF TypeOK, config
  <2> QED
    BY <1>2, <2>1, <2>2 DEF AskedAreKnown, BitsComplete, NoOptionForgotten, SamplingConfigured, Pending, config
<1> QED
  BY <1>3, <1>4, <1>5 DEF LidarInfoChangeCallback

\* A confirmed option keeps the invariant: the last bit is cleared when all that is
\* wanted is carried out.
LEMMA ConfirmKeeps ==
  ASSUME SetupInv, NEW h \in Handles, NEW o \in Options, OptionSet(h, o) PROVE SetupInv'
<1> USE DEF SetupInv
<1>k. o \in Kinds /\ Options \subseteq Kinds
  BY DEF Kinds
<1>1. /\ requests' \in [Handles -> [Kinds -> Nat]]
      /\ requests'[h][o] = requests[h][o] - 1
      /\ \A j \in Kinds \ {o} : requests'[h][j] = requests[h][j]
      /\ \A g \in Handles \ {h} : requests'[g] = requests[g]
  BY <1>k, AnsweredEffect DEF OptionSet
<1>2. \A g \in Handles : \A k \in Kinds : requests'[g][k] <= requests[g][k]
  <2> SUFFICES ASSUME NEW g \in Handles, NEW k \in Kinds PROVE requests'[g][k] <= requests[g][k]
    OBVIOUS
  <2>1. requests[g][k] \in Nat /\ requests[h][o] \in Nat
    BY <1>k DEF TypeOK
  <2>2. CASE g = h /\ k = o
    BY <1>1, <2>1, <2>2
  <2>3. CASE ~(g = h /\ k = o)
    <3>1. requests'[g][k] = requests[g][k]
      BY <1>1, <2>3
    <3> QED
      BY <2>1, <3>1
  <2> QED
    BY <2>2, <2>3
<1>3. /\ set_bits' \in [Handles -> SUBSET Options]
      /\ set_bits'[h] = set_bits[h] \ {o}
      /\ \A g \in Handles \ {h} : set_bits'[g] = set_bits[g]
  BY DEF OptionSet, ConfirmOption, TypeOK
<1>4. /\ applied' \in [Handles -> SUBSET Kinds]
      /\ applied'[h] = applied[h] \cup {o}
      /\ \A g \in Handles \ {h} : applied'[g] = applied[g]
  BY <1>k DEF OptionSet, CarriedOut, TypeOK
<1>5. UNCHANGED <<config, known, announced, refused>>
  BY DEF OptionSet
<1>6. connect_state' \subseteq connect_state \cup {h}
      /\ (h \in connect_state' => set_bits'[h] = {} \/ h \in connect_state)
  BY DEF OptionSet, ConfirmOption
<1>7. h \in known /\ livox_config[h] \subseteq set_bits[h] \cup applied[h]
  BY <1>k DEF OptionSet, AskedAreKnown, BitsComplete
<1>8. TypeOK'
  <2>1. \A g \in Handles : \A k \in Kinds : requests'[g][k] <= announced[g]
    BY <1>1, <1>2 DEF TypeOK
  <2> QED
    BY <1>1, <1>3, <1>4, <1>5, <1>6, <1>7, <2>1 DEF TypeOK, config
<1>9. AskedAreKnown'
  <2>1. \A g \in Handles : \A k \in Kinds : requests'[g][k] > 0 => requests[g][k] > 0
    BY <1>1, <1>2 DEF TypeOK
  <2> QED
    BY <1>5, <2>1 DEF AskedAreKnown, Pending
<1>10. BitsComplete'
  <2>1. \A g \in Handles : \A k \in Kinds : requests'[g][k] > 0 => requests[g][k] > 0
    BY <1>1, <1>2 DEF TypeOK
  <2>2. \A g \in Handles : set_bits[g] \cup applied[g] \subseteq set_bits'[g] \cup applied'[g]
    BY <1>3, <1>4
  <2> QED
    BY <1>k, <1>5, <2>1, <2>2 DEF BitsComplete, Pending, config
<1>11. NoOptionForgotten'
  <2> SUFFICES ASSUME NEW g \in Handles, NEW p \in set_bits'[g]
               PROVE requests'[g][p] > 0 \/ p \in refused'[g]
    BY DEF NoOptionForgotten, Pending
  <2>1. p \in set_bits[g] /\ p \in Kinds /\ (g = h => p # o)
    BY <1>k, <1>3
  <2>2. requests'[g][p] = requests[g][p]
    BY <1>1, <2>1
  <2> QED
    BY <1>5, <2>1, <2>2 DEF NoOptionForgotten, Pending
<1>12. SamplingConfigured'
  <2> SUFFICES ASSUME NEW g \in connect_state' PROVE livox_config[g] \subseteq applied'[g]
    BY <1>5 DEF SamplingConfigured, config
  <2>1. CASE g = h /\ h \notin connect_state
    BY <1>3, <1>4, <1>6, <1>7, <2>1
  <2>2. CASE g \in connect_state
    BY <1>4, <2>2 DEF SamplingConfigured, TypeOK
  <2> QED
    BY <1>6, <2>1, <2>2
<1> QED
  BY <1>8, <1>9, <1>10, <1>11, <1>12

\* An answer that leaves bits and sampling alone keeps the invariant, when the option
\* that is answered was refused or is none.
LEMMA OtherAnswersKeep ==
  ASSUME SetupInv, NEW h \in Handles,
         \/ \E o \in Options : OptionRefused(h, o)
         \/ \E k \in Extras : ExtraAnswered(h, k)
         \/ WorkModeChanged(h)
  PROVE  SetupInv'
<1> USE DEF SetupInv
<1>1. PICK k \in Kinds :
        /\ Pending(h, k) /\ Answered(h, k)
        /\ UNCHANGED <<config, known, set_bits, connect_state, announced>>
        /\ \/ k \in Options /\ Declined(h, k) /\ UNCHANGED applied
           \/ k \notin Options /\ UNCHANGED refused /\ (CarriedOut(h, k) \/ UNCHANGED applied)
  <2>1. CASE \E o \in Options : OptionRefused(h, o)
    BY <2>1 DEF OptionRefused, Kinds
  <2>2. CASE \E k \in Extras : ExtraAnswered(h, k)
    BY <2>2, SetupAssumption DEF ExtraAnswered, Kinds
  <2>3. CASE WorkModeChanged(h)
    BY <2>3, SetupAssumption DEF WorkModeChanged, Kinds
  <2> QED
    BY <2>1, <2>2, <2>3
<1>2. /\ requests' \in [Handles -> [Kinds -> Nat]]
      /\ requests'[h][k] = requests[h][k] - 1
      /\ \A j \in Kinds \ {k} : requests'[h][j] = requests[h][j]
      /\ \A g \in Handles \ {h} : requests'[g] = requests[g]
  BY <1>1, AnsweredEffect
<1>3. \A g \in Handles : \A j \in Kinds : requests'[g][j] <= requests[g][j]
  <2> SUFFICES ASSUME NEW g \in Handles, NEW j \in Kinds PROVE requests'[g][j] <= requests[g][j]
    OBVIOUS
  <2>1. requests[g][j] \in Nat /\ requests[h][k] \in Nat
    BY DEF TypeOK
  <2>2. CASE g = h /\ j = k
    BY <1>2, <2>1, <2>2
  <2>3. CASE ~(g = h /\ j = k)
    <3>1. requests'[g][j] = requests[g][j]
      BY <1>2, <2>3
    <3> QED
      BY <2>1, <3>1
  <2> QED
    BY <2>2, <2>3
<1>4. \A g \in Handles : \A j \in Kinds : requests'[g][j] > 0 => requests[g][j] > 0
  BY <1>2, <1>3 DEF TypeOK
<1>c. \/ Declined(h, k) /\ UNCHANGED applied
      \/ k \notin Options /\ UNCHANGED refused /\ CarriedOut(h, k)
      \/ k \notin Options /\ UNCHANGED <<refused, applied>>
  BY <1>1
<1>5. applied' \in [Handles -> SUBSET Kinds] /\ \A g \in Handles : applied[g] \subseteq applied'[g]
  <2>1. CASE UNCHANGED applied
    BY <2>1 DEF TypeOK
  <2>2. CASE CarriedOut(h, k)
    BY <2>2 DEF CarriedOut, TypeOK
  <2> QED
    BY <1>c, <2>1, <2>2
<1>6. refused' \in [Handles -> SUBSET Kinds] /\ (\A g \in Handles : refused[g] \subseteq refused'[g])
      /\ (k \in Options => k \in refused'[h])
  <2>1. CASE Declined(h, k)
    BY <2>1 DEF Declined, TypeOK
  <2>2. CASE k \notin Options /\ UNCHANGED refused
    BY <2>2 DEF TypeOK
  <2> QED
    BY <1>c, <2>1, <2>2
<1>7. TypeOK'
  <2>1. \A g \in Handles : \A j \in Kinds : requests'[g][j] <= announced[g]
    BY <1>2, <1>3 DEF TypeOK
  <2> QED
    BY <1>1, <1>2, <1>5, <1>6, <2>1 DEF TypeOK, config
<1>8. AskedAreKnown'
  BY <1>1, <1>4 DEF AskedAreKnown, Pending
<1>9. BitsComplete'
  <2>1. Options \subseteq Kinds
    BY DEF Kinds
  <2> QED
    BY <1>1, <1>4, <1>5, <2>1 DEF BitsComplete, Pending, config
<1>10. NoOptionForgotten'
  <2> SUFFICES ASSUME NEW g \in Handles, NEW p \in set_bits[g]
               PROVE requests'[g][p] > 0 \/ p \in refused'[g]
    BY <1>1 DEF NoOptionForgotten, Pending
  <2>1. p \in Options /\ p \in Kinds
    BY DEF TypeOK, Kinds
  <2>2. requests[g][p] > 0 \/ p \in refused[g]
    BY DEF NoOptionForgotten, Pending
  <2>3. CASE g = h /\ p = k
    BY <1>6, <2>1, <2>3
  <2>4. CASE ~(g = h /\ p = k)
    <3>1. requests'[g][p] = requests[g][p]
      BY <1>2, <2>1, <2>4
    <3> QED
      BY <1>6, <2>2, <3>1
  <2> QED
    BY <2>3, <2>4
<1>11. SamplingConfigured'
  BY <1>1, <1>5 DEF SamplingConfigured, TypeOK, config
<1> QED
  BY <1>7, <1>8, <1>9, <1>10, <1>11

\* A timeout changes at most what the lidar has carried out.
LEMMA TimeoutKeeps ==
  ASSUME SetupInv, NEW h \in Handles, NEW o \in Options, TimedOut(h, o) PROVE SetupInv'
<1> USE DEF SetupInv
<1>1. UNCHANGED <<config, known, set_bits, connect_state, announced, refused, requests>>
  BY DEF TimedOut
<1>2. applied' \in [Handles -> SUBSET Kinds] /\ \A g \in Handles : applied[g] \subseteq applied'[g]
  BY DEF TimedOut, CarriedOut, TypeOK, Kinds
<1>3. TypeOK'
  BY <1>1, <1>2 DEF TypeOK, config
<1>4. AskedAreKnown' /\ NoOptionForgotten'
  BY <1>1 DEF AskedAreKnown, NoOptionForgotten, Pending
<1>5. BitsComplete'
  BY <1>1, <1>2 DEF BitsComplete, Pending, config
<1>6. SamplingConfigured'
  BY <1>1, <1>2 DEF SamplingConfigured, TypeOK, config
<1> QED
  BY <1>3, <1>4, <1>5, <1>6

\* A step that changes nothing keeps the invariant.
LEMMA StutterKeeps == ASSUME SetupInv, UNCHANGED vars PROVE SetupInv'
BY DEF vars, config, SetupInv, TypeOK, AskedAreKnown, BitsComplete, NoOptionForgotten, SamplingConfigured, Pending

-----------------------------------------------------------------------------
\* The invariant holds in every reachable state.
THEOREM InductiveInvariant == Spec => []SetupInv
<1>1. Init => SetupInv
  <2> SUFFICES ASSUME Init PROVE SetupInv
    OBVIOUS
  <2>1. \A h \in Handles : \A k \in Kinds : ~Pending(h, k)
    BY DEF Init, ParseUserConfigs, Pending
  <2>2. TypeOK
    BY SetupAssumption DEF Init, ParseUserConfigs, TypeOK
  <2>3. AskedAreKnown
    BY <2>1 DEF AskedAreKnown
  <2>4. BitsComplete
    BY <2>1 DEF BitsComplete, Kinds
  <2>5. NoOptionForgotten /\ SamplingConfigured
    BY DEF Init, ParseUserConfigs, NoOptionForgotten, SamplingConfigured
  <2> QED
    BY <2>2, <2>3, <2>4, <2>5 DEF SetupInv
<1>2. SetupInv /\ [Next]_vars => SetupInv'
  <2> SUFFICES ASSUME SetupInv, [Next]_vars PROVE SetupInv'
    OBVIOUS
  <2>1. CASE UNCHANGED vars
    BY <2>1, StutterKeeps
  <2>2. ASSUME NEW h \in Handles, LidarInfoChangeCallback(h) PROVE SetupInv'
    BY <2>2, AnnouncedKeeps
  <2>3. ASSUME NEW h \in Handles, Answer(h) PROVE SetupInv'
    <3>1. CASE \E o \in Options : OptionSet(h, o)
      BY <3>1, ConfirmKeeps
    <3>2. CASE \E o \in Options : TimedOut(h, o)
      BY <3>2, TimeoutKeeps
    <3>3. CASE \/ \E o \in Options : OptionRefused(h, o)
               \/ \E k \in Extras : ExtraAnswered(h, k)
               \/ WorkModeChanged(h)
      BY <3>3, OtherAnswersKeep
    <3>4. CASE (\E k \in Extras : Resent(h, k)) \/ Resent(h, WorkMode)
      BY <3>4, <2>1 DEF Resent
    <3> QED
      BY <2>3, <3>1, <3>2, <3>3, <3>4 DEF Answer
  <2> QED
    BY <2>1, <2>2, <2>3 DEF Next
<1> QED
  BY <1>1, <1>2, PTL DEF Spec

\* The values of the handshake, for any lidars, options and configuration file.
THEOREM TypeCorrect == Spec => []TypeOK
<1>1. SetupInv => TypeOK
  BY DEF SetupInv
<1> QED
  BY <1>1, InductiveInvariant, PTL

\* A sampling lidar has carried out everything the file wants of it, in whatever order
\* the answers of any number of announcements come (livox_lidar_callback.cpp:137-142).
THEOREM SamplingIsConfigured == Spec => []SamplingConfigured
<1>1. SetupInv => SamplingConfigured
  BY DEF SetupInv
<1> QED
  BY <1>1, InductiveInvariant, PTL

\* No option is forgotten: its bit has a request or a refusal behind it
\* (livox_lidar_callback.cpp:145-155).
THEOREM OptionsRemembered == Spec => []NoOptionForgotten
<1>1. SetupInv => NoOptionForgotten
  BY DEF SetupInv
<1> QED
  BY <1>1, InductiveInvariant, PTL
=============================================================================
