-------------------------- MODULE LidarStreamProofs --------------------------
(***************************************************************************)
(* What holds of the frame queues for any number of lidars, any size of    *)
(* the rings, any span of the indices and any frames.                      *)
(***************************************************************************)
EXTENDS LidarStream, NumberTheorems

\* A ring that is being polled is there.
RingPolled == BeingPolled => current \in Lidars /\ storage_packet[current] # NoStorage

\* TypeOK alone is not inductive: a packet is popped from a ring that is allocated.
StreamInv == TypeOK /\ RingPolled

\* A remainder is below its divisor.
LEMMA Remainder == ASSUME NEW n \in Nat, NEW s \in Nat, s > 0 PROVE n % s \in 0..s - 1
BY SMT

\* An index picks a slot of the ring, and its successor is an index again.
LEMMA IndexSlot ==
  ASSUME NEW i \in 0..IndexSpan - 1
  PROVE i % QueueSize \in Slots /\ (i + 1) % IndexSpan \in 0..IndexSpan - 1
<1>1. i \in Nat /\ i + 1 \in Nat
  OBVIOUS
<1>2. QueueSize \in Nat /\ QueueSize > 0 /\ IndexSpan \in Nat /\ IndexSpan > 0
  BY StreamAssumption
<1>3. i % QueueSize \in 0..QueueSize - 1 /\ (i + 1) % IndexSpan \in 0..IndexSpan - 1
  BY <1>1, <1>2, Remainder
<1> QED
  BY <1>3 DEF Slots

\* The PubHandler thread keeps the invariant when it pushes a frame.
LEMMA PushKeeps ==
  ASSUME StreamInv, NEW l \in Lidars, NEW p \in Packets, PushLidarData(l, p)
  PROVE StreamInv'
<1> DEFINE ring == IF storage_packet[l] = NoStorage THEN [i \in Slots |-> p] ELSE storage_packet[l]
           filled == [ring EXCEPT ![wr_idx[l] % QueueSize] = p]
<1>1. wr_idx[l] \in 0..IndexSpan - 1
  BY DEF StreamInv, TypeOK
<1>2. wr_idx[l] % QueueSize \in Slots /\ (wr_idx[l] + 1) % IndexSpan \in 0..IndexSpan - 1
  BY <1>1, IndexSlot
<1>3. ring \in [Slots -> Packets]
  BY DEF StreamInv, TypeOK
<1>4. filled \in [Slots -> Packets]
  BY <1>2, <1>3
<1>5. filled # NoStorage
  <2>1. 0 \in DOMAIN filled
    BY <1>4, StreamAssumption DEF Slots
  <2>2. 0 \notin DOMAIN NoStorage
    BY DEF NoStorage
  <2> QED
    BY <2>1, <2>2
<1>6. storage_packet' = [storage_packet EXCEPT ![l] = filled]
  BY DEF PushLidarData, QueuePushAny
<1>7. wr_idx' = [wr_idx EXCEPT ![l] = (wr_idx[l] + 1) % IndexSpan] /\ UNCHANGED <<rd_idx, wrSeen>>
  BY DEF PushLidarData, QueuePushAny
<1>8. storage_packet' \in [Lidars -> [Slots -> Packets] \cup {NoStorage}]
  BY <1>4, <1>6 DEF StreamInv, TypeOK
<1>9. wr_idx' \in [Lidars -> 0..IndexSpan - 1]
  BY <1>2, <1>7 DEF StreamInv, TypeOK
<1>10. burst' \in 0..MaxBurst
  BY StreamAssumption DEF StreamInv, TypeOK, PushLidarData, Rare
<1>11. TypeOK'
  BY <1>7, <1>8, <1>9, <1>10 DEF StreamInv, TypeOK, PushLidarData, exitVars
<1>12. RingPolled'
  <2>1. UNCHANGED <<polling, current>>
    BY DEF PushLidarData
  <2>2. ASSUME NEW k \in Lidars, storage_packet[k] # NoStorage PROVE storage_packet'[k] # NoStorage
    BY <1>5, <1>6, <2>2 DEF StreamInv, TypeOK
  <2> QED
    BY <2>1, <2>2 DEF StreamInv, RingPolled, BeingPolled
<1> QED
  BY <1>11, <1>12 DEF StreamInv

\* A frame that finds the ring full changes no ring.
LEMMA DropKeeps == ASSUME StreamInv, NEW l \in Lidars, DropFrame(l) PROVE StreamInv'
<1>1. burst' \in 0..MaxBurst
  BY StreamAssumption DEF StreamInv, TypeOK, DropFrame, Rare
<1> QED
  BY <1>1 DEF StreamInv, TypeOK, RingPolled, BeingPolled, DropFrame, ringVars, exitVars

\* The semaphore, the store buffer, the handshake and the destructor keep it.
LEMMA OthersKeep ==
  ASSUME StreamInv,
         GetCount \/ Signal \/ Flush \/ RequestExit \/ SetValue \/ Join
           \/ \E l \in Lidars : Sampling(l)
  PROVE StreamInv'
<1> USE DEF StreamInv, TypeOK, RingPolled, BeingPolled, ringVars, pollVars, exitVars
<1>1. CASE GetCount
  BY <1>1 DEF GetCount
<1>2. CASE Signal
  BY <1>2 DEF Signal
<1>3. CASE Flush
  BY <1>3 DEF Flush
<1>4. CASE RequestExit
  BY <1>4 DEF RequestExit
<1>5. CASE SetValue
  BY <1>5 DEF SetValue
<1>6. CASE Join
  BY <1>6 DEF Join
<1>7. CASE \E l \in Lidars : Sampling(l)
  BY <1>7 DEF Sampling
<1> QED
  BY <1>1, <1>2, <1>3, <1>4, <1>5, <1>6, <1>7

\* The poll thread keeps the invariant.
LEMMA PollKeeps == ASSUME StreamInv, Poll PROVE StreamInv'
<1> USE DEF StreamInv, TypeOK, RingPolled, BeingPolled, PollStep, exitVars
<1>n. (current \in Lidars => current + 1 \in 1..LidarCount + 1) /\ 0 \in 0..MaxBurst
  BY StreamAssumption DEF Lidars
<1>1. CASE DistributePointCloudData
  BY <1>1 DEF DistributePointCloudData
<1>2. CASE Wait
  BY <1>2, StreamAssumption DEF Wait
<1>3. CASE ScanLidar
  <2>1. CASE Polled(current) /\ polling' = "outer" /\ UNCHANGED <<current, burst>>
    BY <1>3, <2>1 DEF ScanLidar, Polled
  <2>2. CASE NextLidar
    BY <1>3, <2>2, <1>n DEF ScanLidar, NextLidar
  <2> QED
    BY <1>3, <2>1, <2>2 DEF ScanLidar
<1>4. CASE ScanDone
  BY <1>4 DEF ScanDone
<1>5. CASE PollingLidarPointCloudData
  <2>1. CASE NextLidar
    BY <1>5, <2>1, <1>n DEF PollingLidarPointCloudData, NextLidar
  <2>2. CASE polling' = "inner" /\ UNCHANGED <<current, burst>>
    BY <1>5, <2>2 DEF PollingLidarPointCloudData
  <2> QED
    BY <1>5, <2>1, <2>2 DEF PollingLidarPointCloudData
<1>6. CASE QueuePrePop
  <2>1. current \in Lidars /\ storage_packet[current] # NoStorage
    BY <1>6 DEF QueuePrePop
  <2>2. storage_packet[current] \in [Slots -> Packets]
    BY <2>1
  <2>3. rd_idx[current] \in 0..IndexSpan - 1
    BY <2>1
  <2>4. storage_packet[current][rd_idx[current] % QueueSize] \in Packets
    BY <2>2, <2>3, IndexSlot
  <2> QED
    BY <1>6, <2>4 DEF QueuePrePop
<1>7. CASE QueuePopUpdate
  <2>1. current \in Lidars
    BY <1>7 DEF QueuePopUpdate
  <2>2. rd_idx[current] \in 0..IndexSpan - 1
    BY <2>1
  <2>3. (rd_idx[current] + 1) % IndexSpan \in 0..IndexSpan - 1
    BY <2>2, IndexSlot
  <2>4. rd_idx' \in [Lidars -> 0..IndexSpan - 1]
    BY <1>7, <2>3 DEF QueuePopUpdate
  <2>5. published' \in [Lidars -> Packets \cup {NoPacket}]
    BY <1>7 DEF QueuePopUpdate
  <2> QED
    BY <1>7, <2>4, <2>5 DEF QueuePopUpdate
<1>8. CASE PollStatus
  BY <1>8 DEF PollStatus
<1> QED
  BY <1>1, <1>2, <1>3, <1>4, <1>5, <1>6, <1>7, <1>8 DEF Poll

-----------------------------------------------------------------------------
\* Every step of the driver keeps the invariant.
LEMMA StepKeeps == ASSUME StreamInv, [Next]_vars PROVE StreamInv'
<1>1. CASE \E l \in Lidars : Frame(l)
  BY <1>1, PushKeeps, DropKeeps DEF Frame
<1>2. CASE Poll
  BY <1>2, PollKeeps
<1>3. CASE GetCount \/ Signal \/ Flush \/ RequestExit \/ SetValue \/ Join
             \/ \E l \in Lidars : Sampling(l)
  BY <1>3, OthersKeep
<1>4. CASE UNCHANGED vars
  BY <1>4 DEF vars, ringVars, pollVars, exitVars, StreamInv, TypeOK, RingPolled, BeingPolled
<1> QED
  BY <1>1, <1>2, <1>3, <1>4 DEF Next

\* The start.
LEMMA StreamInit == Init => StreamInv
<1> SUFFICES ASSUME Init PROVE StreamInv
  OBVIOUS
<1>1. RingPolled
  BY DEF Init, RingPolled, BeingPolled
<1>2. 0 \in 0..IndexSpan - 1 /\ 1 \in 1..LidarCount + 1 /\ 0 \in 0..MaxBurst
  BY StreamAssumption
<1>3. TypeOK
  BY <1>2 DEF Init, TypeOK
<1> QED
  BY <1>1, <1>3 DEF StreamInv

\* The values of the variables hold in every reachable state: the poll thread
\* takes no token that is not there, and reads no slot of a ring that was never
\* allocated (ldq.cpp:86-105).
THEOREM TypeCorrect == Spec => []TypeOK
<1>1. Init => StreamInv
  BY StreamInit
<1>2. StreamInv /\ [Next]_vars => StreamInv'
  BY StepKeeps
<1>3. StreamInv => TypeOK
  BY DEF StreamInv
<1> QED
  BY <1>1, <1>2, <1>3, PTL DEF Spec

-----------------------------------------------------------------------------
\* One token at most, for any number of lidars that share the semaphore: the count
\* is read as zero before the signal, and nobody else signals (lds.cpp:185-188).
THEOREM TokenSingle == Spec => []OneToken
<1> DEFINE TokenInv == count_ \in 0..1 /\ OneToken
<1>1. Init => TokenInv
  BY DEF Init, OneToken
<1>2. TokenInv /\ [Next]_vars => TokenInv'
  <2> SUFFICES ASSUME TokenInv, [Next]_vars PROVE TokenInv'
    OBVIOUS
  <2> USE DEF OneToken
  <2>1. CASE GetCount
    BY <2>1 DEF GetCount
  <2>2. CASE Signal
    BY <2>2 DEF Signal
  <2>3. CASE Wait
    BY <2>3 DEF Wait, PollStep
  <2>4. CASE \E l \in Lidars : Frame(l)
    BY <2>4 DEF Frame, PushLidarData, DropFrame
  <2>5. CASE UNCHANGED <<count_, storing>>
    BY <2>5
  <2>6. CASE Poll /\ ~Wait
    <3>1. UNCHANGED <<count_, storing>>
      BY <2>6 DEF Poll, PollStep, DistributePointCloudData, ScanLidar, ScanDone,
        PollingLidarPointCloudData, QueuePrePop, QueuePopUpdate, PollStatus
    <3> QED
      BY <3>1, <2>5
  <2>7. CASE Flush \/ RequestExit \/ SetValue \/ Join \/ \E l \in Lidars : Sampling(l)
    <3>1. UNCHANGED <<count_, storing>>
      BY <2>7 DEF Flush, RequestExit, SetValue, Join, Sampling
    <3> QED
      BY <3>1, <2>5
  <2>8. CASE UNCHANGED vars
    BY <2>8 DEF vars
  <2> QED
    BY <2>1, <2>2, <2>3, <2>4, <2>6, <2>7, <2>8 DEF Next
<1>3. TokenInv => OneToken
  OBVIOUS
<1> QED
  BY <1>1, <1>2, <1>3, PTL DEF Spec

-----------------------------------------------------------------------------
(* Remainders: the indices count modulo IndexSpan, the slots modulo QueueSize *)

\* Indices wrap around.
LEMMA Cyclic ==
  ASSUME NEW a \in 0..IndexSpan - 1, NEW b \in 0..IndexSpan - 1
  PROVE  /\ (a + IndexSpan - b) % IndexSpan = IF a >= b THEN a - b ELSE a + IndexSpan - b
         /\ (a + 1) % IndexSpan = IF a + 1 = IndexSpan THEN 0 ELSE a + 1
<1>0. IndexSpan \in Nat /\ IndexSpan > 0
  BY StreamAssumption
<1>1. ASSUME a >= b PROVE (a + IndexSpan - b) % IndexSpan = a - b
  <2>1. /\ a + IndexSpan - b \in Nat /\ a - b \in 0..IndexSpan - 1
        /\ a + IndexSpan - b = IndexSpan * 1 + (a - b)
    BY <1>0, <1>1
  <2> QED
    BY <1>0, <2>1, RemainderUnique
<1>2. ASSUME a < b PROVE (a + IndexSpan - b) % IndexSpan = a + IndexSpan - b
  <2>1. /\ a + IndexSpan - b \in Nat /\ a + IndexSpan - b \in 0..IndexSpan - 1
        /\ a + IndexSpan - b = IndexSpan * 0 + (a + IndexSpan - b)
    BY <1>0, <1>2
  <2> QED
    BY <1>0, <2>1, RemainderUnique
<1>3. ASSUME a + 1 = IndexSpan PROVE (a + 1) % IndexSpan = 0
  <2>1. a + 1 \in Nat /\ 0 \in 0..IndexSpan - 1 /\ a + 1 = IndexSpan * 1 + 0
    BY <1>0, <1>3
  <2> QED
    BY <1>0, <2>1, RemainderUnique
<1>4. ASSUME a + 1 # IndexSpan PROVE (a + 1) % IndexSpan = a + 1
  <2>1. a + 1 \in Nat /\ a + 1 \in 0..IndexSpan - 1 /\ a + 1 = IndexSpan * 0 + (a + 1)
    BY <1>0, <1>4
  <2> QED
    BY <1>0, <2>1, RemainderUnique
<1>5. a >= b \/ a < b
  BY <1>0
<1> QED
  BY <1>1, <1>2, <1>3, <1>4, <1>5

\* A turn of the indices is a whole number of turns of the ring.
LEMMA SameSlot ==
  ASSUME NEW x \in Nat
  PROVE  (IndexSpan + x) % QueueSize = x % QueueSize
<1>0. /\ QueueSize \in Nat /\ QueueSize > 0 /\ IndexSpan \in Nat
      /\ IndexSpan % QueueSize = 0
  BY StreamAssumption
<1> DEFINE m == IndexSpan \div QueueSize
           k == x \div QueueSize
           r == x % QueueSize
<1>1. m \in Nat /\ IndexSpan = QueueSize * m
  BY <1>0, Quotient
<1>2. k \in Nat /\ r \in 0..QueueSize - 1 /\ x = QueueSize * k + r
  BY <1>0, Quotient
<1> HIDE DEF m, k, r
<1>3. IndexSpan + x \in Nat /\ m + k \in Int /\ IndexSpan + x = QueueSize * (m + k) + r
  BY <1>0, <1>1, <1>2
<1>4. (IndexSpan + x) % QueueSize = r
  <2>1. /\ IndexSpan + x \in Int /\ QueueSize \in Nat /\ QueueSize > 0
        /\ m + k \in Int /\ r \in 0..QueueSize - 1
        /\ IndexSpan + x = QueueSize * (m + k) + r
    BY <1>0, <1>2, <1>3
  <2> QED
    BY ONLY <2>1, RemainderUnique
<1> QED
  BY <1>4 DEF r

\* Indices less than a ring apart have different slots.
LEMMA SlotsApart ==
  ASSUME NEW a \in Nat, NEW d \in 1..QueueSize - 1
  PROVE  (a + d) % QueueSize # a % QueueSize
<1> SUFFICES ASSUME (a + d) % QueueSize = a % QueueSize PROVE FALSE
  OBVIOUS
<1>0. QueueSize \in Nat /\ QueueSize > 0 /\ a + d \in Nat
  BY StreamAssumption
<1> DEFINE k == a \div QueueSize
           j == (a + d) \div QueueSize
           r == a % QueueSize
<1>1. k \in Nat /\ r \in 0..QueueSize - 1 /\ a = QueueSize * k + r
  BY <1>0, Quotient
<1>2. j \in Nat /\ a + d = QueueSize * j + r
  BY <1>0, Quotient
<1> HIDE DEF k, j, r
<1>3. QueueSize * (j - k) = d /\ j - k \in Int /\ d \in Int /\ d > -QueueSize /\ d < QueueSize
  BY <1>0, <1>1, <1>2
<1>4. j - k = 0
  BY <1>0, <1>3, SmallMultiple
<1> QED
  BY <1>0, <1>3, <1>4

-----------------------------------------------------------------------------
(* A ring without a lock is a bounded queue *)

\* What waits in a ring, from the read index on.
Window(ring, first, n) == [i \in 1..n |-> ring[(first + i - 1) % QueueSize]]

SeenSize(l) == (wrSeen[l] + IndexSpan - rd_idx[l]) % IndexSpan

\* A ring never holds more than its slots; the poll thread sees no frame that is not there;
\* and the frame it has popped is still in its slot.
RingInv ==
  /\ \A l \in Lidars :
       /\ QueueUsedSize(l) <= QueueSize /\ SeenSize(l) <= QueueUsedSize(l)
       /\ QueueUsedSize(l) > 0 => storage_packet[l] # NoStorage
  /\ polling = "popped" =>
       /\ SeenSize(current) > 0
       /\ pkg = storage_packet[current][rd_idx[current] % QueueSize]

\* A frame that is stored behind the others joins the window.
LEMMA WindowPush ==
  ASSUME NEW ring \in [Slots -> Packets], NEW first \in Nat, NEW n \in Nat, n < QueueSize,
         NEW p \in Packets
  PROVE  /\ Window([ring EXCEPT ![(first + n) % QueueSize] = p], first, n + 1)
              = Append(Window(ring, first, n), p)
         /\ n > 0 => [ring EXCEPT ![(first + n) % QueueSize] = p][first % QueueSize]
                       = ring[first % QueueSize]
<1> DEFINE stored == [ring EXCEPT ![(first + n) % QueueSize] = p]
<1>0. QueueSize \in Nat /\ QueueSize > 0
  BY StreamAssumption
<1>1. ASSUME NEW a \in Nat PROVE a % QueueSize \in Slots
  BY <1>0, Remainder DEF Slots
<1>2. stored[(first + n) % QueueSize] = p
  BY <1>1
<1>3. ASSUME NEW i \in 1..n
      PROVE  stored[(first + i - 1) % QueueSize] = ring[(first + i - 1) % QueueSize]
  <2>1. /\ first + i - 1 \in Nat /\ n - i + 1 \in 1..QueueSize - 1
        /\ (first + i - 1) + (n - i + 1) = first + n
    BY <1>0
  <2>2. (first + n) % QueueSize # (first + i - 1) % QueueSize
    BY <2>1, SlotsApart
  <2>3. (first + i - 1) % QueueSize \in Slots
    BY <1>1, <2>1
  <2> QED
    BY <2>2, <2>3
<1> HIDE DEF stored
<1>4. Window(stored, first, n + 1) = Append(Window(ring, first, n), p)
  <2>1. /\ Window(stored, first, n + 1) = [i \in 1..n + 1 |-> stored[(first + i - 1) % QueueSize]]
        /\ Window(ring, first, n) = [i \in 1..n |-> ring[(first + i - 1) % QueueSize]]
    BY DEF Window
  <2>2. first + (n + 1) - 1 = first + n
    OBVIOUS
  <2>3. ASSUME NEW i \in 1..n + 1
        PROVE  stored[(first + i - 1) % QueueSize] =
                 IF i <= n THEN ring[(first + i - 1) % QueueSize] ELSE p
    <3>1. CASE i \in 1..n
      <4>1. stored[(first + i - 1) % QueueSize] = ring[(first + i - 1) % QueueSize]
        BY <1>3, <3>1
      <4>2. i <= n
        BY <3>1
      <4> QED
        BY <4>1, <4>2
    <3>2. CASE i = n + 1
      BY <1>2, <2>2, <3>2
    <3> QED
      BY <3>1, <3>2
  <2> DEFINE f(i) == ring[(first + i - 1) % QueueSize]
             g(i) == stored[(first + i - 1) % QueueSize]
  <2>4. \A i \in 1..n + 1 : g(i) = IF i <= n THEN f(i) ELSE p
    BY <2>3
  <2>5. /\ Window(stored, first, n + 1) = [i \in 1..n + 1 |-> g(i)]
        /\ Window(ring, first, n) = [i \in 1..n |-> f(i)]
    BY <2>1
  <2> HIDE DEF f, g
  <2>6. [i \in 1..n + 1 |-> g(i)] = Append([i \in 1..n |-> f(i)], p)
    BY <2>4
  <2> QED
    BY <2>5, <2>6
<1>5. n > 0 => stored[first % QueueSize] = ring[first % QueueSize]
  <2>1. first + 1 - 1 = first
    OBVIOUS
  <2>2. n > 0 => 1 \in 1..n
    OBVIOUS
  <2> QED
    BY <1>3, <2>1, <2>2
<1> QED
  BY <1>4, <1>5 DEF stored

\* The oldest frame leaves the window when the read index moves on.
LEMMA WindowPop ==
  ASSUME NEW ring, NEW first \in 0..IndexSpan - 1, NEW n \in Nat, n > 0
  PROVE  /\ Window(ring, first, n) # <<>>
         /\ Head(Window(ring, first, n)) = ring[first % QueueSize]
         /\ Window(ring, (first + 1) % IndexSpan, n - 1) = Tail(Window(ring, first, n))
<1> DEFINE next == (first + 1) % IndexSpan
           f(i) == ring[(first + i - 1) % QueueSize]
<1>0. IndexSpan \in Nat /\ IndexSpan > 0
  BY StreamAssumption
<1>1. ASSUME NEW i \in 1..n - 1 PROVE ring[(next + i - 1) % QueueSize] = f(i + 1)
  <2>1. next = IF first + 1 = IndexSpan THEN 0 ELSE first + 1
    BY Cyclic
  <2>2. CASE first + 1 = IndexSpan
    <3>1. next + i - 1 = i - 1 /\ first + (i + 1) - 1 = IndexSpan + (i - 1) /\ i - 1 \in Nat
      BY <1>0, <2>1, <2>2
    <3>2. (IndexSpan + (i - 1)) % QueueSize = (i - 1) % QueueSize
      BY <3>1, SameSlot
    <3> QED
      BY <3>1, <3>2
  <2>3. CASE first + 1 # IndexSpan
    <3>1. next + i - 1 = first + (i + 1) - 1
      BY <1>0, <2>1, <2>3
    <3> QED
      BY <3>1
  <2> QED
    BY <2>2, <2>3
<1>2. /\ Window(ring, first, n) = [i \in 1..n |-> f(i)]
      /\ Window(ring, next, n - 1) = [i \in 1..n - 1 |-> f(i + 1)]
  BY <1>1 DEF Window
<1>3. f(1) = ring[first % QueueSize]
  <2>1. first + 1 - 1 = first
    BY <1>0
  <2> QED
    BY <2>1
<1> HIDE DEF f, next
<1>4. /\ [i \in 1..n |-> f(i)] # <<>> /\ Head([i \in 1..n |-> f(i)]) = f(1)
      /\ Tail([i \in 1..n |-> f(i)]) = [i \in 1..n - 1 |-> f(i + 1)]
  OBVIOUS
<1> QED
  BY <1>2, <1>3, <1>4 DEF next

\* The size of a ring: zero when the indices meet, one more when a frame is stored, one
\* less when one is taken; and the slot behind the last frame.
LEMMA Sizes ==
  ASSUME NEW w \in 0..IndexSpan - 1, NEW r \in 0..IndexSpan - 1,
         NEW n, n = (w + IndexSpan - r) % IndexSpan
  PROVE  /\ n \in 0..IndexSpan - 1 /\ (n = 0 <=> w = r)
         /\ n < QueueSize => (((w + 1) % IndexSpan) + IndexSpan - r) % IndexSpan = n + 1
         /\ n > 0 => (w + IndexSpan - ((r + 1) % IndexSpan)) % IndexSpan = n - 1
         /\ w % QueueSize = (r + n) % QueueSize
<1>0. IndexSpan \in Nat /\ QueueSize \in Nat /\ QueueSize > 0 /\ IndexSpan > QueueSize
  BY StreamAssumption
<1>1. n = IF w >= r THEN w - r ELSE w + IndexSpan - r
  BY Cyclic
<1>2. n \in 0..IndexSpan - 1 /\ (n = 0 <=> w = r)
  BY <1>0, <1>1
<1>3. ASSUME n < QueueSize
      PROVE  (((w + 1) % IndexSpan) + IndexSpan - r) % IndexSpan = n + 1
  <2> DEFINE x == (w + 1) % IndexSpan
  <2>1. x = (IF w + 1 = IndexSpan THEN 0 ELSE w + 1)
    BY Cyclic
  <2> HIDE DEF x
  <2>2. x \in 0..IndexSpan - 1
    BY <1>0, <2>1
  <2>3. (x + IndexSpan - r) % IndexSpan = IF x >= r THEN x - r ELSE x + IndexSpan - r
    BY <2>2, Cyclic
  <2>4. (IF x >= r THEN x - r ELSE x + IndexSpan - r) = n + 1
    BY <1>0, <1>1, <1>3, <2>1
  <2> QED
    BY <2>3, <2>4 DEF x
<1>4. ASSUME n > 0
      PROVE  (w + IndexSpan - ((r + 1) % IndexSpan)) % IndexSpan = n - 1
  <2> DEFINE x == (r + 1) % IndexSpan
  <2>1. x = (IF r + 1 = IndexSpan THEN 0 ELSE r + 1)
    BY Cyclic
  <2> HIDE DEF x
  <2>2. x \in 0..IndexSpan - 1
    BY <1>0, <2>1
  <2>3. (w + IndexSpan - x) % IndexSpan = IF w >= x THEN w - x ELSE w + IndexSpan - x
    BY <2>2, Cyclic
  <2>4. (IF w >= x THEN w - x ELSE w + IndexSpan - x) = n - 1
    BY <1>0, <1>1, <1>4, <2>1
  <2>5. (w + IndexSpan - x) % IndexSpan = n - 1
    BY <2>3, <2>4
  <2> QED
    BY <2>5 DEF x
<1>5. w % QueueSize = (r + n) % QueueSize
  <2>1. CASE w >= r
    <3>1. r + n = w
      BY <1>0, <1>1, <2>1
    <3> QED
      BY <3>1
  <2>2. CASE w < r
    <3>1. r + n = IndexSpan + w /\ w \in Nat
      BY <1>0, <1>1, <2>2
    <3> QED
      BY <3>1, SameSlot
  <2> QED
    BY <1>0, <2>1, <2>2
<1> QED
  BY <1>2, <1>3, <1>4, <1>5

LEMMA WaitingWindow ==
  ASSUME NEW l \in Lidars
  PROVE  Waiting(l) = Window(storage_packet[l], rd_idx[l], QueueUsedSize(l))
BY DEF Waiting, Window

\* A frame that is stored: what waits in its ring grows by it, the other rings stay.
LEMMA PushImplements ==
  ASSUME StreamInv, RingInv, NEW l \in Lidars, NEW p \in Packets, PushLidarData(l, p)
  PROVE  RingInv' /\ Abstract!Put(l, p)
<1> DEFINE ring == IF storage_packet[l] = NoStorage THEN [i \in Slots |-> p] ELSE storage_packet[l]
           n == QueueUsedSize(l)
           stored == [ring EXCEPT ![(rd_idx[l] + n) % QueueSize] = p]
<1>0. QueueSize \in Nat /\ QueueSize > 0
  BY StreamAssumption
<1>1. /\ wr_idx[l] \in 0..IndexSpan - 1 /\ rd_idx[l] \in 0..IndexSpan - 1
      /\ wrSeen[l] \in 0..IndexSpan - 1 /\ ring \in [Slots -> Packets]
  BY DEF StreamInv, TypeOK
<1>2. /\ n \in 0..IndexSpan - 1 /\ wr_idx[l] % QueueSize = (rd_idx[l] + n) % QueueSize
      /\ n < QueueSize =>
           (((wr_idx[l] + 1) % IndexSpan) + IndexSpan - rd_idx[l]) % IndexSpan = n + 1
  <2> DEFINE w == wr_idx[l]
             r == rd_idx[l]
  <2>1. /\ w \in 0..IndexSpan - 1 /\ r \in 0..IndexSpan - 1
        /\ n = (w + IndexSpan - r) % IndexSpan
    BY <1>1 DEF QueueUsedSize
  <2> HIDE DEF n, w, r
  <2>2. /\ n \in 0..IndexSpan - 1 /\ w % QueueSize = (r + n) % QueueSize
        /\ n < QueueSize => (((w + 1) % IndexSpan) + IndexSpan - r) % IndexSpan = n + 1
    BY <2>1, Sizes
  <2> QED
    BY <2>2 DEF w, r
<1>3. n \in Nat /\ n < QueueSize
  BY <1>0, <1>2 DEF PushLidarData, QueueIsFull
<1>4. /\ wr_idx' = [wr_idx EXCEPT ![l] = (wr_idx[l] + 1) % IndexSpan]
      /\ UNCHANGED <<rd_idx, wrSeen, polling, current, pkg, published>>
      /\ storage_packet' = [storage_packet EXCEPT ![l] = stored]
  BY <1>2 DEF PushLidarData, QueuePushAny
<1>5. /\ QueueUsedSize(l)' = n + 1 /\ storage_packet'[l] = stored /\ rd_idx'[l] = rd_idx[l]
      /\ \A k \in Lidars \ {l} : /\ QueueUsedSize(k)' = QueueUsedSize(k)
                                 /\ storage_packet'[k] = storage_packet[k]
                                 /\ rd_idx'[k] = rd_idx[k]
      /\ \A k \in Lidars : SeenSize(k)' = SeenSize(k)
  <2>1. wr_idx'[l] = (wr_idx[l] + 1) % IndexSpan /\ storage_packet'[l] = stored
    BY <1>4 DEF StreamInv, TypeOK
  <2>2. \A k \in Lidars \ {l} : wr_idx'[k] = wr_idx[k] /\ storage_packet'[k] = storage_packet[k]
    BY <1>4 DEF StreamInv, TypeOK
  <2> HIDE DEF stored
  <2>3. QueueUsedSize(l)' = n + 1
    BY <1>2, <1>3, <1>4, <2>1 DEF QueueUsedSize
  <2> QED
    BY <1>4, <2>1, <2>2, <2>3 DEF QueueUsedSize, SeenSize
<1>6. /\ Window(stored, rd_idx[l], n + 1) = Append(Window(ring, rd_idx[l], n), p)
      /\ n > 0 => stored[rd_idx[l] % QueueSize] = ring[rd_idx[l] % QueueSize]
  <2> HIDE DEF n, ring
  <2>1. rd_idx[l] \in Nat
    BY <1>1
  <2> QED
    BY <1>1, <1>3, <2>1, WindowPush
<1>7. n > 0 => ring = storage_packet[l]
  BY DEF RingInv
<1>8. Window(ring, rd_idx[l], n) = Waiting(l)
  <2>1. CASE n > 0
    BY <1>7, <2>1, WaitingWindow
  <2>2. CASE n = 0
    BY <2>2 DEF Window, Waiting
  <2> QED
    BY <1>3, <2>1, <2>2
<1>9. stored # NoStorage
  <2>1. 0 \in DOMAIN stored
    BY <1>0, <1>1 DEF Slots
  <2>2. 0 \notin DOMAIN NoStorage
    BY DEF NoStorage
  <2> QED
    BY <2>1, <2>2
<1> HIDE DEF stored, ring, n
<1>10. RingInv'
  <2>1. ASSUME NEW k \in Lidars
        PROVE  /\ QueueUsedSize(k)' <= QueueSize /\ SeenSize(k)' <= QueueUsedSize(k)'
               /\ QueueUsedSize(k)' > 0 => storage_packet'[k] # NoStorage
    <3>1. CASE k = l
      <4>1. QueueUsedSize(l) = n /\ SeenSize(l) <= n
        BY DEF n, RingInv
      <4>2. SeenSize(l) \in 0..IndexSpan - 1
        BY <1>1, Sizes DEF SeenSize
      <4>3. SeenSize(l) <= n + 1 /\ n + 1 <= QueueSize
        BY <1>0, <1>3, <4>1, <4>2
      <4> QED
        BY <1>5, <1>9, <3>1, <4>3
    <3>2. CASE k # l
      BY <1>5, <3>2 DEF RingInv
    <3> QED
      BY <3>1, <3>2
  <2>2. ASSUME polling' = "popped"
        PROVE  /\ SeenSize(current)' > 0
               /\ pkg' = storage_packet'[current'][rd_idx'[current'] % QueueSize]
    <3>1. /\ polling = "popped" /\ current' = current /\ pkg' = pkg /\ current \in Lidars
          /\ SeenSize(current) > 0 /\ pkg = storage_packet[current][rd_idx[current] % QueueSize]
      BY <1>4, <2>2 DEF RingInv, StreamInv, RingPolled, BeingPolled
    <3>2. SeenSize(current)' > 0
      BY <1>4, <1>5, <3>1 DEF SeenSize
    <3>3. CASE current = l
      <4>1. n > 0
        <5>1. SeenSize(l) <= n /\ SeenSize(l) > 0
          BY <3>1, <3>3 DEF RingInv, n
        <5>2. SeenSize(l) \in 0..IndexSpan - 1
          BY <1>1, Sizes DEF SeenSize
        <5> QED
          BY <1>3, <5>1, <5>2
      <4> QED
        BY <1>5, <1>6, <1>7, <3>1, <3>2, <3>3, <4>1
    <3>4. CASE current # l
      BY <1>5, <3>1, <3>2, <3>4
    <3> QED
      BY <3>3, <3>4
  <2> QED
    BY <2>1, <2>2 DEF RingInv
<1>11. Waiting(l)' = Append(Waiting(l), p) /\ Len(Waiting(l)) < QueueSize
  <2>1. Waiting(l)' = Window(stored, rd_idx[l], n + 1)
    BY <1>5 DEF Waiting, Window
  <2>2. Len(Waiting(l)) = n
    BY <1>3 DEF Waiting, n
  <2> QED
    BY <1>3, <1>6, <1>8, <2>1, <2>2
<1>12. ASSUME NEW k \in Lidars \ {l} PROVE Waiting(k)' = Waiting(k)
  BY <1>5 DEF Waiting
<1>13. [k \in Lidars |-> Waiting(k)]' =
         [[k \in Lidars |-> Waiting(k)] EXCEPT ![l] = Append(@, p)]
  BY <1>11, <1>12
<1> QED
  BY <1>4, <1>10, <1>11, <1>13 DEF Abstract!Put

\* A frame that is published: it was the oldest of its ring, and leaves it.
LEMMA PopImplements ==
  ASSUME StreamInv, RingInv, QueuePopUpdate
  PROVE  RingInv' /\ \E l \in Lidars : Abstract!Take(l)
<1> DEFINE l == current
           n == QueueUsedSize(l)
           seen == SeenSize(l)
<1>0. l \in Lidars /\ polling = "popped"
  BY DEF StreamInv, RingPolled, BeingPolled, QueuePopUpdate
<1>1. /\ wr_idx[l] \in 0..IndexSpan - 1 /\ rd_idx[l] \in 0..IndexSpan - 1
      /\ wrSeen[l] \in 0..IndexSpan - 1 /\ IndexSpan \in Nat
  BY <1>0, StreamAssumption DEF StreamInv, TypeOK
<1>2. seen > 0 /\ seen <= n /\ n <= QueueSize
      /\ pkg = storage_packet[l][rd_idx[l] % QueueSize]
  BY <1>0 DEF RingInv
<1>3. /\ seen \in 0..IndexSpan - 1 /\ n \in 0..IndexSpan - 1
      /\ n > 0 => (wr_idx[l] + IndexSpan - ((rd_idx[l] + 1) % IndexSpan)) % IndexSpan = n - 1
      /\ seen > 0 =>
           (wrSeen[l] + IndexSpan - ((rd_idx[l] + 1) % IndexSpan)) % IndexSpan = seen - 1
  <2> DEFINE w == wr_idx[l]
             r == rd_idx[l]
             s == wrSeen[l]
  <2>1. /\ w \in 0..IndexSpan - 1 /\ r \in 0..IndexSpan - 1 /\ s \in 0..IndexSpan - 1
        /\ n = (w + IndexSpan - r) % IndexSpan /\ seen = (s + IndexSpan - r) % IndexSpan
    BY <1>1 DEF QueueUsedSize, SeenSize
  <2> HIDE DEF n, seen, w, r, s
  <2>2. /\ n \in 0..IndexSpan - 1
        /\ n > 0 => (w + IndexSpan - ((r + 1) % IndexSpan)) % IndexSpan = n - 1
    BY <2>1, Sizes
  <2>3. /\ seen \in 0..IndexSpan - 1
        /\ seen > 0 => (s + IndexSpan - ((r + 1) % IndexSpan)) % IndexSpan = seen - 1
    BY <2>1, Sizes
  <2> QED
    BY <2>2, <2>3 DEF w, r, s
<1>4. n \in Nat /\ n > 0 /\ seen \in Nat /\ n - 1 \in Nat /\ seen - 1 <= n - 1 /\ n - 1 <= QueueSize
  <2> HIDE DEF n, seen
  <2> QED
    BY <1>1, <1>2, <1>3, StreamAssumption
<1>5. /\ rd_idx' = [rd_idx EXCEPT ![l] = (rd_idx[l] + 1) % IndexSpan]
      /\ published' = [published EXCEPT ![l] = pkg] /\ polling' = "inner"
      /\ UNCHANGED <<wr_idx, wrSeen, storage_packet>>
  BY DEF QueuePopUpdate, PollStep
<1>6. /\ rd_idx'[l] = (rd_idx[l] + 1) % IndexSpan
      /\ \A k \in Lidars \ {l} : rd_idx'[k] = rd_idx[k]
  BY <1>0, <1>5 DEF StreamInv, TypeOK
<1> HIDE DEF l
<1>7. /\ \A k \in Lidars : k = l => QueueUsedSize(k)' = n - 1 /\ SeenSize(k)' = seen - 1
      /\ \A k \in Lidars \ {l} : /\ QueueUsedSize(k)' = QueueUsedSize(k)
                                 /\ SeenSize(k)' = SeenSize(k)
  <2>1. ASSUME NEW k \in Lidars, k = l
        PROVE  QueueUsedSize(k)' = n - 1 /\ SeenSize(k)' = seen - 1
    <3>1. /\ QueueUsedSize(k)' =
               (wr_idx[l] + IndexSpan - ((rd_idx[l] + 1) % IndexSpan)) % IndexSpan
          /\ SeenSize(k)' =
               (wrSeen[l] + IndexSpan - ((rd_idx[l] + 1) % IndexSpan)) % IndexSpan
      BY <1>5, <1>6, <2>1 DEF QueueUsedSize, SeenSize
    <3> HIDE DEF n, seen
    <3> QED
      BY <1>2, <1>3, <1>4, <3>1
  <2>2. ASSUME NEW k \in Lidars \ {l}
        PROVE  QueueUsedSize(k)' = QueueUsedSize(k) /\ SeenSize(k)' = SeenSize(k)
    BY <1>5, <1>6 DEF QueueUsedSize, SeenSize
  <2> QED
    BY <2>1, <2>2
<1>8. RingInv'
  <2>1. ASSUME NEW k \in Lidars
        PROVE  /\ QueueUsedSize(k)' <= QueueSize /\ SeenSize(k)' <= QueueUsedSize(k)'
               /\ QueueUsedSize(k)' > 0 => storage_packet'[k] # NoStorage
    <3>1. CASE k = l
      <4>1. storage_packet[k] # NoStorage
        BY <1>4, <3>1 DEF RingInv
      <4> HIDE DEF n, seen
      <4> QED
        BY <1>4, <1>5, <1>7, <3>1, <4>1
    <3>2. CASE k # l
      BY <1>5, <1>7, <3>2 DEF RingInv
    <3> QED
      BY <3>1, <3>2
  <2> QED
    BY <1>5, <2>1 DEF RingInv
<1>9. /\ Waiting(l) # <<>> /\ Head(Waiting(l)) = pkg
      /\ \A k \in Lidars : k = l => Waiting(k)' = Tail(Waiting(k))
  <2>1. Waiting(l) = Window(storage_packet[l], rd_idx[l], n)
    BY <1>0, WaitingWindow
  <2> HIDE DEF n
  <2>2. /\ Window(storage_packet[l], rd_idx[l], n) # <<>>
        /\ Head(Window(storage_packet[l], rd_idx[l], n)) = storage_packet[l][rd_idx[l] % QueueSize]
        /\ Window(storage_packet[l], (rd_idx[l] + 1) % IndexSpan, n - 1)
             = Tail(Window(storage_packet[l], rd_idx[l], n))
    BY <1>1, <1>4, WindowPop
  <2>3. ASSUME NEW k \in Lidars, k = l
        PROVE  Waiting(k)' = Window(storage_packet[l], (rd_idx[l] + 1) % IndexSpan, n - 1)
    <3>1. QueueUsedSize(k)' = n - 1 /\ rd_idx'[k] = (rd_idx[l] + 1) % IndexSpan
          /\ storage_packet'[k] = storage_packet[l]
      BY <1>5, <1>6, <1>7, <2>3
    <3> QED
      BY <3>1 DEF Waiting, Window
  <2> QED
    BY <1>2, <2>1, <2>2, <2>3
<1>10. ASSUME NEW k \in Lidars \ {l} PROVE Waiting(k)' = Waiting(k)
  BY <1>5, <1>6, <1>7 DEF Waiting
<1>11. [k \in Lidars |-> Waiting(k)]' = [[k \in Lidars |-> Waiting(k)] EXCEPT ![l] = Tail(@)]
  BY <1>0, <1>9, <1>10
<1>12. Abstract!Take(l)
  BY <1>0, <1>5, <1>9, <1>11 DEF Abstract!Take
<1> QED
  BY <1>0, <1>8, <1>12

\* A frame that is read from its slot.
LEMMA PrePopKeeps == ASSUME StreamInv, RingInv, QueuePrePop PROVE RingInv'
<1>1. current \in Lidars /\ UNCHANGED <<rd_idx, wr_idx, wrSeen, storage_packet, current>>
  BY DEF QueuePrePop, PollStep, StreamInv, RingPolled, BeingPolled
<1>2. \A k \in Lidars : QueueUsedSize(k)' = QueueUsedSize(k) /\ SeenSize(k)' = SeenSize(k)
  BY <1>1 DEF QueueUsedSize, SeenSize
<1>3. ASSUME polling' = "popped"
      PROVE  /\ SeenSize(current)' > 0
             /\ pkg' = storage_packet[current][rd_idx[current] % QueueSize]
  <2>1. /\ rd_idx[current] # wrSeen[current]
        /\ pkg' = storage_packet[current][rd_idx[current] % QueueSize]
    BY <1>3 DEF QueuePrePop, SeenEmpty
  <2>2. SeenSize(current) > 0
    <3> DEFINE w == wrSeen[current]
               r == rd_idx[current]
               s == SeenSize(current)
    <3>1. /\ w \in 0..IndexSpan - 1 /\ r \in 0..IndexSpan - 1 /\ w # r /\ IndexSpan \in Nat
          /\ s = (w + IndexSpan - r) % IndexSpan
      BY <1>1, <2>1, StreamAssumption DEF StreamInv, TypeOK, SeenSize
    <3> HIDE DEF w, r, s
    <3>2. s \in 0..IndexSpan - 1 /\ s # 0
      BY <3>1, Sizes
    <3> QED
      BY <3>1, <3>2 DEF s
  <2>3. SeenSize(current)' = SeenSize(current)
    BY <1>1 DEF SeenSize
  <2> QED
    BY <2>1, <2>2, <2>3
<1> QED
  BY <1>1, <1>2, <1>3 DEF RingInv

\* The stores of the write indices become visible.
LEMMA FlushKeeps == ASSUME StreamInv, RingInv, Signal \/ Flush PROVE RingInv'
<1>1. /\ wrSeen' = wr_idx
      /\ UNCHANGED <<storage_packet, wr_idx, rd_idx, polling, current, pkg>>
  BY DEF Signal, Flush, pollVars
<1>2. \A k \in Lidars : /\ QueueUsedSize(k)' = QueueUsedSize(k)
                        /\ SeenSize(k)' = QueueUsedSize(k)
  BY <1>1 DEF QueueUsedSize, SeenSize
<1>3. ASSUME NEW k \in Lidars PROVE QueueUsedSize(k) \in Nat /\ SeenSize(k) \in Nat
  <2> DEFINE w == wr_idx[k]
             r == rd_idx[k]
             s == wrSeen[k]
  <2>1. /\ w \in 0..IndexSpan - 1 /\ r \in 0..IndexSpan - 1 /\ s \in 0..IndexSpan - 1
        /\ QueueUsedSize(k) = (w + IndexSpan - r) % IndexSpan
        /\ SeenSize(k) = (s + IndexSpan - r) % IndexSpan
    BY DEF StreamInv, TypeOK, QueueUsedSize, SeenSize
  <2> HIDE DEF w, r, s
  <2>2. QueueUsedSize(k) \in 0..IndexSpan - 1 /\ SeenSize(k) \in 0..IndexSpan - 1
    BY <2>1, Sizes
  <2> QED
    BY <2>2
<1>4. \A k \in Lidars :
        /\ QueueUsedSize(k)' <= QueueSize /\ SeenSize(k)' <= QueueUsedSize(k)'
        /\ QueueUsedSize(k)' > 0 => storage_packet'[k] # NoStorage
  BY <1>1, <1>2, <1>3 DEF RingInv
<1>5. ASSUME polling' = "popped"
      PROVE  /\ SeenSize(current)' > 0
             /\ pkg' = storage_packet'[current'][rd_idx'[current'] % QueueSize]
  <2>1. current \in Lidars /\ polling = "popped"
    BY <1>1, <1>5 DEF StreamInv, RingPolled, BeingPolled
  <2>2. SeenSize(current) > 0 /\ SeenSize(current) <= QueueUsedSize(current)
    BY <2>1 DEF RingInv
  <2>3. QueueUsedSize(current) > 0
    BY <1>3, <2>1, <2>2
  <2>4. SeenSize(current)' = QueueUsedSize(current)
    BY <1>1 DEF SeenSize, QueueUsedSize
  <2> QED
    BY <1>1, <2>1, <2>3, <2>4 DEF RingInv
<1> QED
  BY <1>4, <1>5 DEF RingInv

\* What leaves the rings alone and pops nothing.
LEMMA RestKeeps ==
  ASSUME StreamInv, RingInv, UNCHANGED ringVars,
         polling' # "popped" \/ UNCHANGED <<polling, current, pkg>>
  PROVE  RingInv'
<1>1. \A k \in Lidars : QueueUsedSize(k)' = QueueUsedSize(k) /\ SeenSize(k)' = SeenSize(k)
  BY DEF ringVars, QueueUsedSize, SeenSize
<1>2. UNCHANGED current => SeenSize(current)' = SeenSize(current)
  BY DEF ringVars, SeenSize
<1> QED
  BY <1>1, <1>2 DEF RingInv, ringVars

\* Every step is one of the four, and only a push and a pop are steps of the conveyor.
LEMMA StepImplements ==
  ASSUME StreamInv, RingInv, [Next]_vars
  PROVE  RingInv' /\ [Abstract!Next]_Abstract!conveyor
<1>1. ASSUME NEW l \in Lidars, NEW p \in Packets, PushLidarData(l, p)
      PROVE  RingInv' /\ Abstract!Next
  BY <1>1, PushImplements DEF Abstract!Next
<1>2. CASE QueuePopUpdate
  BY <1>2, PopImplements DEF Abstract!Next
<1>3. ASSUME UNCHANGED <<storage_packet, wr_idx, rd_idx, published>>
      PROVE  UNCHANGED Abstract!conveyor
  <2>1. ASSUME NEW l \in Lidars PROVE Waiting(l)' = Waiting(l)
    BY <1>3 DEF Waiting, QueueUsedSize
  <2> QED
    BY <1>3, <2>1 DEF Abstract!conveyor
<1>4. CASE QueuePrePop
  BY <1>3, <1>4, PrePopKeeps DEF QueuePrePop, PollStep
<1>5. CASE Signal \/ Flush
  BY <1>3, <1>5, FlushKeeps DEF Signal, Flush, pollVars
<1>6. CASE /\ UNCHANGED ringVars /\ UNCHANGED published
           /\ polling' # "popped" \/ UNCHANGED <<polling, current, pkg>>
  BY <1>3, <1>6, RestKeeps DEF ringVars
<1>7. ASSUME Poll, ~QueuePopUpdate, ~QueuePrePop
      PROVE  UNCHANGED ringVars /\ UNCHANGED published /\ polling' # "popped"
  BY <1>7 DEF Poll, PollStep, DistributePointCloudData, Wait, ScanLidar, ScanDone, NextLidar,
              PollingLidarPointCloudData, PollStatus, ringVars
<1>8. ASSUME GetCount \/ RequestExit \/ SetValue \/ Join \/ UNCHANGED vars
               \/ \E l \in Lidars : DropFrame(l) \/ Sampling(l)
      PROVE  UNCHANGED ringVars /\ UNCHANGED <<polling, current, pkg, published>>
  BY <1>8 DEF GetCount, RequestExit, SetValue, Join, DropFrame, Sampling, vars, pollVars
<1> QED
  BY <1>1, <1>2, <1>4, <1>5, <1>6, <1>7, <1>8 DEF Next, Frame

\* The rings are the bounded queues of the conveyor, for any number of lidars, any size
\* of the rings and any span of the indices that is a multiple of it: no frame is
\* overwritten while it waits, published twice or out of order (ldq.cpp:80-141).
THEOREM ConveyorImplemented == Spec => ConveyorSpec
<1>1. Init => StreamInv /\ RingInv /\ Abstract!Init
  <2> SUFFICES ASSUME Init PROVE StreamInv /\ RingInv /\ Abstract!Init
    OBVIOUS
  <2>0. 0 \in 0..IndexSpan - 1
    BY StreamAssumption
  <2>1. ASSUME NEW l \in Lidars PROVE QueueUsedSize(l) = 0 /\ SeenSize(l) = 0
    <3>1. (0 + IndexSpan - 0) % IndexSpan = 0
      BY <2>0, Cyclic
    <3> QED
      BY <3>1 DEF Init, QueueUsedSize, SeenSize
  <2>2. RingInv
    BY <2>1, StreamAssumption DEF Init, RingInv
  <2>3. ASSUME NEW l \in Lidars PROVE Waiting(l) = <<>>
    BY <2>1 DEF Waiting
  <2>4. Abstract!Init
    BY <2>3 DEF Init, Abstract!Init, NoPacket
  <2> QED
    BY <2>2, <2>4, StreamInit
<1>2. StreamInv /\ RingInv /\ [Next]_vars
        => StreamInv' /\ RingInv' /\ [Abstract!Next]_Abstract!conveyor
  BY StepKeeps, StepImplements
<1> QED
  BY <1>1, <1>2, PTL DEF Spec, ConveyorSpec, Abstract!Spec
=============================================================================
