------------------------- MODULE QCamera3HWI_proofs -------------------------
(***************************************************************************)
(* What is proved of the camera3 HAL for every set of streams, every batch *)
(* size, every bound on the requests in flight and any number of frames.   *)
(*                                                                         *)
(* ErrorSticks goes by the steps alone.  Everything else rests on Base,    *)
(* the books of the HAL: mPendingRequestsList, mPendingBuffersMap and what *)
(* is due of the daemon agree with each other and with what was asked for. *)
(* Walks says how far the unlocked loop of a sensor restart has come: the  *)
(* entry in its hands is older than all in the map, and the first number   *)
(* it read stays the oldest pending one.  Base and Walks hold in every     *)
(* scenario until a flush walks the lists beside that loop (raced): then   *)
(* two threads erase from the same lists without a common lock, and        *)
(* nothing is claimed any more.  On them stand                             *)
(*   Told, what the framework heard and got: each frame ends once, each    *)
(*     buffer comes back once, nothing that was accepted is lost;          *)
(*   Counting, that mPendingLiveRequest counts the live requests.          *)
(*                                                                         *)
(* Told needs that requests end in the order in which they came whenever   *)
(* the lists are cleared: notifyErrorForPendingRequests compares numbers   *)
(* with the first pending request, and a reprocess request may end before  *)
(* it.  Where requests are reprocessed, the hypothesis Separate keeps      *)
(* flushes, errors and batches away.  Counting needs that no request that  *)
(* a channel refused is still pending when batches begin (OneMode).        *)
(***************************************************************************)
EXTENDS QCamera3HWI, TLAPS, FiniteSetTheorems, SequenceTheorems

---------------------------------------------------------------------------
(* Errors                                                                  *)

\* The step may not take the device out of the error without closing it.
Stuck == mState = "ERROR" /\ mState' \notin {"ERROR", "DEINIT", "CLOSED"}
            => thread["request"].pc \in {"initialized", "register"}

\* The calls of the framework.
LEMMA FrameworkSticks == Framework => Stuck
<1>1. openCamera \/ initialize => Stuck
  BY DEF openCamera, initialize, Stuck
<1>2. configureStreams => Stuck
  BY DEF configureStreams, Stuck
<1>3. close_camera_device => Stuck
  BY DEF close_camera_device, Stuck
<1>4. RequestRefused \/ SetupFails \/ SettingsFail => Stuck
  BY DEF RequestRefused, SetupFails, SettingsFail, Stuck
<1>5. processCaptureRequest => Stuck
  BY DEF processCaptureRequest, Stuck
<1>6. SensorRestart \/ FlushCalled => Stuck
  BY DEF SensorRestart, FlushCalled, Stuck
<1> QED  BY <1>1, <1>2, <1>3, <1>4, <1>5, <1>6 DEF Framework

\* The request thread inside the HAL: configure_streams rereads the state,
\* only initialize and the restart of the sensor do not.
LEMMA RequestSticks == RequestProceeds => Stuck
<1>1. Initialized \/ SensorRestarted => Stuck
  BY DEF Initialized, SensorRestarted, Stuck
<1>2. configureStreamsPerfLocked => Stuck
  BY DEF configureStreamsPerfLocked, Live, Stuck
<1>3. SensorStops \/ dynamicUpdateMetaStreamInfo => Stuck
  BY DEF SensorStops, dynamicUpdateMetaStreamInfo, WalkBegins, EntryErased,
     EntryAnswered, WalkEnds, Stuck
<1>4. Woken \/ TimedOut => Stuck
  BY DEF Woken, TimedOut, Stuck
<1> QED  BY <1>1, <1>2, <1>3, <1>4 DEF RequestProceeds

\* flush and handleCameraDeviceError: the only state they assign is DEINIT.
LEMMA FlushSticks ==
  ASSUME NEW t \in Thread
  PROVE  FlushProceeds(t) => Stuck
<1>1. handleCameraDeviceError(t) \/ FlushBegins(t) => Stuck
  BY DEF handleCameraDeviceError, FlushBegins, Stuck
<1>2. FlushStops(t) \/ flush(t) => Stuck
  BY DEF FlushStops, flush, Stuck
<1>3. Deinit(t) => Stuck
  BY DEF Deinit, Stuck
<1> QED  BY <1>1, <1>2, <1>3 DEF FlushProceeds

\* Metadata, buffers and the daemon: they put the device into the error, and
\* never out of it.
LEMMA AnswersStick == Metadata \/ Buffers \/ Daemon => Stuck
<1>1. handleBatchMetadata => Stuck
  BY DEF handleBatchMetadata, Stuck
<1>2. ASSUME NEW drop \in SUBSET (Streams \ Blob)
      PROVE  handleMetadataWithLock(drop) => Stuck
  BY DEF handleMetadataWithLock, Stuck
<1>3. ASSUME NEW fn \in Frame
      PROVE  /\ handleInputBufferWithLock(fn) => Stuck
             /\ \A s \in Streams : handleBufferWithLock(fn, s) => Stuck
  BY DEF handleInputBufferWithLock, handleBufferWithLock, Stuck
<1>4. DaemonDied \/ DaemonPulls => Stuck
  BY DEF DaemonDied, DaemonPulls, Stuck
<1> QED  BY <1>1, <1>2, <1>3, <1>4 DEF Metadata, Buffers, Daemon

(* An error of the device is not forgotten by any step of any thread,      *)
(* except the two that assign mState after they gave up mMutex             *)
(* (QCamera3HardwareInterface::initialize and the restart of the sensor in *)
(* processCaptureRequest).  This goes by the steps alone: no invariant is  *)
(* needed.                                                                 *)
THEOREM ErrorIsNotForgotten == Spec => ErrorSticks
<1>1. [Next]_vars => Stuck
  <2>1. Next => Stuck
    BY FrameworkSticks, RequestSticks, FlushSticks, AnswersStick DEF Next
  <2>2. UNCHANGED vars => Stuck
    BY DEF vars, Stuck
  <2> QED  BY <2>1, <2>2
<1>2. [Next]_vars => [Stuck]_vars
  BY <1>1
<1> QED  BY <1>2, PTL DEF Spec, ErrorSticks, Stuck

---------------------------------------------------------------------------
(* Lists of entries with a frame number                                    *)

\* Frame numbers grow along a list.
Increasing(list) ==
    \A i, j \in DOMAIN list : i < j => list[i].fn < list[j].fn

\* A list of entries with a frame number.
Entries(S) == \A e \in S : e.fn \in Nat

\* The range of a sequence.
LEMMA InRange ==
    ASSUME NEW S, NEW s \in Seq(S)
    PROVE  /\ DOMAIN s = 1..Len(s) /\ Len(s) \in Nat
           /\ \A i \in 1..Len(s) : s[i] \in S /\ s[i] \in Range(s)
           /\ \A x \in Range(s) : x \in S /\ \E i \in 1..Len(s) : s[i] = x
  BY DEF Range

\* Appending an entry newer than all others.
LEMMA Appended ==
    ASSUME NEW S, Entries(S), NEW s \in Seq(S), Increasing(s), NEW e \in S,
           \A r \in Range(s) : r.fn < e.fn
    PROVE  /\ Append(s, e) \in Seq(S) /\ Increasing(Append(s, e))
           /\ Range(Append(s, e)) = Range(s) \cup {e}
  <1> DEFINE t == Append(s, e)
  <1>1. /\ t \in Seq(S) /\ Len(t) = Len(s) + 1 /\ t[Len(s) + 1] = e
        /\ \A i \in 1..Len(s) : t[i] = s[i]
    BY AppendProperties
  <1>2. /\ Len(s) \in Nat /\ DOMAIN s = 1..Len(s) /\ DOMAIN t = 1..(Len(s) + 1)
        /\ \A i \in 1..Len(s) : s[i] \in Range(s)
    BY <1>1, InRange
  <1> HIDE DEF t
  <1>3. Increasing(t)
    <2> SUFFICES ASSUME NEW i \in 1..(Len(s) + 1), NEW j \in 1..(Len(s) + 1),
                        i < j
                 PROVE  t[i].fn < t[j].fn
      BY <1>2 DEF Increasing
    <2>1. CASE j = Len(s) + 1
      BY <2>1, <1>1, <1>2
    <2>2. CASE j # Len(s) + 1
      BY <2>2, <1>1, <1>2 DEF Increasing
    <2> QED  BY <2>1, <2>2
  <1>4. Range(t) \subseteq Range(s) \cup {e}
    BY <1>1, <1>2 DEF Range
  <1>5. Range(s) \cup {e} \subseteq Range(t)
    <2>1. e \in Range(t)
      BY <1>1, <1>2 DEF Range
    <2>2. ASSUME NEW x \in Range(s) PROVE x \in Range(t)
      <3>1. PICK i \in 1..Len(s) : s[i] = x
        BY <1>2 DEF Range
      <3>2. i \in DOMAIN t /\ t[i] = x
        BY <3>1, <1>1, <1>2
      <3> QED  BY <3>2 DEF Range
    <2> QED  BY <2>1, <2>2
  <1> QED  BY <1>1, <1>3, <1>4, <1>5 DEF t

\* Erasing the entry at a position.
LEMMA Removed ==
    ASSUME NEW S, NEW s \in Seq(S), NEW i \in 1..Len(s)
    PROVE  /\ RemoveAt(s, i) \in Seq(S) /\ Len(RemoveAt(s, i)) = Len(s) - 1
           /\ \A j \in 1..(Len(s) - 1) :
                 RemoveAt(s, i)[j] = IF j < i THEN s[j] ELSE s[j + 1]
  <1> DEFINE p == SubSeq(s, 1, i - 1)
             q == SubSeq(s, i + 1, Len(s))
  <1>1. Len(s) \in Nat /\ i \in 1..Len(s)
    OBVIOUS
  <1>2. /\ p \in Seq(S) /\ Len(p) = i - 1
        /\ \A j \in 1..(i - 1) : p[j] = s[j]
    BY <1>1, SubSeqProperties
  <1>3. /\ q \in Seq(S) /\ Len(q) = Len(s) - i
        /\ \A j \in 1..(Len(s) - i) : q[j] = s[i + j]
    <2>1. i + 1 \in Int /\ Len(s) \in Int /\ \A k \in (i + 1)..Len(s) : s[k] \in S
      BY <1>1
    <2>2. /\ q \in Seq(S)
          /\ Len(q) = IF i + 1 <= Len(s) THEN Len(s) - (i + 1) + 1 ELSE 0
          /\ \A j \in 1..(Len(s) - (i + 1) + 1) : q[j] = s[i + 1 + j - 1]
      BY <2>1, SubSeqProperties
    <2> HIDE DEF q
    <2>3. i \in Nat /\ Len(s) \in Nat /\ Len(s) - (i + 1) + 1 = Len(s) - i
      BY <1>1
    <2>4. ASSUME NEW j \in 1..(Len(s) - i) PROVE q[j] = s[i + j]
      <3>1. q[j] = s[i + 1 + j - 1]
        BY <2>2, <2>3
      <3>2. i + 1 + j - 1 = i + j
        BY <2>3
      <3> QED  BY <3>1, <3>2
    <2>5. Len(q) = Len(s) - i
      BY <1>1, <2>2
    <2> QED  BY <2>2, <2>4, <2>5
  <1> HIDE DEF p, q
  <1>4. /\ p \o q \in Seq(S) /\ Len(p \o q) = Len(s) - 1
        /\ \A j \in 1..(Len(s) - 1) :
              (p \o q)[j] = IF j <= i - 1 THEN p[j] ELSE q[j - (i - 1)]
    <2> DEFINE t == p \o q
    <2>1. /\ t \in Seq(S) /\ Len(t) = Len(p) + Len(q)
          /\ \A j \in 1..(Len(p) + Len(q)) :
                t[j] = IF j <= Len(p) THEN p[j] ELSE q[j - Len(p)]
      BY <1>2, <1>3, ConcatProperties
    <2> HIDE DEF t
    <2>2. Len(p) + Len(q) = Len(s) - 1
      BY <1>1, <1>2, <1>3
    <2>3. /\ t \in Seq(S) /\ Len(t) = Len(s) - 1
          /\ \A j \in 1..(Len(s) - 1) :
                t[j] = IF j <= i - 1 THEN p[j] ELSE q[j - (i - 1)]
      BY <2>1, <2>2, <1>2
    <2> QED  BY <2>3 DEF t
  <1>5. \A j \in 1..(Len(s) - 1) :
            (p \o q)[j] = IF j < i THEN s[j] ELSE s[j + 1]
    <2> SUFFICES ASSUME NEW j \in 1..(Len(s) - 1)
                 PROVE  (p \o q)[j] = IF j < i THEN s[j] ELSE s[j + 1]
      OBVIOUS
    <2>1. CASE j < i
      BY <1>1, <1>2, <1>4, <2>1
    <2>2. CASE ~ (j < i)
      BY <1>1, <1>3, <1>4, <2>2
    <2> QED  BY <2>1, <2>2
  <1>6. RemoveAt(s, i) = p \o q
    BY DEF RemoveAt, p, q
  <1> QED  BY <1>4, <1>5, <1>6

\* An increasing list without the entry of a frame.
LEMMA WithoutEntry ==
    ASSUME NEW S, Entries(S), NEW s \in Seq(S), Increasing(s), NEW fn \in Nat
    PROVE  /\ Without(s, fn) \in Seq(S) /\ Increasing(Without(s, fn))
           /\ Range(Without(s, fn)) = {r \in Range(s) : r.fn # fn}
  <1>0. /\ DOMAIN s = 1..Len(s) /\ Len(s) \in Nat
        /\ \A j \in 1..Len(s) : s[j] \in S /\ s[j].fn \in Nat
    BY InRange DEF Entries
  <1>1. CASE fn \notin Numbers(s)
    BY <1>1 DEF Without, Numbers, Range
  <1>2. CASE fn \in Numbers(s)
    <2> DEFINE i == CHOOSE j \in DOMAIN s : s[j].fn = fn
               t == RemoveAt(s, i)
    <2>1. i \in 1..Len(s) /\ s[i].fn = fn
      BY <1>2, <1>0 DEF Numbers
    <2>2. Without(s, fn) = t
      BY <1>2 DEF Without
    <2> HIDE DEF i
    <2>3. /\ t \in Seq(S) /\ Len(t) = Len(s) - 1
          /\ \A j \in 1..(Len(s) - 1) : t[j] = IF j < i THEN s[j] ELSE s[j + 1]
      BY <2>1, Removed
    <2> HIDE DEF t
    <2>4. DOMAIN t = 1..(Len(s) - 1)
      BY <2>3, <1>0
    <2>5. Increasing(t)
      <3> SUFFICES ASSUME NEW j \in 1..(Len(s) - 1), NEW k \in 1..(Len(s) - 1),
                          j < k
                   PROVE  t[j].fn < t[k].fn
        BY <2>4 DEF Increasing
      <3> DEFINE a == IF j < i THEN j ELSE j + 1
                 b == IF k < i THEN k ELSE k + 1
      <3>1. a \in 1..Len(s) /\ b \in 1..Len(s) /\ a < b
        BY <2>1, <1>0
      <3>2. t[j] = s[a] /\ t[k] = s[b]
        BY <2>3
      <3> QED  BY <1>0, <3>1, <3>2 DEF Increasing
    <2>6. ASSUME NEW x \in Range(t) PROVE x \in Range(s) /\ x.fn # fn
      <3>1. PICK j \in 1..(Len(s) - 1) : t[j] = x
        BY <2>4 DEF Range
      <3> DEFINE k == IF j < i THEN j ELSE j + 1
      <3>2. k \in 1..Len(s) /\ k # i /\ s[k] = x
        BY <3>1, <2>1, <2>3, <1>0
      <3>3. s[k].fn # s[i].fn
        BY <3>2, <2>1, <1>0 DEF Increasing
      <3> QED  BY <3>2, <3>3, <2>1, <1>0 DEF Range
    <2>7. ASSUME NEW x \in Range(s), x.fn # fn PROVE x \in Range(t)
      <3>1. PICK k \in 1..Len(s) : s[k] = x
        BY <1>0 DEF Range
      <3> DEFINE j == IF k < i THEN k ELSE k - 1
      <3>2. j \in 1..(Len(s) - 1) /\ t[j] = x
        BY <3>1, <2>1, <2>3, <2>7, <1>0
      <3> QED  BY <3>2, <2>4 DEF Range
    <2> QED  BY <2>2, <2>3, <2>5, <2>6, <2>7
  <1> QED  BY <1>1, <1>2

\* A list of entries changed in place keeps its order.
LEMMA InPlace ==
    ASSUME NEW S, NEW s \in Seq(S), Increasing(s),
           NEW t \in [DOMAIN s -> S], \A i \in DOMAIN s : t[i].fn = s[i].fn
    PROVE  /\ t \in Seq(S) /\ Increasing(t)
           /\ \A r \in Range(t) : \E i \in DOMAIN s : r = t[i]
           /\ \A i \in DOMAIN s : t[i] \in Range(t)
  <1>1. DOMAIN s = 1..Len(s) /\ Len(s) \in Nat /\ DOMAIN t = DOMAIN s
    BY InRange
  <1>2. t \in Seq(S)
    BY <1>1, SeqDef
  <1>3. Increasing(t)
    BY <1>1 DEF Increasing
  <1> QED  BY <1>1, <1>2, <1>3 DEF Range

\* The first entry of a list, and the rest.
LEMMA TailOf ==
    ASSUME NEW S, Entries(S), NEW s \in Seq(S), Increasing(s), s # <<>>
    PROVE  /\ Head(s) \in S /\ Tail(s) \in Seq(S) /\ Increasing(Tail(s))
           /\ Range(s) = Range(Tail(s)) \cup {Head(s)}
           /\ \A r \in Range(Tail(s)) : Head(s).fn < r.fn
  <1> DEFINE t == Tail(s)
             h == Head(s)
  <1>1. /\ t \in Seq(S) /\ Len(t) = Len(s) - 1 /\ h = s[1] /\ 1 \in DOMAIN s
        /\ \A i \in 1..Len(t) : t[i] = s[i + 1]
        /\ DOMAIN s = 1..Len(s) /\ DOMAIN t = 1..Len(t) /\ Len(t) \in Nat
        /\ \A i \in DOMAIN s : s[i].fn \in Nat
    <2>1. t \in Seq(S) /\ Len(t) = Len(s) - 1 /\ \A i \in 1..Len(t) : t[i] = s[i + 1]
      BY HeadTailProperties
    <2>2. h = s[1]
      OBVIOUS
    <2>3. /\ DOMAIN s = 1..Len(s) /\ Len(s) \in Nat
          /\ \A i \in 1..Len(s) : s[i] \in S
      BY InRange
    <2> HIDE DEF t, h
    <2>4. Len(s) # 0
      BY EmptySeq
    <2>5. DOMAIN t = 1..Len(t) /\ Len(t) \in Nat
      BY <2>1, <2>3, <2>4
    <2> QED  BY <2>1, <2>2, <2>3, <2>4, <2>5 DEF Entries
  <1> HIDE DEF t, h
  <1>2. Increasing(t)
    <2> SUFFICES ASSUME NEW i \in 1..Len(t), NEW j \in 1..Len(t), i < j
                 PROVE  t[i].fn < t[j].fn
      BY <1>1 DEF Increasing
    <2>1. /\ i + 1 \in DOMAIN s /\ j + 1 \in DOMAIN s /\ i + 1 < j + 1
          /\ t[i] = s[i + 1] /\ t[j] = s[j + 1]
      BY <1>1
    <2> QED  BY <2>1 DEF Increasing
  <1>3. \A r \in Range(t) : r \in Range(s) /\ h.fn < r.fn
    <2> SUFFICES ASSUME NEW i \in 1..Len(t)
                 PROVE  t[i] \in Range(s) /\ h.fn < t[i].fn
      BY <1>1 DEF Range
    <2>1. i + 1 \in DOMAIN s /\ 1 < i + 1 /\ t[i] = s[i + 1]
      BY <1>1
    <2> QED  BY <1>1, <2>1 DEF Increasing, Range
  <1>4. \A x \in Range(s) : x = h \/ x \in Range(t)
    <2> SUFFICES ASSUME NEW i \in DOMAIN s PROVE s[i] = h \/ s[i] \in Range(t)
      BY DEF Range
    <2>1. CASE i = 1
      BY <1>1, <2>1
    <2>2. CASE i # 1
      <3>1. i - 1 \in 1..Len(t) /\ (i - 1) + 1 = i
        BY <1>1, <2>2
      <3>2. t[i - 1] = s[i]
        BY <1>1, <3>1
      <3> QED  BY <1>1, <3>1, <3>2 DEF Range
    <2> QED  BY <2>1, <2>2
  <1>5. h \in S /\ h \in Range(s)
    BY <1>1 DEF Range
  <1> QED  BY <1>1, <1>2, <1>3, <1>4, <1>5 DEF t, h

\* An entry of mPendingBuffersMap.
Buffer == [fn : Frame, bufs : SUBSET Streams]

\* Frames are numbers, and the entries of the map have one.
LEMMA FrameNat == Frame \subseteq Nat /\ MaxFrame \in Nat /\ Entries(Buffer)
  BY QCamera3HWIAssumption DEF Frame, Buffer, Entries

\* What is left of the map when a frame got some of its buffers.
LEMMA RemovedBufs ==
    ASSUME NEW map \in Seq(Buffer), Increasing(map), NEW fn \in Frame, NEW bufs,
           NEW t, t = removeBufs(map, fn, bufs)
    PROVE  /\ t \in Seq(Buffer) /\ Increasing(t)
           /\ \A r \in Range(t) :
                 \/ r.fn # fn /\ r \in Range(map)
                 \/ /\ r.fn = fn /\ r.bufs # {}
                    /\ \E o \in Range(map) : o.fn = fn /\ r.bufs = o.bufs \ bufs
           /\ \A o \in Range(map) :
                 /\ o.fn # fn => o \in Range(t)
                 /\ o.fn = fn /\ o.bufs \ bufs # {} =>
                       \E r \in Range(t) : r.fn = fn /\ r.bufs = o.bufs \ bufs
  <1> DEFINE left == [i \in DOMAIN map |->
                         IF map[i].fn = fn
                           THEN [map[i] EXCEPT !.bufs = @ \ bufs] ELSE map[i]]
             Empty == \E r \in Range(left) : r.fn = fn /\ r.bufs = {}
  <1>1. /\ DOMAIN map = 1..Len(map) /\ Len(map) \in Nat
        /\ \A i \in DOMAIN map : map[i] \in Buffer /\ map[i] \in Range(map)
        /\ \A x \in Range(map) : x \in Buffer /\ \E i \in DOMAIN map : map[i] = x
    BY InRange
  <1>2. \A i \in DOMAIN map :
           /\ left[i] \in Buffer /\ left[i].fn = map[i].fn
           /\ map[i].fn = fn => left[i].bufs = map[i].bufs \ bufs
           /\ map[i].fn # fn => left[i] = map[i]
    BY <1>1 DEF Buffer
  <1>3. left \in [DOMAIN map -> Buffer]
    BY <1>2
  <1>4. t = IF Empty THEN Without(left, fn) ELSE left
    BY DEF removeBufs
  <1> HIDE DEF left
  <1>5. /\ left \in Seq(Buffer) /\ Increasing(left)
        /\ \A r \in Range(left) : \E i \in DOMAIN map : r = left[i]
        /\ \A i \in DOMAIN map : left[i] \in Range(left)
    BY <1>2, <1>3, InPlace
  <1>6. CASE ~Empty
    <2>1. t = left
      BY <1>4, <1>6
    <2>2. ASSUME NEW r \in Range(t)
          PROVE  \/ r.fn # fn /\ r \in Range(map)
                 \/ /\ r.fn = fn /\ r.bufs # {}
                    /\ \E o \in Range(map) : o.fn = fn /\ r.bufs = o.bufs \ bufs
      <3>1. PICK i \in DOMAIN map : r = left[i]
        BY <2>1, <1>5
      <3> QED  BY <3>1, <1>1, <1>2, <1>6, <2>1
    <2>3. ASSUME NEW o \in Range(map)
          PROVE  /\ o.fn # fn => o \in Range(t)
                 /\ o.fn = fn => \E r \in Range(t) : r.fn = fn /\ r.bufs = o.bufs \ bufs
      <3>1. PICK i \in DOMAIN map : map[i] = o
        BY <1>1
      <3>2. left[i] \in Range(t)
        BY <1>5, <2>1
      <3> QED  BY <3>1, <3>2, <1>2
    <2> QED  BY <2>1, <2>2, <2>3, <1>5
  <1>7. CASE Empty
    <2>1. /\ t \in Seq(Buffer) /\ Increasing(t)
          /\ Range(t) = {r \in Range(left) : r.fn # fn}
      <3>1. fn \in Nat /\ Entries(Buffer)
        BY FrameNat
      <3>2. /\ Without(left, fn) \in Seq(Buffer) /\ Increasing(Without(left, fn))
            /\ Range(Without(left, fn)) = {r \in Range(left) : r.fn # fn}
        BY <3>1, <1>5, WithoutEntry
      <3> QED  BY <3>2, <1>4, <1>7, Zenon
    <2>2. ASSUME NEW r \in Range(t) PROVE r.fn # fn /\ r \in Range(map)
      <3>1. PICK i \in DOMAIN map : r = left[i]
        BY <2>1, <1>5
      <3> QED  BY <3>1, <1>1, <1>2, <2>1
    <2>3. ASSUME NEW o \in Range(map), o.fn # fn PROVE o \in Range(t)
      <3>1. PICK i \in DOMAIN map : map[i] = o
        BY <1>1
      <3>2. left[i] \in Range(left) /\ left[i] = o
        BY <1>2, <1>5, <3>1, <2>3
      <3> QED  BY <3>2, <2>1, <2>3
    <2>4. ASSUME NEW o \in Range(map), o.fn = fn PROVE o.bufs \ bufs = {}
      <3>1. PICK r \in Range(left) : r.fn = fn /\ r.bufs = {}
        BY <1>7
      <3>2. PICK i \in DOMAIN map : r = left[i]
        BY <1>5
      <3>3. PICK j \in DOMAIN map : map[j] = o
        BY <1>1
      <3>4. map[i].fn = fn /\ map[j].fn = fn
        BY <3>1, <3>2, <3>3, <2>4, <1>2
      <3>5. i = j
        BY <3>4, <1>1, FrameNat DEF Increasing, Buffer
      <3> QED  BY <3>1, <3>2, <3>3, <3>4, <3>5, <1>2
    <2> QED  BY <2>1, <2>2, <2>3, <2>4
  <1> QED  BY <1>6, <1>7

\* As many entries as frames.
LEMMA CountFrames ==
    ASSUME NEW S, Entries(S), NEW s \in Seq(S), Increasing(s), NEW T
    PROVE  LET A == {i \in DOMAIN s : s[i].fn \in T}
               B == {f \in T : \E r \in Range(s) : r.fn = f}
           IN /\ IsFiniteSet(A) /\ IsFiniteSet(B)
              /\ Cardinality(A) = Cardinality(B)
  <1> DEFINE A == {i \in DOMAIN s : s[i].fn \in T}
             B == {f \in T : \E r \in Range(s) : r.fn = f}
             g == [i \in A |-> s[i].fn]
  <1>1. /\ DOMAIN s = 1..Len(s) /\ Len(s) \in Nat
        /\ \A i \in DOMAIN s : s[i] \in Range(s) /\ s[i].fn \in Nat
        /\ \A x \in Range(s) : \E i \in DOMAIN s : s[i] = x
    BY InRange DEF Entries
  <1>2. IsFiniteSet(A)
    <2>1. IsFiniteSet(1..Len(s))
      <3>1. 1 \in Int /\ Len(s) \in Int
        BY <1>1
      <3> QED  BY <3>1, FS_Interval, Zenon
    <2>2. A \in SUBSET (1..Len(s))
      <3>1. A \subseteq DOMAIN s
        OBVIOUS
      <3> QED  BY <1>1, <3>1
    <2> QED  BY <2>1, <2>2, FS_Subset
  <1>3. \A i \in A : g[i] \in B
    BY <1>1
  <1>4. \A i, j \in A : g[i] = g[j] => i = j
    BY <1>1 DEF Increasing
  <1>5. \A f \in B : \E i \in A : g[i] = f
    BY <1>1
  <1>6. g \in Bijection(A, B)
    <2>1. g \in [A -> B]
      BY <1>3
    <2> HIDE DEF g, A, B
    <2> QED  BY <2>1, <1>4, <1>5 DEF Bijection, Injection, Surjection,
       IsInjective
  <1> HIDE DEF g, A, B
  <1>7. ExistsBijection(A, B)
    BY <1>6 DEF ExistsBijection
  <1>8. IsFiniteSet(B) /\ Cardinality(A) = Cardinality(B)
    BY <1>2, <1>7, FS_Bijection
  <1> QED  BY <1>2, <1>8 DEF A, B

\* An increasing list has as many entries as it has numbers.
LEMMA CountNumbers ==
    ASSUME NEW S, Entries(S), NEW s \in Seq(S), Increasing(s)
    PROVE  IsFiniteSet(Numbers(s)) /\ Cardinality(Numbers(s)) = Len(s)
  <1> DEFINE A == {i \in DOMAIN s : s[i].fn \in Numbers(s)}
             B == {f \in Numbers(s) : \E r \in Range(s) : r.fn = f}
  <1>1. /\ IsFiniteSet(B) /\ Cardinality(A) = Cardinality(B)
    BY CountFrames
  <1>2. DOMAIN s = 1..Len(s) /\ Len(s) \in Nat /\ \A i \in DOMAIN s : s[i] \in Range(s)
    BY InRange
  <1>3. A = 1..Len(s) /\ B = Numbers(s)
    BY <1>2 DEF Numbers
  <1>4. Cardinality(1..Len(s)) = Len(s)
    BY <1>2, FS_Interval
  <1> QED  BY <1>1, <1>3, <1>4

---------------------------------------------------------------------------
(* The inductive invariant, and the steps that leave the lists alone       *)

\* The places of the two threads.
RequestPc == {"out", "initialized", "configure", "error", "sensor", "resume",
              "register", "wait", "flush", "stop", "notify", "deinit"}
FlushPc == {"out", "error", "flush", "stop", "notify", "deinit"}

\* An entry of mPendingRequestsList.
Request == [fn : Frame, input : BOOLEAN, bufs : SUBSET Streams,
            cached : SUBSET Streams]

\* The request of a sensor restart has its number but is in no list yet.
Restarting == thread["request"].pc \in {"sensor", "resume", "register"}
\* A thread is about to clear the lists.
Clearing == \/ \E t \in Thread : thread[t].pc = "notify"
            \/ thread["request"].pc \in {"resume", "configure"}
\* The first number that no list has seen.
Unseen == IF Restarting THEN nextFrame - 1 ELSE nextFrame

\* The requests that are pending, the buffers the framework waits for: those
\* in the map, and those the sensor restart has taken out to answer them.
Pending == Range(mPendingRequestsList)
Owed == Range(mPendingBuffersMap) \cup walk.hand

\* The types, one part for each group of variables.
TypedState ==
    /\ env \in Scenarios
    /\ mState \in State /\ mFlush \in BOOLEAN
    /\ mPendingLiveRequest \in Int
    /\ mWokenUpByDaemon \in BOOLEAN /\ streaming \in BOOLEAN
    /\ signalled \in BOOLEAN
    /\ nextFrame \in 1..(MaxFrame + 1)

TypedLists ==
    /\ mPendingRequestsList \in Seq(Request)
    /\ mPendingBuffersMap \in Seq(Buffer)
    /\ mPendingFrameDropList \subseteq Frame \X Streams

TypedBatch ==
    /\ mPendingBatchMap \subseteq Frame \X Frame
    /\ batch \in [size : BatchSizes \cup {0}, queued : Nat,
                  first : Frame \cup {0}]
    /\ batch.queued > 0 => batch.first \in Frame

TypedDue ==
    /\ due \in [meta : Seq(Frame),
                bufs : SUBSET (Frame \X (Streams \cup {"input"})),
                held : SUBSET (Frame \X Streams)]
    /\ metaCb \in Seq(Frame)

TypedThreads ==
    /\ thread \in [Thread -> [pc : RequestPc, restart : BOOLEAN,
                              req : [fn : Frame \cup {0},
                                     bufs : SUBSET Streams,
                                     input : BOOLEAN]]]
    /\ thread["flush"].pc \in FlushPc

TypedLedger ==
    /\ asked \in [Frame -> SUBSET Streams]
    /\ accepted \subseteq Frame /\ sent \subseteq Frame
    /\ shutter \in [Frame -> Nat] /\ final \in [Frame -> Nat]
    /\ back \in [Frame -> [Streams -> Nat]]

Typed == /\ TypedState /\ TypedLists /\ TypedBatch /\ TypedDue
         /\ TypedThreads /\ TypedLedger

\* Where the two threads are, and what that says of the rest.
Places ==
    /\ ~thread["request"].restart
    /\ Restarting => LET r == thread["request"].req
                     IN /\ r.fn = nextFrame - 1 /\ r.fn \in Frame
                        /\ r.bufs # {} /\ ~r.input
    /\ Clearing => due = NothingDue /\ metaCb = <<>>
    /\ thread["flush"].pc \in {"stop", "notify"} =>
          \/ mFlush \/ thread["request"].pc = "deinit"
          \/ /\ mState \in {"ERROR", "DEINIT"}
             /\ thread["request"].pc # "initialized" /\ ~Restarting
    /\ thread["request"].pc = "configure" => \A f \in accepted : Done(f)

\* Nothing is known of a frame that was not asked for.
Fresh ==
    \A f \in Frame : f >= Unseen =>
        /\ asked[f] = {} /\ f \notin accepted /\ f \notin sent
        /\ shutter[f] = 0 /\ final[f] = 0
        /\ \A s \in Streams : back[f][s] = 0
        /\ \A r \in Pending : r.fn # f
        /\ \A r \in Owed : r.fn # f
        /\ \A x \in due.bufs \cup due.held : x[1] # f
        /\ \A i \in DOMAIN due.meta : due.meta[i] # f
        /\ \A i \in DOMAIN metaCb : metaCb[i] # f
        /\ \A e \in mPendingBatchMap : e[1] # f

\* The two lists: a pending request has all its buffers in the map, and what
\* is in the map was not given back.
Lists ==
    /\ Increasing(mPendingRequestsList) /\ Increasing(mPendingBuffersMap)
    /\ \A q \in Pending :
          /\ q.bufs = asked[q.fn] /\ q.cached \subseteq q.bufs
          /\ final[q.fn] = 0 /\ shutter[q.fn] = 0
          /\ \E r \in Owed : r.fn = q.fn /\ r.bufs = q.bufs
          /\ q.input => env.reprocess
    /\ \A r \in Owed :
          /\ r.bufs # {} /\ r.bufs \subseteq asked[r.fn]
          /\ \A s \in r.bufs : back[r.fn][s] = 0

\* Without reprocessing the oldest requests end first.
Ordered ==
    ~env.reprocess =>
        \A r \in Owed, q \in Pending :
           r.fn < q.fn \/ \E p \in Pending : p.fn = r.fn

\* A buffer that is due is in the map, and did not arrive before.
Dues ==
    /\ due.bufs \cap due.held = {}
    /\ \A x \in due.bufs \cup due.held : x[2] \in Streams =>
          /\ \E r \in Owed : r.fn = x[1] /\ x[2] \in r.bufs
          /\ \A q \in Pending : q.fn = x[1] => x[2] \notin q.cached

\* The inductive invariant: the books of the HAL.
Base == Typed /\ Places /\ Fresh /\ Lists /\ Ordered /\ Dues

\* The restart of the sensor: it goes through the map from the oldest entry to
\* the newest; what it reads as the first number stays the oldest pending one,
\* and without reprocessing the entries from there on are those of the pending
\* requests.
Walks ==
    /\ walk \in [on : BOOLEAN, first : Nat, hand : SUBSET Buffer]
    /\ ~walk.on => walk.hand = {}
    /\ walk.on =>
          /\ thread["request"].pc = "resume"
          /\ \A q \in Pending : walk.first <= q.fn
          /\ \/ walk.hand = {}
             \/ \E e \in Buffer :
                   /\ walk.hand = {e}
                   /\ \A r \in Range(mPendingBuffersMap) : e.fn < r.fn
          /\ ~env.reprocess =>
                \A r \in Owed :
                   walk.first <= r.fn => \E p \in Pending : p.fn = r.fn

\* The books hold until a flush has walked the lists beside the restart.
Books == raced \/ (Base /\ Walks)

\* A step outside the restart's loop.
Idle == walk.hand = {} /\ walk'.hand = {}

LEMMA IdleOwed ==
    ASSUME Idle
    PROVE  Owed = Range(mPendingBuffersMap) /\ Owed' = Range(mPendingBuffersMap')
  BY DEF Idle, Owed

\* A step that touches the lists in nothing, and adds nothing to what is due.
Quiet ==
    /\ UNCHANGED <<env, mPendingRequestsList, mPendingBuffersMap, metaCb,
                   mPendingBatchMap, asked, sent, shutter, final, back>>
    /\ due' \in {due, NothingDue}
    /\ accepted' \subseteq accepted
    /\ Unseen' >= Unseen

\* Such a step keeps what is said of the lists.
LEMMA QuietBooks ==
    ASSUME Base, Quiet, TypedThreads', TypedState', walk'.hand = walk.hand
    PROVE  Fresh' /\ Lists' /\ Ordered' /\ Dues'
  <1>1. Unseen \in Int /\ Unseen' \in Int
    BY DEF Base, Typed, TypedState, Unseen
  <1>2. \/ due' = due
        \/ due'.bufs = {} /\ due'.held = {} /\ due'.meta = <<>>
    BY DEF Quiet, NothingDue
  <1>3. Fresh'
    <2>1. CASE due' = due
      BY <1>1, <2>1, FrameNat DEF Base, Quiet, Fresh, Pending, Owed
    <2>2. CASE due'.bufs = {} /\ due'.held = {} /\ due'.meta = <<>>
      <3>1. due'.bufs \cup due'.held = {} /\ DOMAIN due'.meta = {}
        BY <2>2
      <3> QED  BY <1>1, <3>1, FrameNat DEF Base, Quiet, Fresh, Pending, Owed
    <2> QED  BY <1>2, <2>1, <2>2
  <1>4. Lists' /\ Ordered'
    BY DEF Base, Quiet, Lists, Ordered, Pending, Owed, Increasing
  <1>5. Dues'
    <2>1. CASE due' = due
      BY <2>1 DEF Base, Quiet, Dues, Pending, Owed
    <2>2. CASE due'.bufs = {} /\ due'.held = {} /\ due'.meta = <<>>
      BY <2>2 DEF Base, Quiet, Dues
    <2> QED  BY <1>2, <2>1, <2>2
  <1> QED  BY <1>3, <1>4, <1>5

\* A thread goes on, or leaves.
LEMMA GoesTyped ==
    ASSUME TypedThreads, NEW t \in Thread, NEW pc \in RequestPc,
           t = "flush" => pc \in FlushPc, Goes(t, pc)
    PROVE  /\ TypedThreads'
           /\ thread'[t].pc = pc /\ thread'[t].restart = thread[t].restart
           /\ thread'[t].req = thread[t].req
           /\ \A u \in Thread : u # t => thread'[u] = thread[u]
  BY DEF TypedThreads, Goes, Thread

\* A thread leaves the HAL: its place is cleared.
LEMMA LeavesTyped ==
    ASSUME TypedThreads, NEW t \in Thread, Leaves(t)
    PROVE  /\ TypedThreads'
           /\ thread'[t].pc = "out" /\ ~thread'[t].restart
           /\ \A u \in Thread : u # t => thread'[u] = thread[u]
  BY DEF TypedThreads, Leaves, Thread, Out, NoRequest, RequestPc, FlushPc

\* A request takes the next number.
LEMMA AskingNext ==
    ASSUME Typed, MayAsk
    PROVE  /\ nextFrame \in Frame /\ nextFrame' = nextFrame + 1
           /\ nextFrame' \in 1..(MaxFrame + 1)
           /\ thread["request"].pc = "out" /\ ~Restarting
  <1>1. env.frames \in 0..MaxFrame /\ MaxFrame \in Nat
    BY QCamera3HWIAssumption DEF Typed, TypedState
  <1> QED  BY <1>1 DEF Typed, TypedState, MayAsk, Frame, Restarting

\* A call that is refused, fails early, or only changes the state.
LEMMA openCameraStep ==
    ASSUME Base, UNCHANGED env, openCamera
    PROVE  Typed' /\ Places' /\ Quiet
  <1> USE DEF Base, openCamera, lists, batching, outside, ledger, told
  <1>1. TypedState' /\ TypedLists' /\ TypedBatch' /\ TypedDue'
    BY DEF Typed, TypedState, TypedLists, TypedBatch, TypedDue, State
  <1>2. TypedThreads' /\ TypedLedger'
    BY DEF Typed, TypedThreads, TypedLedger
  <1>3. Quiet
    BY DEF Typed, TypedState, Quiet, Unseen, Restarting
  <1>4. Places'
    BY DEF Places, Restarting, Clearing, Done, Typed, TypedThreads, Thread
  <1> QED  BY <1>1, <1>2, <1>3, <1>4 DEF Typed

\* initialize: the lock is given up before the state is assigned.
LEMMA initializeStep ==
    ASSUME Base, UNCHANGED env, initialize
    PROVE  Typed' /\ Places' /\ Quiet
  <1> USE DEF lists, batching, outside, ledger, told
  <1>0. Typed /\ Places
    BY DEF Base
  <1>1. /\ TypedThreads'
        /\ thread'["request"].pc = "initialized" /\ thread'["request"].restart = thread["request"].restart
        /\ thread'["request"].req = thread["request"].req
        /\ \A u \in Thread : u # "request" => thread'[u] = thread[u]
    BY <1>0, GoesTyped DEF Typed, Thread, RequestPc, FlushPc, initialize
  <1>2. TypedState'
    BY <1>0 DEF Typed, TypedState, State, initialize
  <1>3. TypedLists' /\ TypedBatch' /\ TypedDue' /\ TypedLedger'
    BY <1>0 DEF Typed, TypedLists, TypedBatch, TypedDue, TypedLedger,
       initialize
  <1>4. Quiet
    BY <1>0, <1>1 DEF Typed, TypedState, Quiet, Unseen, Restarting, Thread,
       initialize
  <1>5. Places'
    BY <1>0, <1>1 DEF Places, Restarting, Clearing, Done, Thread, initialize
  <1> QED  BY <1>1, <1>2, <1>3, <1>4, <1>5 DEF Typed

\* The rest of initialize.
LEMMA InitializedStep ==
    ASSUME Base, UNCHANGED env, Initialized
    PROVE  Typed' /\ Places' /\ Quiet
  <1> USE DEF lists, batching, outside, ledger, told
  <1>0. Typed /\ Places
    BY DEF Base
  <1>1. /\ TypedThreads'
        /\ thread'["request"].pc = "out" /\ ~thread'["request"].restart
        /\ \A u \in Thread : u # "request" => thread'[u] = thread[u]
    BY <1>0, LeavesTyped DEF Typed, Thread, Initialized
  <1>2. TypedState'
    BY <1>0 DEF Typed, TypedState, State, Initialized
  <1>3. TypedLists' /\ TypedBatch' /\ TypedDue' /\ TypedLedger'
    BY <1>0 DEF Typed, TypedLists, TypedBatch, TypedDue, TypedLedger,
       Initialized
  <1>4. Quiet
    BY <1>0, <1>1 DEF Typed, TypedState, Quiet, Unseen, Restarting, Thread,
       Initialized
  <1>5. Places'
    BY <1>0, <1>1 DEF Places, Restarting, Clearing, Done, Thread, Initialized
  <1> QED  BY <1>1, <1>2, <1>3, <1>4, <1>5 DEF Typed

\* The state a request finds, or sets up first.
LEMMA SetupTyped ==
    ASSUME Typed, NEW size \in BatchSizes \cup {0}
    PROVE  LET u == Setup(size)
           IN /\ u.live \in Int /\ u.woken \in BOOLEAN /\ u.streaming \in BOOLEAN
              /\ u.batch \in [size : BatchSizes \cup {0}, queued : Nat,
                              first : Frame \cup {0}]
              /\ u.batch.queued > 0 => u.batch.first \in Frame
              /\ mState = "CONFIGURED" => u.live = 0 /\ u.batch.size = size
              /\ mState # "CONFIGURED" =>
                    u.live = mPendingLiveRequest /\ u.batch = batch
  <1>1. CASE mState = "CONFIGURED"
    <2>1. Setup(size) = [live |-> 0, woken |-> FALSE, streaming |-> TRUE,
                         batch |-> [batch EXCEPT !.size = size]]
      BY <1>1 DEF Setup
    <2> QED  BY <1>1, <2>1 DEF Typed, TypedBatch
  <1>2. CASE mState # "CONFIGURED"
    <2>1. Setup(size) = [live |-> mPendingLiveRequest, woken |-> mWokenUpByDaemon,
                         streaming |-> streaming, batch |-> batch]
      BY <1>2 DEF Setup
    <2> QED  BY <1>2, <2>1 DEF Typed, TypedBatch, TypedState
  <1> QED  BY <1>1, <1>2

\* A request fails before it enters the lists.
LEMMA FailsStep ==
    ASSUME Base, UNCHANGED env, SetupFails \/ SettingsFail
    PROVE  Typed' /\ Places' /\ Quiet
  <1> USE DEF lists, batching, outside, ledger, told
  <1>0. Typed /\ Places
    BY DEF Base
  <1>1. /\ nextFrame \in Frame /\ nextFrame' = nextFrame + 1
        /\ nextFrame' \in 1..(MaxFrame + 1)
        /\ thread["request"].pc = "out" /\ ~Restarting
    BY <1>0, AskingNext DEF SetupFails, SettingsFail
  <1>2. /\ UNCHANGED <<mState, mFlush, mPendingRequestsList, mPendingBuffersMap,
                       mPendingFrameDropList, mPendingBatchMap, batch, due,
                       metaCb, thread, signalled, asked, accepted, sent,
                       shutter, final, back>>
    BY DEF SetupFails, SettingsFail
  <1>3. /\ mPendingLiveRequest' \in Int /\ mWokenUpByDaemon' \in BOOLEAN
        /\ streaming' \in BOOLEAN
    <2>1. CASE SetupFails
      BY <1>0, <2>1 DEF SetupFails, Typed, TypedState
    <2>2. CASE SettingsFail
      <3>1. batch.size \in BatchSizes \cup {0}
        BY <1>0 DEF Typed, TypedBatch
      <3> QED  BY <1>0, <2>2, <3>1, SetupTyped DEF SettingsFail
    <2> QED  BY <2>1, <2>2
  <1>4. Typed'
    BY <1>0, <1>1, <1>2, <1>3 DEF Typed, TypedState, TypedLists, TypedBatch,
       TypedDue, TypedThreads, TypedLedger
  <1>5. Quiet
    BY <1>1, <1>2, FrameNat DEF Quiet, Unseen, Restarting
  <1>6. Places'
    BY <1>0, <1>1, <1>2 DEF Places, Restarting, Clearing, Done
  <1> QED  BY <1>4, <1>5, <1>6

\* The daemon dies, or pulls.
LEMMA DaemonStep ==
    ASSUME Base, UNCHANGED env, DaemonDied \/ DaemonPulls
    PROVE  Typed' /\ Places' /\ Quiet
  <1> USE DEF lists, batching, outside, ledger, told
  <1>0. Typed /\ Places
    BY DEF Base
  <1>1. TypedThreads' /\ thread' = thread
    BY <1>0 DEF Typed, TypedThreads, DaemonDied, DaemonPulls
  <1>2. TypedState'
    BY <1>0 DEF Typed, TypedState, State, DaemonDied, DaemonPulls,
       unblockRequestIfNecessary
  <1>3. TypedLists' /\ TypedBatch' /\ TypedDue' /\ TypedLedger'
    BY <1>0 DEF Typed, TypedLists, TypedBatch, TypedDue, TypedLedger,
       DaemonDied, DaemonPulls, unblockRequestIfNecessary
  <1>4. Quiet
    BY <1>0, <1>1 DEF Typed, TypedState, Quiet, Unseen, Restarting, Thread,
       DaemonDied, DaemonPulls, unblockRequestIfNecessary
  <1>5. Places'
    BY <1>0, <1>1 DEF Places, Restarting, Clearing, Done, Thread, DaemonDied,
       DaemonPulls, unblockRequestIfNecessary
  <1> QED  BY <1>1, <1>2, <1>3, <1>4, <1>5 DEF Typed

\* A request is refused in an error.
LEMMA RequestRefusedStep ==
    ASSUME Base, UNCHANGED env, RequestRefused
    PROVE  Typed' /\ Places' /\ Quiet
  <1> USE DEF lists, batching, outside, ledger, told
  <1>0. Typed /\ Places
    BY DEF Base
  <1>a. /\ nextFrame \in Frame /\ nextFrame' = nextFrame + 1
        /\ nextFrame' \in 1..(MaxFrame + 1)
        /\ thread["request"].pc = "out" /\ ~Restarting
    BY <1>0, AskingNext DEF RequestRefused
  <1>1. UNCHANGED <<mPendingRequestsList, mPendingBuffersMap, mPendingFrameDropList,
                 mPendingBatchMap, batch, due, metaCb, asked, sent, shutter,
                 final, back, accepted,
                 mState, mFlush, mPendingLiveRequest, mWokenUpByDaemon, streaming,
                 signalled>>
    BY DEF RequestRefused
  <1>2. /\ TypedThreads' /\ ~thread'["request"].restart
        /\ thread'["request"].pc \in {"error", "out"}
        /\ thread'["flush"] = thread["flush"]
    <2>1. CASE mState = "ERROR"
      BY <1>0, <2>1, GoesTyped DEF Typed, Places, Thread, RequestPc,
         RequestRefused
    <2>2. CASE mState # "ERROR"
      BY <1>0, <1>a, <2>2 DEF Typed, Places, TypedThreads, RequestRefused
    <2> QED  BY <2>1, <2>2
  <1>3. /\ mState \in {"ERROR", "DEINIT"}
    BY DEF RequestRefused
  <1>4. Typed'
    BY <1>0, <1>1, <1>2, <1>3, <1>a DEF Typed, TypedState, TypedLists,
       TypedBatch,
       TypedDue, TypedLedger, State
  <1>5. Quiet
    BY <1>0, <1>1, <1>2, <1>3, <1>a, FrameNat DEF Quiet, Unseen, Restarting,
       Typed, TypedState, Thread
  <1>6. Places'
    BY <1>0, <1>1, <1>2, <1>3, <1>a DEF Places, Restarting, Clearing, Done,
       Thread
  <1> QED  BY <1>4, <1>5, <1>6

\* The end of the wait for requests in flight.
LEMMA WaitStep ==
    ASSUME Base, UNCHANGED env, Woken \/ TimedOut
    PROVE  Typed' /\ Places' /\ Quiet
  <1> USE DEF lists, batching, outside, ledger, told
  <1>0. Typed /\ Places
    BY DEF Base
  <1>1. UNCHANGED <<mPendingRequestsList, mPendingBuffersMap, mPendingFrameDropList,
                 mPendingBatchMap, batch, due, metaCb, asked, sent, shutter,
                 final, back,
                 mState, mFlush, mPendingLiveRequest, streaming, nextFrame>>
    BY DEF Woken, TimedOut
  <1>2. /\ TypedThreads' /\ ~thread'["request"].restart
        /\ thread'["request"].pc \in {"wait", "out"}
        /\ thread'["flush"] = thread["flush"] /\ thread["request"].pc = "wait"
    <2>1. thread["request"].pc = "wait" /\ (Leaves("request") \/ UNCHANGED thread)
      BY DEF Woken, TimedOut
    <2>2. CASE Leaves("request")
      BY <1>0, <2>1, <2>2, LeavesTyped DEF Typed, Thread
    <2>3. CASE UNCHANGED thread
      BY <1>0, <2>1, <2>3 DEF Typed, Places, TypedThreads
    <2> QED  BY <2>1, <2>2, <2>3
  <1>3. /\ mWokenUpByDaemon' \in BOOLEAN /\ signalled' \in BOOLEAN
        /\ accepted' \subseteq accepted
    BY <1>0 DEF Woken, TimedOut, Typed, TypedState
  <1>4. Typed'
    BY <1>0, <1>1, <1>2, <1>3 DEF Typed, TypedState, TypedLists, TypedBatch,
       TypedDue, TypedLedger, State
  <1>5. Quiet
    BY <1>0, <1>1, <1>2, <1>3, FrameNat DEF Quiet, Unseen, Restarting, Typed,
       TypedState, Thread
  <1>6. Places'
    BY <1>0, <1>1, <1>2, <1>3 DEF Places, Restarting, Clearing, Done, Thread
  <1> QED  BY <1>4, <1>5, <1>6

\* The entry of the device operation flush.
LEMMA FlushCalledStep ==
    ASSUME Base, UNCHANGED env, FlushCalled
    PROVE  Typed' /\ Places' /\ Quiet
  <1> USE DEF lists, batching, outside, ledger, told
  <1>0. Typed /\ Places
    BY DEF Base
  <1>1. UNCHANGED <<mPendingRequestsList, mPendingBuffersMap, mPendingFrameDropList,
                 mPendingBatchMap, batch, due, metaCb, asked, sent, shutter,
                 final, back, accepted,
                 mState, mFlush, mPendingLiveRequest, streaming, nextFrame,
                 mWokenUpByDaemon, signalled>>
    BY DEF FlushCalled, Goes
  <1>2. /\ TypedThreads' /\ thread'["flush"].pc \in {"flush", "error"}
        /\ thread'["request"] = thread["request"]
    <2>1. CASE Goes("flush", "error")
      BY <1>0, <2>1, GoesTyped DEF Typed, Thread, RequestPc, FlushPc
    <2>2. CASE thread' = [thread EXCEPT !["flush"].pc = "flush",
                                         !["flush"].restart = TRUE]
      BY <1>0, <2>2 DEF Typed, TypedThreads, Thread, RequestPc, FlushPc
    <2> QED  BY <2>1, <2>2 DEF FlushCalled
  <1>4. Typed'
    BY <1>0, <1>1, <1>2 DEF Typed, TypedState, TypedLists, TypedBatch,
       TypedDue, TypedLedger, State
  <1>5. Quiet
    BY <1>0, <1>1, <1>2, FrameNat DEF Quiet, Unseen, Restarting, Typed,
       TypedState, Thread
  <1>6. Places'
    BY <1>0, <1>1, <1>2 DEF Places, Restarting, Clearing, Done, Thread
  <1> QED  BY <1>4, <1>5, <1>6

\* handleCameraDeviceError rereads the state.
LEMMA handleCameraDeviceErrorStep ==
    ASSUME Base, UNCHANGED env, NEW t \in Thread, handleCameraDeviceError(t)
    PROVE  Typed' /\ Places' /\ Quiet
  <1> USE DEF lists, batching, outside, ledger, told
  <1>0. Typed /\ Places
    BY DEF Base
  <1>1. UNCHANGED <<mPendingRequestsList, mPendingBuffersMap, mPendingFrameDropList,
                 mPendingBatchMap, batch, due, metaCb, asked, sent, shutter,
                 final, back, accepted,
                 mState, mFlush, mPendingLiveRequest, streaming, nextFrame,
                 mWokenUpByDaemon, signalled>>
    BY DEF handleCameraDeviceError
  <1>2. /\ TypedThreads' /\ thread'[t].pc \in {"flush", "out"}
        /\ t = "request" => ~thread'[t].restart
        /\ thread[t].pc = "error"
        /\ \A u \in Thread : u # t => thread'[u] = thread[u]
    <2>1. CASE mState = "ERROR"
      BY <1>0, <2>1, GoesTyped DEF Typed, Places, RequestPc, FlushPc,
         handleCameraDeviceError
    <2>2. CASE mState # "ERROR"
      BY <1>0, <2>2, LeavesTyped DEF Typed, handleCameraDeviceError
    <2> QED  BY <2>1, <2>2 DEF handleCameraDeviceError
  <1>4. Typed'
    BY <1>0, <1>1, <1>2 DEF Typed, TypedState, TypedLists, TypedBatch,
       TypedDue, TypedLedger, State
  <1>5. Quiet
    BY <1>0, <1>1, <1>2, FrameNat DEF Quiet, Unseen, Restarting, Typed,
       TypedState, Thread
  <1>6. Places'
    BY <1>0, <1>1, <1>2 DEF Places, Restarting, Clearing, Done, Thread
  <1> QED  BY <1>4, <1>5, <1>6

\* flush sets mFlush.
LEMMA FlushBeginsStep ==
    ASSUME Base, UNCHANGED env, NEW t \in Thread, FlushBegins(t)
    PROVE  Typed' /\ Places' /\ Quiet
  <1> USE DEF lists, batching, outside, ledger, told
  <1>0. Typed /\ Places
    BY DEF Base
  <1>1. UNCHANGED <<mPendingRequestsList, mPendingBuffersMap, mPendingFrameDropList,
                 mPendingBatchMap, batch, due, metaCb, asked, sent, shutter,
                 final, back, accepted,
                 mState, mPendingLiveRequest, streaming, nextFrame,
                 mWokenUpByDaemon, signalled>>
    BY DEF FlushBegins
  <1>2. /\ TypedThreads' /\ thread'[t].pc = "stop"
        /\ t = "request" => ~thread'[t].restart
        /\ thread[t].pc = "flush"
        /\ \A u \in Thread : u # t => thread'[u] = thread[u]
    BY <1>0, GoesTyped DEF Typed, Places, RequestPc, FlushPc, FlushBegins
  <1>3. mFlush'
    BY DEF FlushBegins
  <1>4. Typed'
    BY <1>0, <1>1, <1>2, <1>3 DEF Typed, TypedState, TypedLists, TypedBatch,
       TypedDue, TypedLedger, State
  <1>5. Quiet
    BY <1>0, <1>1, <1>2, <1>3, FrameNat DEF Quiet, Unseen, Restarting, Typed,
       TypedState, Thread
  <1>6. Places'
    BY <1>0, <1>1, <1>2, <1>3 DEF Places, Restarting, Clearing, Done, Thread
  <1> QED  BY <1>4, <1>5, <1>6

\* The end of handleCameraDeviceError.
LEMMA DeinitStep ==
    ASSUME Base, UNCHANGED env, NEW t \in Thread, Deinit(t)
    PROVE  Typed' /\ Places' /\ Quiet
  <1> USE DEF lists, batching, outside, ledger, told
  <1>0. Typed /\ Places
    BY DEF Base
  <1>1. UNCHANGED <<mPendingRequestsList, mPendingBuffersMap, mPendingFrameDropList,
                 mPendingBatchMap, batch, due, metaCb, asked, sent, shutter,
                 final, back, accepted,
                 mFlush, mPendingLiveRequest, streaming, nextFrame,
                 mWokenUpByDaemon, signalled>>
    BY DEF Deinit
  <1>2. /\ TypedThreads' /\ thread'[t].pc = "out" /\ ~thread'[t].restart
        /\ thread[t].pc = "deinit"
        /\ \A u \in Thread : u # t => thread'[u] = thread[u]
    BY <1>0, LeavesTyped DEF Typed, Deinit
  <1>3. mState' = "DEINIT"
    BY DEF Deinit
  <1>4. Typed'
    BY <1>0, <1>1, <1>2, <1>3 DEF Typed, TypedState, TypedLists, TypedBatch,
       TypedDue, TypedLedger, State
  <1>5. Quiet
    BY <1>0, <1>1, <1>2, <1>3, FrameNat DEF Quiet, Unseen, Restarting, Typed,
       TypedState, Thread
  <1>6. Places'
    BY <1>0, <1>1, <1>2, <1>3 DEF Places, Restarting, Clearing, Done, Thread
  <1> QED  BY <1>4, <1>5, <1>6

\* What is asked for in high speed mode is no reprocessing.
LEMMA RequestsTyped ==
    ASSUME Typed, nextFrame \in Frame, NEW size, NEW r \in Requests(size)
    PROVE  /\ r \in [fn : Frame \cup {0}, bufs : SUBSET Streams, input : BOOLEAN]
           /\ r.fn = nextFrame /\ r.bufs # {} /\ r.input \in BOOLEAN
           /\ r.input => env.reprocess /\ size = 0
  BY DEF Requests

\* A request that restarts the sensor has its number, and is in no list.
LEMMA SensorRestartStep ==
    ASSUME Base, UNCHANGED env, SensorRestart
    PROVE  Typed' /\ Places' /\ Quiet
  <1> USE DEF lists, batching, outside, ledger, told
  <1>0. Typed /\ Places
    BY DEF Base
  <1>a. /\ nextFrame \in Frame /\ nextFrame' = nextFrame + 1
        /\ nextFrame' \in 1..(MaxFrame + 1)
        /\ thread["request"].pc = "out" /\ ~Restarting
    BY <1>0, AskingNext DEF SensorRestart
  <1>1. UNCHANGED <<mPendingRequestsList, mPendingBuffersMap,
                    mPendingFrameDropList, mPendingBatchMap, batch, due,
                    metaCb, asked, sent, shutter, final, back, accepted,
                    mState, mFlush, mPendingLiveRequest, streaming,
                    mWokenUpByDaemon, signalled>>
    BY DEF SensorRestart
  <1>b. PICK r \in Requests(batch.size) :
            thread' = [thread EXCEPT !["request"] =
                          [@ EXCEPT !.pc = "sensor", !.req = r]]
    BY DEF SensorRestart
  <1>c. batch.size # 0
    BY <1>0 DEF SensorRestart
  <1>d. /\ r \in [fn : Frame \cup {0}, bufs : SUBSET Streams, input : BOOLEAN]
        /\ r.fn = nextFrame /\ r.bufs # {} /\ ~r.input
    BY <1>0, <1>a, <1>c, RequestsTyped
  <1>2. /\ TypedThreads' /\ ~thread'["request"].restart
        /\ thread'["request"].pc = "sensor" /\ thread'["request"].req = r
        /\ thread'["flush"] = thread["flush"]
    BY <1>0, <1>b, <1>d DEF Typed, TypedThreads, Places, Thread, RequestPc
  <1>4. Typed'
    BY <1>0, <1>1, <1>2, <1>a DEF Typed, TypedState, TypedLists, TypedBatch,
       TypedDue, TypedLedger
  <1>5. Quiet
    BY <1>0, <1>1, <1>2, <1>a, FrameNat DEF Quiet, Unseen, Restarting
  <1>6. Places'
    <2>1. Restarting'
      BY <1>2 DEF Restarting
    <2>2. Clearing' => Clearing
      BY <1>2 DEF Clearing, Thread
    <2>3. mState = "STARTED"
      BY DEF SensorRestart
    <2> QED  BY <1>0, <1>1, <1>2, <1>a, <1>d, <2>1, <2>2, <2>3,
       FrameNat DEF Places, Restarting, Done
  <1> QED  BY <1>4, <1>5, <1>6

\* configureStreams: the channels are stopped, nothing is due any more.
LEMMA configureStreamsStep ==
    ASSUME Base, UNCHANGED env, configureStreams
    PROVE  Typed' /\ Places' /\ Quiet
  <1> USE DEF lists, batching, outside, ledger, told
  <1>0. Typed /\ Places
    BY DEF Base
  <1>1. /\ UNCHANGED <<mPendingRequestsList, mPendingBuffersMap,
                       mPendingFrameDropList, mPendingBatchMap, batch,
                       metaCb, asked, sent, shutter, final, back, accepted,
                       mState, mFlush, mPendingLiveRequest, nextFrame,
                       mWokenUpByDaemon, signalled>>
        /\ metaCb = <<>> /\ due' = NothingDue /\ streaming' = FALSE
    BY DEF configureStreams, stopAllChannels
  <1>2. /\ TypedThreads' /\ ~thread'["request"].restart
        /\ thread'["request"].pc = "configure" /\ thread["request"].pc = "out"
        /\ thread'["flush"] = thread["flush"]
    BY <1>0, GoesTyped DEF Typed, Places, Thread, RequestPc, configureStreams
  <1>3. NothingDue \in [meta : Seq(Frame),
                       bufs : SUBSET (Frame \X (Streams \cup {"input"})),
                       held : SUBSET (Frame \X Streams)]
    BY DEF NothingDue
  <1>4. Typed'
    BY <1>0, <1>1, <1>2, <1>3 DEF Typed, TypedState, TypedLists, TypedBatch,
       TypedDue, TypedLedger
  <1>5. Quiet
    BY <1>0, <1>1, <1>2, FrameNat DEF Quiet, Unseen, Restarting, Typed,
       TypedState, Thread
  <1>6. Places'
    BY <1>0, <1>1, <1>2 DEF Places, Restarting, Clearing, Done, Thread,
       configureStreams
  <1> QED  BY <1>4, <1>5, <1>6

\* The sensor restart stops the channels.
LEMMA SensorStopsStep ==
    ASSUME Base, UNCHANGED env, SensorStops
    PROVE  Typed' /\ Places' /\ Quiet
  <1> USE DEF lists, batching, outside, ledger, told
  <1>0. Typed /\ Places
    BY DEF Base
  <1>1. /\ UNCHANGED <<mPendingRequestsList, mPendingBuffersMap,
                       mPendingFrameDropList, mPendingBatchMap, batch,
                       metaCb, asked, sent, shutter, final, back, accepted,
                       mState, mFlush, mPendingLiveRequest, nextFrame,
                       mWokenUpByDaemon, signalled>>
        /\ metaCb = <<>> /\ due' = NothingDue /\ streaming' = FALSE
    BY DEF SensorStops, stopAllChannels
  <1>2. /\ TypedThreads' /\ ~thread'["request"].restart
        /\ thread'["request"].pc = "resume" /\ thread["request"].pc = "sensor"
        /\ thread'["request"].req = thread["request"].req
        /\ thread'["flush"] = thread["flush"]
    BY <1>0, GoesTyped DEF Typed, Places, Thread, RequestPc, SensorStops
  <1>3. NothingDue \in [meta : Seq(Frame),
                       bufs : SUBSET (Frame \X (Streams \cup {"input"})),
                       held : SUBSET (Frame \X Streams)]
    BY DEF NothingDue
  <1>4. Typed'
    BY <1>0, <1>1, <1>2, <1>3 DEF Typed, TypedState, TypedLists, TypedBatch,
       TypedDue, TypedLedger
  <1>5. Quiet
    BY <1>0, <1>1, <1>2, FrameNat DEF Quiet, Unseen, Restarting, Typed,
       TypedState, Thread
  <1>6. Places'
    BY <1>0, <1>1, <1>2 DEF Places, Restarting, Clearing, Done, Thread,
       SensorStops
  <1> QED  BY <1>4, <1>5, <1>6

\* flush stops the channels; when that fails, it returns.
LEMMA FlushStopsStep ==
    ASSUME Base, UNCHANGED env, NEW t \in Thread, FlushStops(t)
    PROVE  Typed' /\ Places' /\ Quiet
  <1> USE DEF lists, batching, outside, ledger, told
  <1>0. Typed /\ Places
    BY DEF Base
  <1>1. /\ UNCHANGED <<mPendingRequestsList, mPendingBuffersMap,
                       mPendingFrameDropList, mPendingBatchMap, batch,
                       metaCb, asked, sent, shutter, final, back, accepted,
                       mState, mFlush, mPendingLiveRequest, nextFrame,
                       mWokenUpByDaemon, signalled>>
        /\ metaCb = <<>> /\ due' = NothingDue /\ streaming' = FALSE
    BY DEF FlushStops, stopAllChannels
  <1>2. /\ TypedThreads' /\ (t = "request" => ~thread'[t].restart)
        /\ thread'[t].pc \in {"notify", "deinit", "out"} /\ thread[t].pc = "stop"
        /\ t = "request" => thread'[t].pc # "out"
        /\ \A u \in Thread : u # t => thread'[u] = thread[u]
    <2>1. CASE Goes(t, "notify")
      BY <1>0, <2>1, GoesTyped DEF Typed, Places, RequestPc, FlushPc,
         FlushStops
    <2>2. CASE FlushReturns(t) /\ thread[t].restart
      BY <1>0, <2>2, LeavesTyped DEF Typed, Places, FlushReturns, FlushStops
    <2>3. CASE FlushReturns(t) /\ ~thread[t].restart
      BY <1>0, <2>3, GoesTyped DEF Typed, Places, RequestPc, FlushPc,
         FlushReturns, FlushStops
    <2> QED  BY <2>1, <2>2, <2>3 DEF FlushStops
  <1>3. NothingDue \in [meta : Seq(Frame),
                       bufs : SUBSET (Frame \X (Streams \cup {"input"})),
                       held : SUBSET (Frame \X Streams)]
    BY DEF NothingDue
  <1>4. Typed'
    BY <1>0, <1>1, <1>2, <1>3 DEF Typed, TypedState, TypedLists, TypedBatch,
       TypedDue, TypedLedger
  <1>5. Quiet
    BY <1>0, <1>1, <1>2, FrameNat DEF Quiet, Unseen, Restarting, Typed,
       TypedState, Thread
  <1>6. Places'
    BY <1>0, <1>1, <1>2 DEF Places, Restarting, Clearing, Done, Thread,
       FlushStops
  <1> QED  BY <1>4, <1>5, <1>6

---------------------------------------------------------------------------
(* The steps that clear the lists                                          *)

\* The number of the oldest pending request.
LEMMA Oldest ==
    ASSUME Typed, Lists
    PROVE  /\ OldestPending \in Nat
           /\ \A q \in Pending : q \in Request /\ OldestPending <= q.fn
           /\ \/ Pending = {} /\ OldestPending = MaxFrame + 1
              \/ \E q \in Pending : q.fn = OldestPending
  <1> DEFINE P == mPendingRequestsList
  <1>1. /\ P \in Seq(Request) /\ Increasing(P) /\ Entries(Request)
        /\ MaxFrame \in Nat
    BY FrameNat DEF Typed, TypedLists, Lists, Request, Entries
  <1>2. \A x \in Pending : x \in Request /\ x.fn \in Nat
    BY <1>1, InRange DEF Pending, Entries
  <1>3. CASE P = <<>>
    <2>1. Pending = {} /\ OldestPending = MaxFrame + 1
      BY <1>3 DEF Pending, Range, OldestPending
    <2> QED  BY <1>1, <2>1
  <1>4. CASE P # <<>>
    <2> DEFINE h == Head(P)
               t == Tail(P)
    <2>1. /\ Range(P) = Range(t) \cup {h}
          /\ \A r \in Range(t) : h.fn < r.fn
      BY <1>1, <1>4, TailOf
    <2>2. OldestPending = h.fn
      BY <1>4 DEF OldestPending
    <2> HIDE DEF h, t
    <2>3. Pending = Range(t) \cup {h}
      BY <2>1 DEF Pending
    <2> QED  BY <1>2, <2>1, <2>2, <2>3
  <1> QED  BY <1>3, <1>4

\* A request is erased for every error, and there are no more requests than
\* errors: each has its buffers in the map.  A frame gets an error if the map
\* has it and it is not older than the first request.
LEMMA NotifyClears ==
    ASSUME Idle, Typed, Lists, notifyErrorForPendingRequests
    PROVE  /\ mPendingRequestsList' = <<>> /\ mPendingBuffersMap' = <<>>
           /\ mPendingFrameDropList' = {} /\ shutter' = shutter
           /\ final' \in [Frame -> Nat] /\ back' \in [Frame -> [Streams -> Nat]]
           /\ \A f \in Frame :
                 final'[f] = IF /\ \E r \in Owed : r.fn = f
                                /\ \E q \in Pending : q.fn <= f
                               THEN final[f] + 1 ELSE final[f]
           /\ \A f \in Frame, s \in Streams :
                 back'[f][s] = IF \E r \in Owed : r.fn = f /\ s \in r.bufs
                                 THEN back[f][s] + 1 ELSE back[f][s]
  <1> DEFINE P == mPendingRequestsList
             M == mPendingBuffersMap
             first == OldestPending
             errors == ErrorRequests
             erased == IF Cardinality(errors) < Len(P) THEN Cardinality(errors)
                       ELSE Len(P)
             lost(fn) == UNION {M[i].bufs : i \in {j \in DOMAIN M : M[j].fn = fn}}
  <1>1. /\ P \in Seq(Request) /\ M \in Seq(Buffer) /\ Increasing(P)
        /\ Increasing(M) /\ final \in [Frame -> Nat]
        /\ back \in [Frame -> [Streams -> Nat]]
    BY DEF Typed, TypedLists, TypedLedger, Lists
  <1>2. /\ DOMAIN P = 1..Len(P) /\ Len(P) \in Nat
        /\ \A i \in DOMAIN P : P[i] \in Request /\ P[i] \in Pending
        /\ \A x \in Pending : x \in Request /\ \E i \in DOMAIN P : P[i] = x
    BY <1>1, InRange DEF Pending
  <1>3. /\ DOMAIN M = 1..Len(M) /\ Len(M) \in Nat
        /\ \A i \in DOMAIN M : M[i] \in Buffer /\ M[i] \in Owed
        /\ \A x \in Owed : x \in Buffer /\ \E i \in DOMAIN M : M[i] = x
    <2>1. Owed = Range(M)
      BY IdleOwed
    <2>2. /\ DOMAIN M = 1..Len(M) /\ Len(M) \in Nat
          /\ \A i \in DOMAIN M : M[i] \in Buffer /\ M[i] \in Range(M)
          /\ \A x \in Range(M) : x \in Buffer /\ \E i \in DOMAIN M : M[i] = x
      BY <1>1, InRange
    <2> QED  BY <2>1, <2>2, Zenon
  <1>4. Entries(Request) /\ Entries(Buffer) /\ Frame \subseteq Nat /\ MaxFrame \in Nat
    BY FrameNat DEF Request, Entries
  <1>5. /\ final' = [f \in Frame |-> IF f \in errors THEN final[f] + 1
                                     ELSE final[f]]
        /\ back' = [f \in Frame |->
                      [s \in Streams |-> IF s \in lost(f) THEN back[f][s] + 1
                                         ELSE back[f][s]]]
        /\ P' = SubSeq(P, erased + 1, Len(P))
        /\ M' = <<>> /\ mPendingFrameDropList' = {} /\ shutter' = shutter
    BY DEF notifyErrorForPendingRequests, AnswerErrors
  <1>6. first \in Nat /\ \A f \in Frame : first <= f <=> \E q \in Pending : q.fn <= f
    <2>1. /\ first \in Nat
          /\ \A q \in Pending : q.fn \in Nat /\ first <= q.fn
          /\ \/ Pending = {} /\ first = MaxFrame + 1
             \/ \E q \in Pending : q.fn = first
      BY <1>4, Oldest DEF Request
    <2> QED  BY <1>4, <2>1 DEF Frame
  <1> HIDE DEF first
  <1>7. \A f : f \in errors <=> \E i \in DOMAIN M : M[i].fn = f /\ first <= f
    <2>1. \A i \in DOMAIN M : M[i].fn \in Nat
      BY <1>3, <1>4 DEF Entries
    <2> QED  BY <1>6, <2>1 DEF ErrorRequests, LosesRequest, Numbers, first
  <1>8. Numbers(P) \subseteq errors
    <2> SUFFICES ASSUME NEW i \in DOMAIN P PROVE P[i].fn \in errors
      BY DEF Numbers
    <2>1. P[i] \in Pending /\ P[i].fn \in Frame
      BY <1>2 DEF Request
    <2>2. PICK r \in Owed : r.fn = P[i].fn
      BY <2>1 DEF Lists
    <2>3. first <= P[i].fn
      <3>1. P[i].fn \in Nat
        BY <2>1, <1>4
      <3>2. P[i].fn <= P[i].fn
        BY <3>1
      <3> QED  BY <2>1, <3>2, <1>6
    <2> QED  BY <2>2, <2>3, <1>3, <1>7
  <1>9. IsFiniteSet(errors)
    <2>1. errors \in SUBSET (1..MaxFrame)
      BY <1>7, <1>3 DEF Buffer, Frame
    <2>2. IsFiniteSet(1..MaxFrame)
      BY <1>4, FS_Interval
    <2> QED  BY <2>1, <2>2, FS_Subset
  <1> HIDE DEF errors
  <1>10. Len(P) <= Cardinality(errors) /\ Cardinality(errors) \in Nat
    <2>1. Cardinality(Numbers(P)) = Len(P)
      BY <1>1, <1>4, CountNumbers
    <2>2. Cardinality(Numbers(P)) <= Cardinality(errors)
      BY <1>8, <1>9, FS_Subset
    <2> QED  BY <2>1, <2>2, <1>9, FS_CardinalityType
  <1>11. erased = Len(P)
    BY <1>10, <1>2
  <1>12. P' = <<>>
    <2>1. Len(P) + 1 \in Int /\ Len(P) \in Int /\ Len(P) < Len(P) + 1
      BY <1>2
    <2>2. SubSeq(P, Len(P) + 1, Len(P)) = <<>>
      BY <2>1, SubSeqEmpty
    <2> QED  BY <1>5, <1>11, <2>2
  <1>13. \A f \in Frame :
            f \in errors <=> /\ \E r \in Owed : r.fn = f
                             /\ \E q \in Pending : q.fn <= f
    BY <1>3, <1>6, <1>7
  <1>14. \A f, s : s \in lost(f) <=> \E r \in Owed : r.fn = f /\ s \in r.bufs
    BY <1>3
  <1> HIDE DEF lost
  <1>15. /\ final' \in [Frame -> Nat]
         /\ \A f \in Frame :
                 final'[f] = IF /\ \E r \in Owed : r.fn = f
                                /\ \E q \in Pending : q.fn <= f
                               THEN final[f] + 1 ELSE final[f]
    <2>1. \A f \in Frame : final'[f] = IF f \in errors THEN final[f] + 1 ELSE final[f]
      BY <1>5
    <2>2. final' \in [Frame -> Nat]
      BY <1>1, <1>5
    <2> QED  BY <2>1, <2>2, <1>13
  <1>16. /\ back' \in [Frame -> [Streams -> Nat]]
         /\ \A f \in Frame, s \in Streams :
                 back'[f][s] = IF \E r \in Owed : r.fn = f /\ s \in r.bufs
                                 THEN back[f][s] + 1 ELSE back[f][s]
    BY <1>1, <1>5, <1>14
  <1> QED  BY <1>5, <1>12, <1>15, <1>16

\* The steps that clear the lists.
LEMMA ClearedBooks ==
    ASSUME Idle, Base, env' = env, mPendingRequestsList' = <<>>,
           mPendingBuffersMap' = <<>>, due = NothingDue, metaCb = <<>>,
           UNCHANGED <<due, metaCb, mPendingBatchMap, asked, accepted, sent, shutter>>,
           Unseen' \in Int, Unseen' >= Unseen,
           \A f \in Frame : f >= Unseen' =>
              final'[f] = 0 /\ \A s \in Streams : back'[f][s] = 0
    PROVE  Fresh' /\ Lists' /\ Ordered' /\ Dues'
  <1>1. /\ Pending' = {} /\ Owed' = {} /\ DOMAIN mPendingRequestsList' = {}
        /\ DOMAIN mPendingBuffersMap' = {}
    BY IdleOwed DEF Pending, Range
  <1>2. Unseen \in Int
    BY DEF Base, Typed, TypedState, Unseen
  <1>3. Fresh'
    BY <1>1, <1>2, FrameNat DEF Base, Fresh
  <1>4. Lists' /\ Ordered'
    BY <1>1 DEF Lists, Ordered, Increasing
  <1>5. Dues'
    BY DEF Dues, NothingDue
  <1> QED  BY <1>3, <1>4, <1>5

\* What notifyErrorForPendingRequests leaves.
LEMMA NotifyBooks ==
    ASSUME Idle, Base, env' = env, notifyErrorForPendingRequests,
           due = NothingDue, metaCb = <<>>,
           UNCHANGED <<due, metaCb, mPendingBatchMap, ledger>>,
           Unseen' = Unseen
    PROVE  Fresh' /\ Lists' /\ Ordered' /\ Dues' /\ TypedLists'
           /\ TypedLedger'
  <1>1. Typed /\ Lists /\ Fresh
    BY DEF Base
  <1>2. /\ mPendingRequestsList' = <<>> /\ mPendingBuffersMap' = <<>>
        /\ mPendingFrameDropList' = {} /\ shutter' = shutter
        /\ final' \in [Frame -> Nat] /\ back' \in [Frame -> [Streams -> Nat]]
        /\ \A f \in Frame :
              final'[f] = IF /\ \E r \in Owed : r.fn = f
                             /\ \E q \in Pending : q.fn <= f
                            THEN final[f] + 1 ELSE final[f]
        /\ \A f \in Frame, s \in Streams :
              back'[f][s] = IF \E r \in Owed : r.fn = f /\ s \in r.bufs
                              THEN back[f][s] + 1 ELSE back[f][s]
    BY <1>1, NotifyClears
  <1>3. Unseen \in Int
    BY <1>1 DEF Typed, TypedState, Unseen
  <1>4. \A f \in Frame : f >= Unseen =>
           final'[f] = 0 /\ \A s \in Streams : back'[f][s] = 0
    <2> SUFFICES ASSUME NEW f \in Frame, f >= Unseen
                 PROVE  final'[f] = 0 /\ \A s \in Streams : back'[f][s] = 0
      OBVIOUS
    <2>1. /\ final[f] = 0 /\ \A s \in Streams : back[f][s] = 0
          /\ \A r \in Owed : r.fn # f
      BY <1>1 DEF Fresh
    <2>2. final'[f] = final[f]
      BY <1>2, <2>1
    <2>3. \A s \in Streams : back'[f][s] = back[f][s]
      BY <1>2, <2>1
    <2> QED  BY <2>1, <2>2, <2>3
  <1>5. Fresh' /\ Lists' /\ Ordered' /\ Dues'
    BY <1>2, <1>3, <1>4, ClearedBooks DEF ledger
  <1>6. TypedLists' /\ TypedLedger'
    BY <1>1, <1>2 DEF Typed, TypedLists, TypedLedger, ledger
  <1> QED  BY <1>5, <1>6

\* flush tells of the errors.
LEMMA flushStep ==
    ASSUME Idle, Base, UNCHANGED env, NEW t \in Thread, ~walk.on, flush(t)
    PROVE  Base'
  <1>0. Typed /\ Places
    BY DEF Base
  <1>1. /\ UNCHANGED <<mState, batch, mPendingBatchMap, mWokenUpByDaemon, due,
                       metaCb, ledger>>
        /\ notifyErrorForPendingRequests /\ mPendingLiveRequest' = 0
        /\ mFlush' = FALSE /\ thread[t].pc = "notify" /\ FlushReturns(t)
    BY DEF flush, batching
  <1>2. /\ TypedThreads' /\ (t = "request" => ~thread'[t].restart)
        /\ thread'[t].pc \in {"deinit", "out"}
        /\ t = "request" => thread'[t].pc = "deinit"
        /\ \A u \in Thread : u # t => thread'[u] = thread[u]
    <2>1. CASE thread[t].restart
      BY <1>0, <1>1, <2>1, LeavesTyped DEF Typed, Places, FlushReturns
    <2>2. CASE ~thread[t].restart
      BY <1>0, <1>1, <2>2, GoesTyped DEF Typed, Places, RequestPc, FlushPc,
         FlushReturns
    <2> QED  BY <2>1, <2>2
  <1>3. due = NothingDue /\ metaCb = <<>>
    BY <1>0, <1>1 DEF Places, Clearing
  <1>4. Unseen' = Unseen
    BY <1>1, <1>2 DEF Unseen, Restarting, ledger, Thread
  <1>5. Fresh' /\ Lists' /\ Ordered' /\ Dues' /\ TypedLists' /\ TypedLedger'
    BY <1>1, <1>3, <1>4, NotifyBooks
  <1>6. streaming' \in BOOLEAN /\ signalled' \in BOOLEAN
    BY <1>0 DEF flush, unblockRequestIfNecessary, Typed, TypedState,
       TypedThreads
  <1>7. TypedState' /\ TypedBatch' /\ TypedDue'
    <2>1. nextFrame' = nextFrame
      BY <1>1 DEF ledger
    <2>2. mFlush' \in BOOLEAN /\ mState' = mState
          /\ mWokenUpByDaemon' = mWokenUpByDaemon
      BY <1>1, Zenon
    <2>3. mPendingLiveRequest' \in Int
      BY <1>1
    <2>4. TypedState'
      BY <1>0, <1>6, <2>1, <2>2, <2>3 DEF Typed, TypedState
    <2> QED  BY <1>0, <1>1, <2>4 DEF Typed, TypedBatch, TypedDue
  <1>8. Places'
    <2>1. thread'["request"].pc = "configure" => \A f \in accepted' : Done(f)'
      <3> SUFFICES ASSUME thread'["request"].pc = "configure", NEW f \in accepted
                   PROVE  Done(f)'
        BY <1>1 DEF ledger
      <3>1. Done(f) /\ f \in Frame
        BY <1>0, <1>1, <1>2 DEF Places, Thread, Typed, TypedLedger
      <3>2. /\ final' \in [Frame -> Nat] /\ back' \in [Frame -> [Streams -> Nat]]
            /\ final \in [Frame -> Nat] /\ back \in [Frame -> [Streams -> Nat]]
            /\ final'[f] >= final[f]
            /\ \A s \in Streams : back'[f][s] >= back[f][s]
        <4>1. Lists
          BY DEF Base
        <4>2. /\ final' \in [Frame -> Nat] /\ back' \in [Frame -> [Streams -> Nat]]
              /\ final'[f] \in {final[f] + 1, final[f]}
              /\ \A s \in Streams : back'[f][s] \in {back[f][s] + 1, back[f][s]}
          BY <1>0, <1>1, <4>1, <3>1, NotifyClears
        <4>3. /\ final \in [Frame -> Nat] /\ back \in [Frame -> [Streams -> Nat]]
              /\ final[f] \in Nat /\ \A s \in Streams : back[f][s] \in Nat
          BY <1>0, <3>1 DEF Typed, TypedLedger
        <4>4. final'[f] >= final[f]
          BY <4>2, <4>3
        <4>5. ASSUME NEW s \in Streams PROVE back'[f][s] >= back[f][s]
          <5>1. back[f][s] \in Nat /\ back'[f][s] \in {back[f][s] + 1, back[f][s]}
            BY <4>2, <4>3
          <5> QED  BY <5>1
        <4> QED  BY <4>2, <4>3, <4>4, <4>5
      <3> QED  BY <3>1, <3>2, <1>0, <1>1 DEF Done, Typed, TypedLedger, ledger
    <2> QED  BY <1>0, <1>1, <1>2, <1>3, <2>1 DEF Places, Restarting, Clearing,
             Thread, ledger
  <1> QED  BY <1>2, <1>5, <1>7, <1>8 DEF Base, Typed

\* A configuration clears the lists without telling anybody.
LEMMA configureStreamsPerfLockedStep ==
    ASSUME Idle, Base, UNCHANGED env, configureStreamsPerfLocked
    PROVE  Base'
  <1>0. Typed /\ Places /\ Fresh
    BY DEF Base
  <1>1. /\ UNCHANGED <<mFlush, mPendingLiveRequest, mPendingBatchMap, batch,
                       mWokenUpByDaemon, streaming, due, metaCb, signalled,
                       nextFrame, asked, accepted, sent, shutter, final, back>>
        /\ thread["request"].pc = "configure"
    BY DEF configureStreamsPerfLocked, batching, outside, ledger, told
  <1>2. /\ TypedThreads' /\ ~thread'["request"].restart
        /\ thread'["request"].pc \in {"out", "error"}
        /\ thread'["flush"] = thread["flush"]
    <2>1. CASE Leaves("request")
      BY <1>0, <2>1, LeavesTyped DEF Typed, Thread
    <2>2. CASE Goes("request", "error")
      BY <1>0, <2>2, GoesTyped DEF Typed, Places, Thread, RequestPc
    <2> QED  BY <2>1, <2>2 DEF configureStreamsPerfLocked
  <1>3. \/ mState \in Live /\ mState' = "CONFIGURED"
        \/ mState' = mState
    BY DEF configureStreamsPerfLocked
  <1>4. mState' \in State
    BY <1>0, <1>3 DEF Typed, TypedState, State
  <1>5. Unseen' = Unseen /\ Unseen \in Int
    BY <1>0, <1>1, <1>2 DEF Unseen, Restarting, Typed, TypedState
  <1>6. TypedState' /\ TypedBatch' /\ TypedDue' /\ TypedLedger'
    BY <1>0, <1>1, <1>4 DEF Typed, TypedState, TypedBatch, TypedDue,
       TypedLedger
  <1>7. Places'
    <2>1. ~Restarting' /\ ~Restarting
      BY <1>1, <1>2 DEF Restarting
    <2>2. Clearing' => Clearing
      BY <1>1, <1>2 DEF Clearing, Thread
    <2>3. thread["flush"].pc \in {"stop", "notify"} =>
             mFlush \/ mState \in {"ERROR", "DEINIT"}
      BY <1>0, <1>1 DEF Places
    <2> QED  BY <1>0, <1>1, <1>2, <1>3, <2>1, <2>2, <2>3 DEF Places, Live
  <1>8. TypedLists' /\ Fresh' /\ Lists' /\ Ordered' /\ Dues'
    <2>1. CASE lists' = lists
      <3>1. Quiet
        BY <1>1, <1>5, <2>1 DEF Quiet, lists
      <3>2. TypedLists'
        BY <1>0, <2>1 DEF Typed, TypedLists, lists
      <3> QED  BY <1>2, <1>6, <3>1, <3>2, QuietBooks DEF Idle
    <2>2. CASE /\ mPendingRequestsList' = <<>> /\ mPendingBuffersMap' = <<>>
               /\ mPendingFrameDropList' = {}
      <3>1. TypedLists'
        BY <2>2 DEF TypedLists
      <3>2. due = NothingDue /\ metaCb = <<>>
        BY <1>0, <1>1 DEF Places, Clearing
      <3>3. \A f \in Frame : f >= Unseen' =>
               final'[f] = 0 /\ \A s \in Streams : back'[f][s] = 0
        BY <1>0, <1>1, <1>5 DEF Fresh
      <3>4. Unseen' >= Unseen
        BY <1>5
      <3> QED  BY <1>1, <1>5, <2>2, <3>1, <3>2, <3>3, <3>4, ClearedBooks
    <2> QED  BY <2>1, <2>2 DEF configureStreamsPerfLocked, lists
  <1> QED  BY <1>2, <1>6, <1>7, <1>8 DEF Base, Typed

\* The object is deleted.
LEMMA close_camera_deviceStep ==
    ASSUME Idle, Base, UNCHANGED env, close_camera_device
    PROVE  Base'
  <1>0. Typed /\ Places
    BY DEF Base
  <1>1. /\ \A t \in Thread : thread[t].pc = "out"
        /\ metaCb = <<>> /\ metaCb' = <<>> /\ thread' = thread
        /\ mState' = "CLOSED" /\ mFlush' = FALSE
        /\ mPendingRequestsList' = <<>> /\ mPendingBuffersMap' = <<>>
        /\ mPendingFrameDropList' = {} /\ mPendingLiveRequest' = 0
        /\ mPendingBatchMap' = {}
        /\ batch' = [size |-> 0, queued |-> 0, first |-> 0]
        /\ mWokenUpByDaemon' = FALSE /\ streaming' = FALSE
        /\ due' = NothingDue /\ signalled' = FALSE /\ nextFrame' = 1
        /\ asked' = [f \in Frame |-> {}] /\ accepted' = {} /\ sent' = {}
        /\ shutter' = [f \in Frame |-> 0] /\ final' = [f \in Frame |-> 0]
        /\ back' = [f \in Frame |-> [s \in Streams |-> 0]]
    BY DEF close_camera_device
  <1>2. TypedState'
    <2>1. mFlush' \in BOOLEAN /\ mWokenUpByDaemon' \in BOOLEAN
          /\ streaming' \in BOOLEAN /\ signalled' \in BOOLEAN
      BY <1>1, Zenon
    <2>2. nextFrame' \in 1..(MaxFrame + 1) /\ mPendingLiveRequest' \in Int
      BY <1>1, FrameNat
    <2> QED  BY <1>0, <1>1, <2>1, <2>2 DEF Typed, TypedState, State
  <1>3. TypedLists' /\ TypedBatch' /\ TypedDue'
    BY <1>1, FrameNat DEF TypedLists, TypedBatch, TypedDue, NothingDue
  <1>4. TypedThreads' /\ TypedLedger'
    BY <1>0, <1>1 DEF Typed, TypedThreads, TypedLedger
  <1>5. Places'
    BY <1>0, <1>1 DEF Places, Restarting, Clearing, Thread
  <1>6. /\ Pending' = {} /\ Owed' = {} /\ DOMAIN mPendingRequestsList' = {}
        /\ DOMAIN mPendingBuffersMap' = {}
    BY <1>1, IdleOwed DEF Pending, Range
  <1>7. /\ due'.bufs \cup due'.held = {} /\ DOMAIN due'.meta = {}
        /\ DOMAIN metaCb' = {}
    BY <1>1 DEF NothingDue
  <1>8. Fresh'
    <2>1. \A f \in Frame : /\ asked'[f] = {} /\ shutter'[f] = 0 /\ final'[f] = 0
                           /\ \A s \in Streams : back'[f][s] = 0
      BY <1>1
    <2> QED  BY <1>1, <1>6, <1>7, <2>1 DEF Fresh
  <1>9. Lists' /\ Ordered' /\ Dues'
    BY <1>6, <1>7 DEF Lists, Ordered, Increasing, Dues
  <1> QED  BY <1>2, <1>3, <1>4, <1>5, <1>8, <1>9 DEF Base, Typed

---------------------------------------------------------------------------
(* The sensor restart's loop over the lists                                *)

\* The loop touches neither the threads nor the state.
LEMMA WalkPlaces ==
    ASSUME Base, Walks, env' = env,
           thread["request"].pc = "resume",
           UNCHANGED <<mState, mFlush, mPendingLiveRequest, batching,
                       mWokenUpByDaemon, outside, thread, signalled, ledger>>
    PROVE  /\ TypedState' /\ TypedBatch' /\ TypedDue' /\ TypedThreads'
           /\ Places' /\ Unseen' = Unseen
           /\ due = NothingDue /\ metaCb = <<>>
  <1>0. Typed /\ Places
    BY DEF Base
  <1>1. due = NothingDue /\ metaCb = <<>>
    BY <1>0 DEF Places, Clearing
  <1>2. TypedState' /\ TypedBatch' /\ TypedDue' /\ TypedThreads'
    BY <1>0 DEF Typed, TypedState, TypedBatch, TypedDue, TypedThreads,
       batching, outside, ledger
  <1>3. Places' /\ Unseen' = Unseen
    BY <1>0 DEF Places, Restarting, Clearing, Unseen, outside, ledger
  <1> QED  BY <1>1, <1>2, <1>3

\* The first number is that of the oldest pending request; without
\* reprocessing an entry that is not older has its request.
LEMMA WalkBeginsStep ==
    ASSUME Base, Walks, UNCHANGED env, WalkBegins
    PROVE  Base' /\ Walks' /\ Quiet /\ walk.hand = {} /\ walk'.hand = {}
  <1>0. Typed /\ Lists /\ Ordered
    BY DEF Base
  <1>1. /\ UNCHANGED <<mState, mFlush, mPendingLiveRequest, batching,
                       mWokenUpByDaemon, outside, thread, signalled, ledger>>
        /\ UNCHANGED <<lists, told>>
        /\ thread["request"].pc = "resume"
        /\ walk' = [on |-> TRUE, first |-> OldestPending, hand |-> {}]
        /\ walk.hand = {}
    BY DEF WalkBegins, Walks
  <1>2. /\ TypedState' /\ TypedBatch' /\ TypedDue' /\ TypedThreads'
        /\ Places' /\ Unseen' = Unseen /\ Unseen \in Int
    BY <1>0, <1>1, WalkPlaces DEF Typed, TypedState, Unseen
  <1>3. TypedLists' /\ TypedLedger'
    BY <1>0, <1>1 DEF Typed, TypedLists, TypedLedger, lists, ledger, told
  <1>4. Quiet
    BY <1>1, <1>2 DEF Quiet, lists, outside, ledger, told, batching
  <1>5. Fresh' /\ Lists' /\ Ordered' /\ Dues'
    BY <1>1, <1>2, <1>4, QuietBooks
  <1>6. Walks'
    <2>1. /\ OldestPending \in Nat /\ \A q \in Pending : OldestPending <= q.fn
          /\ \/ Pending = {} /\ OldestPending = MaxFrame + 1
             \/ \E q \in Pending : q.fn = OldestPending
      BY <1>0, Oldest
    <2>2. /\ Pending' = Pending /\ Owed' = Owed
          /\ walk'.on /\ walk'.first = OldestPending /\ walk'.hand = {}
          /\ walk' \in [on : BOOLEAN, first : Nat, hand : SUBSET Buffer]
      BY <1>1, <2>1 DEF Pending, Owed, lists
    <2>3. ASSUME ~env.reprocess, NEW r \in Owed, OldestPending <= r.fn
          PROVE  \E p \in Pending : p.fn = r.fn
      <3>1. r \in Buffer
        BY <1>0, <1>1, InRange DEF Typed, TypedLists, Owed
      <3>2. r.fn \in Nat /\ r.fn <= MaxFrame /\ MaxFrame \in Nat
        BY <3>1, FrameNat DEF Buffer, Frame
      <3>3. PICK q \in Pending : q.fn = OldestPending
        BY <2>1, <2>3, <3>2
      <3>4. ~ (r.fn < q.fn)
        BY <2>1, <2>3, <3>2, <3>3
      <3> QED  BY <1>0, <2>3, <3>4 DEF Ordered
    <2>4. thread'["request"].pc = "resume" /\ env' = env
      BY <1>1
    <2> QED  BY <2>1, <2>2, <2>3, <2>4 DEF Walks
  <1> QED  BY <1>1, <1>2, <1>3, <1>4, <1>5, <1>6 DEF Base, Typed

\* An entry in the hands of the restart is owed as one in the map is.
LEMMA EntryErasedStep ==
    ASSUME Base, Walks, UNCHANGED env, EntryErased
    PROVE  /\ Base' /\ Walks' /\ Owed' = Owed /\ Pending' = Pending
           /\ UNCHANGED <<mPendingRequestsList, thread, ledger, told>>
  <1>0. Typed /\ Fresh /\ Lists /\ Ordered /\ Dues
    BY DEF Base
  <1> DEFINE M == mPendingBuffersMap
             e == Head(M)
  <1>1. /\ UNCHANGED <<mState, mFlush, mPendingLiveRequest, batching,
                       mWokenUpByDaemon, outside, thread, signalled, ledger>>
        /\ UNCHANGED <<mPendingRequestsList, mPendingFrameDropList, told>>
        /\ thread["request"].pc = "resume" /\ walk.on /\ walk.hand = {}
        /\ M # <<>> /\ M' = Tail(M) /\ walk' = [walk EXCEPT !.hand = {e}]
    BY DEF EntryErased, Walks
  <1>2. /\ TypedState' /\ TypedBatch' /\ TypedDue' /\ TypedThreads'
        /\ Places' /\ Unseen' = Unseen
    BY <1>1, WalkPlaces
  <1>3. /\ e \in Buffer /\ Tail(M) \in Seq(Buffer) /\ Increasing(Tail(M))
        /\ Range(M) = Range(Tail(M)) \cup {e}
        /\ \A r \in Range(Tail(M)) : e.fn < r.fn
    <2>1. M \in Seq(Buffer) /\ Increasing(M) /\ Entries(Buffer)
      BY <1>0, FrameNat DEF Typed, TypedLists, Lists
    <2> QED  BY <1>1, <2>1, TailOf
  <1> HIDE DEF e
  <1>4. /\ walk'.on /\ walk'.first = walk.first /\ walk'.hand = {e}
        /\ walk' \in [on : BOOLEAN, first : Nat, hand : SUBSET Buffer]
    BY <1>1, <1>3 DEF Walks
  <1>5. Owed' = Owed /\ Pending' = Pending
    BY <1>1, <1>3, <1>4 DEF Owed, Pending
  <1>6. TypedLists' /\ TypedLedger'
    BY <1>0, <1>1, <1>3 DEF Typed, TypedLists, TypedLedger, ledger, told
  <1>7. Fresh'
    BY <1>0, <1>1, <1>2, <1>5 DEF Fresh, batching, outside, ledger, told
  <1>8. Lists'
    <2>1. Increasing(mPendingRequestsList)' /\ Increasing(mPendingBuffersMap)'
      BY <1>0, <1>1, <1>3 DEF Lists, Increasing
    <2> QED  BY <1>0, <1>1, <1>5, <2>1 DEF Lists, ledger, told
  <1>9. Ordered' /\ Dues'
    BY <1>0, <1>1, <1>5 DEF Ordered, Dues, outside
  <1>10. Walks'
    BY <1>1, <1>3, <1>4, <1>5 DEF Walks
  <1> QED  BY <1>1, <1>2, <1>5, <1>6, <1>7, <1>8, <1>9, <1>10 DEF Base, Typed

\* What the answer to an entry does: the entry is the oldest one, without
\* reprocessing its own request is erased, and only if it was pending.
LEMMA AnsweredEntry ==
    ASSUME Base, Walks, UNCHANGED env, EntryAnswered
    PROVE  \E e \in Buffer :
              /\ e \in Owed /\ Owed = Owed' \cup {e} /\ walk'.hand = {}
              /\ \A r \in Owed' : e.fn < r.fn
              /\ mPendingRequestsList' \in Seq(Request)
              /\ Increasing(mPendingRequestsList')
              /\ Pending' \subseteq Pending
              /\ \A q \in Pending' : e.fn < q.fn
              /\ back' \in [Frame -> [Streams -> Nat]]
              /\ \A f \in Frame, s \in Streams :
                    back'[f][s] = IF f = e.fn /\ s \in e.bufs
                                    THEN back[f][s] + 1 ELSE back[f][s]
              /\ final' \in [Frame -> Nat]
              /\ \A f \in Frame : f # e.fn => final'[f] = final[f]
              /\ final'[e.fn] \in {final[e.fn], final[e.fn] + 1}
              /\ ~env.reprocess =>
                    /\ \A q \in Pending : q.fn = e.fn \/ q \in Pending'
                    /\ final'[e.fn] = IF \E q \in Pending : q.fn = e.fn
                                        THEN final[e.fn] + 1 ELSE final[e.fn]
  <1> DEFINE P == mPendingRequestsList
             M == mPendingBuffersMap
             first == walk.first
  <1>0. /\ P \in Seq(Request) /\ M \in Seq(Buffer)
        /\ Increasing(P) /\ Increasing(M) /\ Entries(Request) /\ Entries(Buffer)
    BY FrameNat DEF Base, Typed, TypedLists, Lists, Request, Entries
  <1>a. final \in [Frame -> Nat] /\ back \in [Frame -> [Streams -> Nat]]
    BY DEF Base, Typed, TypedLedger
  <1>b. \A q \in Pending : q.fn \in Nat
    BY <1>0, InRange DEF Pending, Entries
  <1>c. first \in Nat /\ \A q \in Pending : first <= q.fn
    BY DEF EntryAnswered, Walks
  <1>d. ~env.reprocess =>
           \A r \in Owed : first <= r.fn => \E p \in Pending : p.fn = r.fn
    BY DEF EntryAnswered, Walks
  <1>1. PICK e \in walk.hand :
           /\ back' = Returned(back, e.fn, e.bufs)
           /\ IF LosesRequest(e.fn, first)
                THEN /\ final' = [final EXCEPT ![e.fn] = @ + 1]
                     /\ P' = IF P = <<>> THEN <<>> ELSE Tail(P)
                ELSE UNCHANGED <<final, P>>
    BY DEF EntryAnswered
  <1>2. /\ e \in Buffer /\ walk.hand = {e} /\ \A r \in Range(M) : e.fn < r.fn
        /\ M' = M /\ walk' = [walk EXCEPT !.hand = {}]
    BY <1>1 DEF EntryAnswered, Walks
  <1>3. e.fn \in Frame /\ e.bufs \subseteq Streams /\ e.fn \in Nat
    BY <1>2, FrameNat DEF Buffer
  <1>4. walk'.hand = {}
    BY <1>2 DEF Walks
  <1>5. /\ Owed' = Range(M) /\ Owed = Range(M) \cup {e}
    BY <1>2, <1>4 DEF Owed
  <1>6. \A r \in Owed' : e.fn < r.fn
    BY <1>2, <1>5
  <1>7. \A r \in Owed : r.fn \in Nat /\ e.fn <= r.fn
    <2>1. \A r \in Range(M) : r.fn \in Nat
      BY <1>0, InRange DEF Entries
    <2> QED  BY <1>2, <1>3, <1>5, <2>1
  <1>8. \A q \in Pending : e.fn <= q.fn
    <2> SUFFICES ASSUME NEW q \in Pending PROVE e.fn <= q.fn
      OBVIOUS
    <2>1. \E r \in Owed : r.fn = q.fn
      BY DEF Base, Lists
    <2> QED  BY <1>7, <2>1
  <1>9. /\ back' \in [Frame -> [Streams -> Nat]]
        /\ \A f \in Frame, s \in Streams :
              back'[f][s] = IF f = e.fn /\ s \in e.bufs
                              THEN back[f][s] + 1 ELSE back[f][s]
    <2> DEFINE fn == e.fn
               bufs == e.bufs
    <2>1. back' = Returned(back, fn, bufs) /\ fn \in Frame
      BY <1>1, <1>3
    <2> HIDE DEF fn, bufs
    <2>2. /\ back' \in [Frame -> [Streams -> Nat]]
          /\ \A f \in Frame, s \in Streams :
                back'[f][s] = IF f = fn /\ s \in bufs THEN back[f][s] + 1
                              ELSE back[f][s]
      BY <1>a, <2>1 DEF Returned
    <2> QED  BY <2>2 DEF fn, bufs
  <1>10. /\ P' \in Seq(Request) /\ Increasing(P') /\ Pending' \subseteq Pending
         /\ \A q \in Pending' : e.fn < q.fn
         /\ final' \in [Frame -> Nat]
         /\ \A f \in Frame : f # e.fn => final'[f] = final[f]
         /\ final'[e.fn] \in {final[e.fn], final[e.fn] + 1}
    <2>1. CASE ~LosesRequest(e.fn, first)
      <3>1. final' = final /\ P' = P /\ Pending' = Pending
        BY <1>1, <2>1 DEF Pending
      <3>2. \A q \in Pending : e.fn < q.fn
        BY <1>b, <1>c, <1>3, <2>1 DEF LosesRequest
      <3>3. Increasing(P')
        BY <1>0, <3>1
      <3> QED  BY <1>0, <1>a, <3>1, <3>2, <3>3
    <2>2. CASE LosesRequest(e.fn, first)
      <3>1. /\ final' = [final EXCEPT ![e.fn] = @ + 1]
            /\ P' = IF P = <<>> THEN <<>> ELSE Tail(P)
        BY <1>1, <2>2
      <3>2. /\ final' \in [Frame -> Nat] /\ final'[e.fn] = final[e.fn] + 1
            /\ \A f \in Frame : f # e.fn => final'[f] = final[f]
        BY <1>a, <1>3, <3>1
      <3>3. CASE P = <<>>
        <4>1. P' = P
          BY <3>1, <3>3
        <4>2. Increasing(P') /\ Pending' = {} /\ Pending = {}
          BY <1>0, <3>3, <4>1 DEF Pending, Range
        <4> QED  BY <1>0, <3>2, <4>1, <4>2
      <3>4. CASE P # <<>>
        <4>1. /\ Tail(P) \in Seq(Request) /\ Increasing(Tail(P))
              /\ Range(P) = Range(Tail(P)) \cup {Head(P)}
              /\ \A r \in Range(Tail(P)) : Head(P).fn < r.fn
          BY <1>0, <3>4, TailOf
        <4>2. P' = Tail(P)
          BY <3>1, <3>4
        <4>3. Increasing(P') /\ P' \in Seq(Request)
          BY <4>1, <4>2
        <4>4. Pending = Range(Tail(P)) \cup {Head(P)} /\ Pending' = Range(Tail(P))
          BY <4>1, <4>2 DEF Pending
        <4>5. \A q \in Pending' : Head(P).fn < q.fn
          BY <4>1, <4>4
        <4>6. Head(P).fn \in Nat /\ e.fn <= Head(P).fn
          BY <1>b, <1>8, <4>4
        <4>7. \A q \in Pending' : e.fn < q.fn
          BY <1>3, <1>b, <4>4, <4>5, <4>6
        <4> QED  BY <3>2, <4>3, <4>4, <4>7
      <3> QED  BY <3>3, <3>4
    <2> QED  BY <2>1, <2>2
  <1>11. \A q \in Pending' : q.fn # e.fn
    BY <1>3, <1>10
  <1>12. ASSUME ~env.reprocess
         PROVE  /\ \A q \in Pending : q.fn = e.fn \/ q \in Pending'
                /\ final'[e.fn] = IF \E q \in Pending : q.fn = e.fn
                                    THEN final[e.fn] + 1 ELSE final[e.fn]
    <2>1. CASE ~LosesRequest(e.fn, first)
      <3>1. final' = final /\ Pending' = Pending
        BY <1>1, <2>1 DEF Pending
      <3> QED  BY <1>11, <3>1
    <2>2. CASE LosesRequest(e.fn, first)
      <3>1. /\ final' = [final EXCEPT ![e.fn] = @ + 1]
            /\ P' = IF P = <<>> THEN <<>> ELSE Tail(P)
        BY <1>1, <2>2
      <3>2. final'[e.fn] = final[e.fn] + 1
        BY <1>a, <1>3, <3>1
      <3>3. PICK p \in Pending : p.fn = e.fn
        <4>1. e \in Owed /\ first <= e.fn
          BY <1>c, <1>3, <1>5, <2>2 DEF LosesRequest
        <4> QED  BY <1>d, <1>12, <4>1
      <3>4. P # <<>>
        BY <3>3 DEF Pending, Range
      <3>5. Range(P) = Range(Tail(P)) \cup {Head(P)}
        BY <1>0, <3>4, TailOf
      <3>6. Pending = Range(Tail(P)) \cup {Head(P)} /\ Pending' = Range(Tail(P))
        BY <3>1, <3>4, <3>5 DEF Pending
      <3>7. Head(P).fn = e.fn
        BY <1>11, <3>3, <3>6
      <3> QED  BY <3>2, <3>3, <3>6, <3>7
    <2> QED  BY <2>1, <2>2
  <1> QED  BY <1>2, <1>4, <1>5, <1>6, <1>9, <1>10, <1>12

\* An entry that was answered is out of the books.
LEMMA EntryAnsweredStep ==
    ASSUME Base, Walks, UNCHANGED env, EntryAnswered
    PROVE  Base' /\ Walks'
  <1>0. Typed /\ Fresh /\ Lists /\ Ordered /\ Dues
    BY DEF Base
  <1>1. /\ UNCHANGED <<mState, mFlush, mPendingLiveRequest, batching,
                       mWokenUpByDaemon, outside, thread, signalled, ledger>>
        /\ UNCHANGED <<mPendingBuffersMap, mPendingFrameDropList, shutter>>
        /\ thread["request"].pc = "resume" /\ walk.on
        /\ walk' = [walk EXCEPT !.hand = {}]
    BY DEF EntryAnswered, Walks
  <1>2. /\ TypedState' /\ TypedBatch' /\ TypedDue' /\ TypedThreads'
        /\ Places' /\ Unseen' = Unseen /\ due = NothingDue
    BY <1>1, WalkPlaces
  <1>3. PICK e \in Buffer :
              /\ e \in Owed /\ Owed = Owed' \cup {e} /\ walk'.hand = {}
              /\ \A r \in Owed' : e.fn < r.fn
              /\ mPendingRequestsList' \in Seq(Request)
              /\ Increasing(mPendingRequestsList')
              /\ Pending' \subseteq Pending
              /\ \A q \in Pending' : e.fn < q.fn
              /\ back' \in [Frame -> [Streams -> Nat]]
              /\ \A f \in Frame, s \in Streams :
                    back'[f][s] = IF f = e.fn /\ s \in e.bufs
                                    THEN back[f][s] + 1 ELSE back[f][s]
              /\ final' \in [Frame -> Nat]
              /\ \A f \in Frame : f # e.fn => final'[f] = final[f]
              /\ final'[e.fn] \in {final[e.fn], final[e.fn] + 1}
              /\ ~env.reprocess =>
                    /\ \A q \in Pending : q.fn = e.fn \/ q \in Pending'
                    /\ final'[e.fn] = IF \E q \in Pending : q.fn = e.fn
                                        THEN final[e.fn] + 1 ELSE final[e.fn]
    BY AnsweredEntry
  <1>4. e.fn \in Frame /\ e.fn \in Nat /\ Frame \subseteq Nat
    BY FrameNat DEF Buffer
  <1>5. \A f : f > e.fn /\ f \in Frame => f # e.fn
    BY <1>4
  <1>6. /\ \A r \in Owed' : r \in Owed /\ r.fn # e.fn
        /\ \A q \in Pending' : q \in Pending /\ q.fn # e.fn
    <2>1. ~ (e.fn < e.fn)
      BY <1>4
    <2> QED  BY <1>3, <2>1
  <1>7. TypedLists' /\ TypedLedger'
    BY <1>0, <1>1, <1>3 DEF Typed, TypedLists, TypedLedger, ledger
  <1>8. Fresh'
    <2> SUFFICES ASSUME NEW f \in Frame, f >= Unseen
                 PROVE  final'[f] = 0 /\ \A s \in Streams : back'[f][s] = 0
      BY <1>0, <1>1, <1>2, <1>3 DEF Fresh, batching, outside, ledger
    <2>1. f # e.fn /\ final[f] = 0 /\ \A s \in Streams : back[f][s] = 0
      BY <1>0, <1>3 DEF Fresh
    <2> QED  BY <1>3, <2>1
  <1>9. Lists'
    <2>1. ASSUME NEW q \in Pending'
          PROVE  /\ q.bufs = asked'[q.fn] /\ q.cached \subseteq q.bufs
                 /\ final'[q.fn] = 0 /\ shutter'[q.fn] = 0
                 /\ \E r \in Owed' : r.fn = q.fn /\ r.bufs = q.bufs
                 /\ q.input => env'.reprocess
      <3>1. q \in Pending /\ q.fn # e.fn
        BY <1>6
      <3>2. q.fn \in Frame
        <4>1. q \in Request
          BY <1>0, <3>1, InRange DEF Typed, TypedLists, Pending
        <4> QED  BY <4>1 DEF Request
      <3>3. final'[q.fn] = final[q.fn]
        BY <1>3, <3>1, <3>2
      <3>4. PICK r \in Owed : r.fn = q.fn /\ r.bufs = q.bufs
        BY <1>0, <3>1 DEF Lists
      <3>5. r \in Owed'
        BY <1>3, <3>1, <3>4
      <3> QED  BY <1>0, <1>1, <3>1, <3>3, <3>4, <3>5 DEF Lists, ledger
    <2>2. ASSUME NEW r \in Owed'
          PROVE  /\ r.bufs # {} /\ r.bufs \subseteq asked'[r.fn]
                 /\ \A s \in r.bufs : back'[r.fn][s] = 0
      <3>1. r \in Owed /\ r.fn # e.fn
        BY <1>6
      <3>2. r.fn \in Frame /\ r.bufs \subseteq Streams
        <4>1. Owed \subseteq Buffer
          BY <1>0, InRange DEF Typed, TypedLists, Owed, Walks
        <4> QED  BY <3>1, <4>1 DEF Buffer
      <3>3. \A s \in r.bufs : back'[r.fn][s] = back[r.fn][s]
        BY <1>3, <3>1, <3>2
      <3> QED  BY <1>0, <1>1, <3>1, <3>3 DEF Lists, ledger
    <2>3. Increasing(mPendingRequestsList') /\ Increasing(mPendingBuffersMap')
      BY <1>0, <1>1, <1>3 DEF Lists
    <2> QED  BY <2>1, <2>2, <2>3 DEF Lists, Increasing
  <1>10. Ordered'
    <2> SUFFICES ASSUME ~env.reprocess, NEW r \in Owed', NEW q \in Pending'
                 PROVE  r.fn < q.fn \/ \E p \in Pending' : p.fn = r.fn
      BY DEF Ordered
    <2>1. r.fn < q.fn \/ \E p \in Pending : p.fn = r.fn
      BY <1>0, <1>6 DEF Ordered
    <2> QED  BY <1>3, <1>6, <2>1
  <1>11. Dues'
    BY <1>1, <1>2 DEF Dues, NothingDue, outside
  <1>12. Walks'
    <2>1. /\ walk'.on /\ walk'.first = walk.first /\ walk'.hand = {}
          /\ walk' \in [on : BOOLEAN, first : Nat, hand : SUBSET Buffer]
      BY <1>1 DEF Walks
    <2>2. \A q \in Pending' : walk.first <= q.fn
      BY <1>1, <1>6 DEF Walks
    <2>3. ASSUME ~env.reprocess, NEW r \in Owed', walk.first <= r.fn
          PROVE  \E p \in Pending' : p.fn = r.fn
      <3>1. \E p \in Pending : p.fn = r.fn
        BY <1>1, <1>6, <2>3 DEF Walks
      <3> QED  BY <1>3, <1>6, <2>3, <3>1
    <2> QED  BY <1>1, <2>1, <2>2, <2>3 DEF Walks
  <1> QED  BY <1>2, <1>7, <1>8, <1>9, <1>10, <1>11, <1>12 DEF Base, Typed

\* When the loop ends nothing is owed to anybody.
LEMMA WalkEndsStep ==
    ASSUME Base, Walks, UNCHANGED env, WalkEnds
    PROVE  /\ Base' /\ Walks' /\ Quiet /\ walk.hand = {} /\ walk'.hand = {}
           /\ Owed = {} /\ Pending = {}
  <1>0. Typed /\ Places /\ Lists
    BY DEF Base
  <1>1. /\ UNCHANGED <<mState, mFlush, mPendingRequestsList,
                       mPendingBuffersMap, mPendingLiveRequest, batch,
                       mPendingBatchMap, mWokenUpByDaemon, due, metaCb,
                       signalled, nextFrame, asked, accepted, sent, shutter,
                       final, back>>
        /\ mPendingFrameDropList' = {} /\ streaming' \in BOOLEAN
        /\ walk.hand = {} /\ walk' = NoWalk /\ mPendingBuffersMap = <<>>
        /\ thread["request"].pc = "resume"
        /\ Goes("request", "register") \/ Leaves("request")
    BY DEF WalkEnds, batching, ledger, told, Walks
  <1>2. /\ TypedThreads' /\ ~thread'["request"].restart
        /\ \/ /\ thread'["request"].pc = "register"
              /\ thread'["request"].req = thread["request"].req
           \/ thread'["request"].pc = "out"
        /\ thread'["flush"] = thread["flush"]
    <2>1. CASE Goes("request", "register")
      BY <1>0, <2>1, GoesTyped DEF Typed, Places, Thread, RequestPc
    <2>2. CASE Leaves("request")
      BY <1>0, <2>2, LeavesTyped DEF Typed, Thread
    <2> QED  BY <1>1, <2>1, <2>2
  <1>3. TypedState' /\ TypedLists' /\ TypedBatch' /\ TypedDue' /\ TypedLedger'
    BY <1>0, <1>1 DEF Typed, TypedState, TypedLists, TypedBatch, TypedDue,
       TypedLedger
  <1>4. Places'
    BY <1>0, <1>1, <1>2 DEF Places, Restarting, Clearing, Thread
  <1>5. Quiet
    BY <1>0, <1>1, <1>2 DEF Quiet, Unseen, Restarting, Typed, TypedState
  <1>6. walk'.hand = {} /\ walk.hand = {}
    BY <1>1 DEF NoWalk
  <1>7. Fresh' /\ Lists' /\ Ordered' /\ Dues'
    BY <1>2, <1>3, <1>5, <1>6, QuietBooks
  <1>8. Walks'
    BY <1>1 DEF Walks, NoWalk
  <1>9. Owed = {} /\ Pending = {}
    BY <1>0, <1>1 DEF Owed, Range, Lists
  <1> QED  BY <1>2, <1>3, <1>4, <1>5, <1>6, <1>7, <1>8, <1>9 DEF Base, Typed

\* The loop keeps the books.
LEMMA dynamicUpdateMetaStreamInfoStep ==
    ASSUME Base, Walks, UNCHANGED env, dynamicUpdateMetaStreamInfo
    PROVE  Base' /\ Walks'
  BY WalkBeginsStep, EntryErasedStep, EntryAnsweredStep, WalkEndsStep
     DEF dynamicUpdateMetaStreamInfo

---------------------------------------------------------------------------
(* A request enters the lists                                              *)

\* A request that enters the lists is newer than all they hold.
LEMMA RegisteredBooks ==
    ASSUME Idle, Base, env' = env,
           NEW r \in [fn : Frame, bufs : SUBSET Streams, input : BOOLEAN],
           r.bufs # {}, r.input => env.reprocess,
           Registered(r), Unseen = r.fn, Unseen' = r.fn + 1,
           accepted' \subseteq accepted \cup {r.fn},
           sent' \subseteq sent \cup {r.fn}, metaCb' = metaCb,
           due'.bufs \cup due'.held \subseteq
              due.bufs \cup due.held \cup {r.fn} \X (r.bufs \cup {"input"}),
           due'.bufs \cap due'.held = {},
           \A i \in DOMAIN due'.meta :
              \/ \E j \in DOMAIN due.meta : due'.meta[i] = due.meta[j]
              \/ due'.meta[i] = r.fn,
           \A e \in mPendingBatchMap' : e \in mPendingBatchMap \/ e[1] = r.fn
    PROVE  /\ TypedLists' /\ TypedLedger' /\ Fresh' /\ Lists' /\ Ordered' /\ Dues'
           /\ Pending' = Pending \cup {[fn |-> r.fn, input |-> r.input,
                                        bufs |-> r.bufs, cached |-> {}]}
           /\ Owed' = Owed \cup {[fn |-> r.fn, bufs |-> r.bufs]}
           /\ asked' \in [Frame -> SUBSET Streams]
           /\ \A f \in Frame : asked'[f] = IF f = r.fn THEN r.bufs ELSE asked[f]
           /\ UNCHANGED <<shutter, final, back>>
  <1> DEFINE q == [fn |-> r.fn, input |-> r.input, bufs |-> r.bufs,
                   cached |-> {}]
             o == [fn |-> r.fn, bufs |-> r.bufs]
  <1>0. /\ TypedLists /\ TypedLedger /\ Fresh /\ Lists /\ Ordered /\ Dues
        /\ TypedState
    BY DEF Base, Typed
  <1>1. /\ mPendingRequestsList' = Append(mPendingRequestsList, q)
        /\ mPendingBuffersMap' = Append(mPendingBuffersMap, o)
        /\ asked' = [asked EXCEPT ![r.fn] = r.bufs]
        /\ UNCHANGED <<mPendingFrameDropList, shutter, final, back>>
    BY DEF Registered, told
  <1>2. q \in Request /\ o \in Buffer /\ r.fn \in Frame
    BY DEF Request, Buffer
  <1>3. /\ q.fn = r.fn /\ q.input = r.input /\ q.bufs = r.bufs /\ q.cached = {}
        /\ o.fn = r.fn /\ o.bufs = r.bufs
    OBVIOUS
  <1> HIDE DEF q, o
  <1>4. Entries(Request) /\ Entries(Buffer) /\ Frame \subseteq Nat
    BY FrameNat DEF Request, Entries
  <1>a. r.fn \in Nat /\ r.fn >= Unseen
    <2>1. r.fn \in Nat
      BY <1>2, <1>4
    <2>2. r.fn >= r.fn
      BY <2>1
    <2> QED  BY <2>1, <2>2
  <1>5. /\ \A x \in Pending : x \in Request /\ x.fn # r.fn
        /\ \A x \in Owed : x \in Buffer /\ x.fn # r.fn
    <2>1. /\ \A x \in Pending : x \in Request
          /\ \A x \in Owed : x \in Buffer
      BY <1>0, InRange, IdleOwed DEF TypedLists, Pending
    <2> QED  BY <1>0, <1>2, <1>a, <2>1 DEF Fresh
  <1>6. /\ \A x \in Pending : x.fn < r.fn
        /\ \A x \in Owed : x.fn < r.fn
    <2>1. \A x \in Pending : x.fn \in Frame /\ ~(x.fn >= r.fn)
      BY <1>0, <1>5 DEF Fresh, Request
    <2>2. \A x \in Owed : x.fn \in Frame /\ ~(x.fn >= r.fn)
      BY <1>0, <1>5 DEF Fresh, Buffer
    <2>3. \A f \in Frame : ~(f >= r.fn) => f < r.fn
      BY <1>4, <1>a
    <2> QED  BY <2>1, <2>2, <2>3
  <1>7. /\ mPendingRequestsList' \in Seq(Request) /\ Increasing(mPendingRequestsList')
        /\ Pending' = Pending \cup {q}
    BY <1>0, <1>1, <1>2, <1>3, <1>4, <1>6, Appended DEF Pending, TypedLists,
       Lists
  <1>8. /\ mPendingBuffersMap' \in Seq(Buffer) /\ Increasing(mPendingBuffersMap')
        /\ Owed' = Owed \cup {o}
    BY <1>0, <1>1, <1>2, <1>3, <1>4, <1>6, Appended, IdleOwed DEF TypedLists, Lists
  <1>9. TypedLists' /\ TypedLedger'
    <2>1. TypedLists'
      BY <1>0, <1>1, <1>7, <1>8 DEF TypedLists
    <2>2. /\ accepted' \subseteq Frame /\ sent' \subseteq Frame
          /\ asked' \in [Frame -> SUBSET Streams]
      BY <1>0, <1>1, <1>2 DEF TypedLedger
    <2> QED  BY <1>0, <1>1, <2>1, <2>2 DEF TypedLedger
  <1>10. \A f \in Frame : asked'[f] = IF f = r.fn THEN r.bufs ELSE asked[f]
    BY <1>0, <1>1 DEF TypedLedger
  <1>11. Fresh'
    <2> SUFFICES ASSUME NEW f \in Frame, f >= Unseen'
                 PROVE  /\ asked'[f] = {} /\ f \notin accepted' /\ f \notin sent'
                        /\ shutter'[f] = 0 /\ final'[f] = 0
                        /\ \A s \in Streams : back'[f][s] = 0
                        /\ \A x \in Pending' : x.fn # f
                        /\ \A x \in Owed' : x.fn # f
                        /\ \A x \in due'.bufs \cup due'.held : x[1] # f
                        /\ \A i \in DOMAIN due'.meta : due'.meta[i] # f
                        /\ \A i \in DOMAIN metaCb' : metaCb'[i] # f
                        /\ \A e \in mPendingBatchMap' : e[1] # f
      BY DEF Fresh
    <2>1. f >= Unseen /\ f # r.fn
      BY <1>2, <1>4
    <2>2. /\ asked[f] = {} /\ f \notin accepted /\ f \notin sent
          /\ shutter[f] = 0 /\ final[f] = 0
          /\ \A s \in Streams : back[f][s] = 0
          /\ \A x \in Pending : x.fn # f
          /\ \A x \in Owed : x.fn # f
          /\ \A x \in due.bufs \cup due.held : x[1] # f
          /\ \A i \in DOMAIN due.meta : due.meta[i] # f
          /\ \A i \in DOMAIN metaCb : metaCb[i] # f
          /\ \A e \in mPendingBatchMap : e[1] # f
      BY <1>0, <2>1 DEF Fresh
    <2>3. /\ asked'[f] = {} /\ f \notin accepted' /\ f \notin sent'
          /\ \A i \in DOMAIN metaCb' : metaCb'[i] # f
          /\ \A e \in mPendingBatchMap' : e[1] # f
      BY <1>10, <2>1, <2>2
    <2>4. /\ shutter'[f] = 0 /\ final'[f] = 0
          /\ \A s \in Streams : back'[f][s] = 0
      BY <1>1, <2>2
    <2>5. /\ \A x \in Pending' : x.fn # f
          /\ \A x \in Owed' : x.fn # f
      BY <1>3, <1>7, <1>8, <2>1, <2>2
    <2>6. \A x \in due'.bufs \cup due'.held : x[1] # f
      BY <2>1, <2>2
    <2>7. \A i \in DOMAIN due'.meta : due'.meta[i] # f
      BY <2>1, <2>2
    <2> QED  BY <2>3, <2>4, <2>5, <2>6, <2>7
  <1>12. Lists'
    <2>1. ASSUME NEW x \in Pending'
          PROVE  /\ x.bufs = asked'[x.fn] /\ x.cached \subseteq x.bufs
                 /\ final'[x.fn] = 0 /\ shutter'[x.fn] = 0
                 /\ \E y \in Owed' : y.fn = x.fn /\ y.bufs = x.bufs
                 /\ x.input => env'.reprocess
      <3>1. CASE x \in Pending
        <4>1. x.fn \in Frame /\ x.fn # r.fn
          BY <1>5, <3>1 DEF Request
        <4> QED  BY <1>0, <1>1, <1>8, <1>10, <3>1, <4>1 DEF Lists
      <3>2. CASE x = q
        <4>1. final[r.fn] = 0 /\ shutter[r.fn] = 0
          BY <1>0, <1>2, <1>a DEF Fresh
        <4> QED  BY <1>1, <1>2, <1>3, <1>8, <1>10, <3>2, <4>1
      <3> QED  BY <1>7, <3>1, <3>2
    <2>2. ASSUME NEW x \in Owed'
          PROVE  /\ x.bufs # {} /\ x.bufs \subseteq asked'[x.fn]
                 /\ \A s \in x.bufs : back'[x.fn][s] = 0
      <3>1. CASE x \in Owed
        <4>1. x.fn \in Frame /\ x.fn # r.fn
          BY <1>5, <3>1 DEF Buffer
        <4> QED  BY <1>0, <1>1, <1>10, <3>1, <4>1 DEF Lists
      <3>2. CASE x = o
        <4>1. \A s \in Streams : back[r.fn][s] = 0
          BY <1>0, <1>2, <1>a DEF Fresh
        <4> QED  BY <1>1, <1>2, <1>3, <1>10, <3>2, <4>1
      <3> QED  BY <1>8, <3>1, <3>2
    <2> QED  BY <1>7, <1>8, <2>1, <2>2 DEF Lists
  <1>13. Ordered'
    <2> SUFFICES ASSUME ~env.reprocess, NEW x \in Owed', NEW y \in Pending'
                 PROVE  x.fn < y.fn \/ \E p \in Pending' : p.fn = x.fn
      BY DEF Ordered
    <2>1. CASE x = o
      BY <1>3, <1>7, <2>1
    <2>2. CASE x \in Owed /\ y = q
      BY <1>3, <1>6, <2>2
    <2>3. CASE x \in Owed /\ y \in Pending
      BY <1>0, <1>7, <2>3 DEF Ordered
    <2> QED  BY <1>7, <1>8, <2>1, <2>2, <2>3
  <1>14. Dues'
    <2> SUFFICES ASSUME NEW x \in due'.bufs \cup due'.held, x[2] \in Streams
                 PROVE  /\ \E y \in Owed' : y.fn = x[1] /\ x[2] \in y.bufs
                        /\ \A p \in Pending' : p.fn = x[1] => x[2] \notin p.cached
      BY DEF Dues
    <2>1. CASE x \in due.bufs \cup due.held
      BY <1>0, <1>3, <1>7, <1>8, <2>1 DEF Dues
    <2>2. CASE x \in {r.fn} \X (r.bufs \cup {"input"})
      <3>1. x[1] = r.fn /\ x[2] \in r.bufs
        BY <2>2, QCamera3HWIAssumption
      <3> QED  BY <1>3, <1>5, <1>7, <1>8, <3>1
    <2> QED  BY <2>1, <2>2
  <1>15. /\ q = [fn |-> r.fn, input |-> r.input, bufs |-> r.bufs, cached |-> {}]
         /\ o = [fn |-> r.fn, bufs |-> r.bufs]
    BY DEF q, o
  <1>16. Pending' = Pending \cup {[fn |-> r.fn, input |-> r.input,
                                   bufs |-> r.bufs, cached |-> {}]}
    BY <1>7, <1>15, Zenon
  <1>17. Owed' = Owed \cup {[fn |-> r.fn, bufs |-> r.bufs]}
    BY <1>8, <1>15, Zenon
  <1>18. asked' \in [Frame -> SUBSET Streams]
    BY <1>9 DEF TypedLedger
  <1> QED  BY <1>1, <1>9, <1>10, <1>11, <1>12, <1>13, <1>14, <1>16, <1>17,
     <1>18

\* mBatchSize and the batch that is being filled.
Batch == [size : BatchSizes \cup {0}, queued : Nat, first : Frame \cup {0}]

\* A batch notes its first frame.
LEMMA BatchedTyped ==
    ASSUME NEW b \in Batch, b.queued > 0 => b.first \in Frame, NEW fn \in Frame
    PROVE  /\ Batched(b, fn) \in Batch /\ Batched(b, fn).first \in Frame
           /\ Batched(b, fn).size = b.size /\ Batched(b, fn).queued = b.queued
  <1>1. CASE b.queued = 0
    <2>1. Batched(b, fn) = [b EXCEPT !.first = fn]
      BY <1>1 DEF Batched
    <2> QED  BY <2>1 DEF Batch
  <1>2. CASE b.queued # 0
    <2>1. Batched(b, fn) = b
      BY <1>2 DEF Batched
    <2>2. b.queued > 0
      BY <1>2 DEF Batch
    <2> QED  BY <2>1, <2>2
  <1> QED  BY <1>1, <1>2

\* What a request adds to what is due, and to the books of its batch.
Grows(r) ==
    /\ due'.bufs \cup due'.held \subseteq
          due.bufs \cup due.held \cup {r.fn} \X (r.bufs \cup {"input"})
    /\ due'.bufs \cap due'.held = {}
    /\ \A i \in DOMAIN due'.meta :
          \/ \E j \in DOMAIN due.meta : due'.meta[i] = due.meta[j]
          \/ due'.meta[i] = r.fn
    /\ \A e \in mPendingBatchMap' : e \in mPendingBatchMap \/ e[1] = r.fn

\* What a request adds has the number of that request, or was held in its
\* batch.
LEMMA SentGrows ==
    ASSUME TypedDue, TypedBatch, due.bufs \cap due.held = {},
           NEW r \in [fn : Frame, bufs : SUBSET Streams, input : BOOLEAN],
           \A x \in due.bufs \cup due.held : x[1] # r.fn,
           NEW b \in Batch, b.first \in Frame, Sent(r, b), metaCb' = metaCb
    PROVE  TypedDue' /\ TypedBatch' /\ Grows(r) /\ batch'.size = b.size
  <1> DEFINE bufs == {r.fn} \X r.bufs
  <1>1. /\ due \in [meta : Seq(Frame),
                    bufs : SUBSET (Frame \X (Streams \cup {"input"})),
                    held : SUBSET (Frame \X Streams)]
        /\ metaCb \in Seq(Frame) /\ mPendingBatchMap \subseteq Frame \X Frame
    BY DEF TypedDue, TypedBatch
  <1>2. bufs \subseteq Frame \X Streams
    OBVIOUS
  <1>3. CASE /\ b.size > 0 /\ b.queued + 1 < b.size
             /\ due' = [due EXCEPT !.held = @ \cup bufs]
             /\ batch' = [b EXCEPT !.queued = @ + 1]
             /\ UNCHANGED mPendingBatchMap
    <2>1. due'.bufs = due.bufs /\ due'.held = due.held \cup bufs
          /\ due'.meta = due.meta
      BY <1>1, <1>3
    <2>2. TypedDue'
      BY <1>1, <1>2, <1>3 DEF TypedDue
    <2>3. TypedBatch' /\ batch'.size = b.size
      BY <1>1, <1>3 DEF TypedBatch, Batch
    <2>4. Grows(r)
      BY <1>3, <2>1 DEF Grows
    <2> QED  BY <2>2, <2>3, <2>4
  <1>4. CASE /\ due' = [meta |-> Append(due.meta, r.fn), held |-> {},
                        bufs |-> due.bufs \cup due.held \cup bufs]
             /\ batch' = [b EXCEPT !.queued = 0]
             /\ mPendingBatchMap' = mPendingBatchMap \cup {<<r.fn, b.first>>}
    <2>1. /\ due'.bufs = due.bufs \cup due.held \cup bufs /\ due'.held = {}
          /\ due'.meta = Append(due.meta, r.fn)
      BY <1>4
    <2>2. TypedDue'
      <3>1. Append(due.meta, r.fn) \in Seq(Frame)
        BY <1>1
      <3>2. due.bufs \cup due.held \cup bufs \subseteq Frame \X (Streams \cup {"input"})
        BY <1>1, <1>2
      <3> QED  BY <1>1, <1>4, <3>1, <3>2 DEF TypedDue
    <2>3. TypedBatch' /\ batch'.size = b.size
      <3>1. batch' \in Batch /\ batch'.queued = 0 /\ batch'.size = b.size
        BY <1>4 DEF Batch
      <3>2. mPendingBatchMap' \subseteq Frame \X Frame
        <4>1. <<r.fn, b.first>> \in Frame \X Frame
          OBVIOUS
        <4> QED  BY <1>1, <1>4, <4>1, Zenon
      <3> QED  BY <3>1, <3>2 DEF TypedBatch, Batch
    <2>4. \A i \in DOMAIN due'.meta :
            \/ \E j \in DOMAIN due.meta : due'.meta[i] = due.meta[j]
            \/ due'.meta[i] = r.fn
      BY <1>1, <2>1
    <2>5. Grows(r)
      BY <1>4, <2>1, <2>4 DEF Grows
    <2> QED  BY <2>2, <2>3, <2>5
  <1> QED  BY <1>3, <1>4 DEF Sent

\* A request enters the lists: its number is the first that no list has seen,
\* and the device is set up for it (u).
Entering(r, u) ==
    /\ r \in [fn : Frame, bufs : SUBSET Streams, input : BOOLEAN]
    /\ r.bufs # {}
    /\ r.input => env.reprocess /\ u.batch.size = 0
    /\ u.live \in Int /\ u.woken \in BOOLEAN /\ u.streaming \in BOOLEAN
    /\ u.batch \in Batch
    /\ u.batch.queued > 0 => u.batch.first \in Frame
    /\ \/ /\ mState = "CONFIGURED" /\ thread["request"].pc = "out"
          /\ u.live = 0 /\ u.batch.size \in env.sizes
       \/ /\ \/ mState = "STARTED" /\ thread["request"].pc = "out"
             \/ thread["request"].pc = "register"
          /\ u.live = mPendingLiveRequest /\ u.batch = batch
    /\ Accepted(r, u)
    /\ Unseen = r.fn /\ nextFrame' = r.fn + 1
    /\ UNCHANGED <<env, mFlush>>

\* Every way processCaptureRequest ends.
LEMMA AcceptedStep ==
    ASSUME Idle, Base, NEW r, NEW u, Entering(r, u)
    PROVE  /\ Base' /\ Registered(r) /\ metaCb' = metaCb 
           /\ thread'["request"].pc \in {"out", "wait"}
           /\ thread'["flush"] = thread["flush"]
           /\ Unseen' = r.fn + 1
           /\ accepted' \subseteq accepted \cup {r.fn}
           /\ Pending' = Pending \cup {[fn |-> r.fn, input |-> r.input,
                                        bufs |-> r.bufs, cached |-> {}]}
           /\ Owed' = Owed \cup {[fn |-> r.fn, bufs |-> r.bufs]}
  <1>0. Typed /\ Places /\ Fresh /\ Dues
    BY DEF Base
  <1>e. /\ r \in [fn : Frame, bufs : SUBSET Streams, input : BOOLEAN]
        /\ r.bufs # {} /\ (r.input => env.reprocess)
        /\ u.live \in Int /\ u.woken \in BOOLEAN /\ u.streaming \in BOOLEAN
        /\ u.batch \in Batch /\ (u.batch.queued > 0 => u.batch.first \in Frame)
        /\ Accepted(r, u) /\ Unseen = r.fn /\ nextFrame' = r.fn + 1
        /\ thread["request"].pc \in {"out", "register"}
        /\ mState \in {"CONFIGURED", "STARTED"} \/ thread["request"].pc = "register"
        /\ UNCHANGED <<env, mFlush>>
    BY DEF Entering
  <1> USE <1>e
  <1>1. /\ TypedThreads' /\ ~thread'["request"].restart
        /\ thread'["request"].pc \in {"out", "wait"}
        /\ thread'["flush"] = thread["flush"]
    <2>1. \/ Leaves("request")
          \/ thread' = [thread EXCEPT !["request"] = [@ EXCEPT !.pc = "wait", !.req = r]]
      BY DEF Accepted, LeftToFlush, ChannelRefuses, LiveAccepted,
         ReprocessAccepted
    <2>2. CASE Leaves("request")
      BY <1>0, <2>2, LeavesTyped DEF Typed, Thread
    <2>3. CASE thread' = [thread EXCEPT !["request"] = [@ EXCEPT !.pc = "wait", !.req = r]]
      BY <1>0, <2>3 DEF Typed, TypedThreads, Places, Thread, RequestPc
    <2> QED  BY <2>1, <2>2, <2>3
  <1>2. r.fn \in Nat /\ r.fn + 1 \in 1..(MaxFrame + 1) /\ ~Restarting'
    BY <1>1, FrameNat DEF Restarting, Frame
  <1>3. Unseen' = r.fn + 1
    BY <1>2 DEF Unseen
  <1>4. \A x \in due.bufs \cup due.held : x[1] # r.fn
    <2>1. r.fn >= r.fn
      BY <1>2
    <2> QED  BY <1>0, <2>1 DEF Fresh
  <1>5. due.bufs \cap due.held = {} /\ TypedDue /\ TypedBatch
    BY <1>0 DEF Dues, Typed
  <1>6. Clearing => mFlush
    <2>1. thread["flush"].pc = "notify" => mFlush
      <3>1. thread["request"].pc # "deinit" /\ (Restarting \/ mState \notin {"ERROR", "DEINIT"})
        BY DEF Restarting
      <3> QED  BY <1>0, <3>1 DEF Places
    <2> QED  BY <2>1 DEF Clearing, Thread
  <1>7. /\ Registered(r) /\ metaCb' = metaCb
        /\ accepted' \subseteq accepted \cup {r.fn}
        /\ sent' \subseteq sent \cup {r.fn}
        /\ mState' \in {mState, "STARTED"}
        /\ mPendingLiveRequest' \in Int /\ mWokenUpByDaemon' \in BOOLEAN
        /\ streaming' \in BOOLEAN /\ signalled' \in BOOLEAN
    <2>1. CASE LeftToFlush(r, u)
      BY <2>1, <1>0 DEF LeftToFlush, Typed, TypedState
    <2>2. CASE ChannelRefuses(r, u)
      BY <2>2, <1>0 DEF ChannelRefuses, Typed, TypedState
    <2>3. CASE LiveAccepted(r, u)
      <3>1. signalled' \in {FALSE, signalled}
        BY <2>3, Zenon DEF LiveAccepted
      <3>2. signalled' \in BOOLEAN
        BY <1>0, <3>1, Zenon DEF Typed, TypedState
      <3>3. /\ Registered(r) /\ UNCHANGED metaCb
            /\ accepted' = accepted \cup {r.fn} /\ sent' = sent \cup {r.fn}
            /\ mPendingLiveRequest' = u.live + 1 /\ mState' = "STARTED"
            /\ mWokenUpByDaemon' = u.woken /\ streaming' = u.streaming
        BY <2>3 DEF LiveAccepted
      <3> QED  BY <3>2, <3>3
    <2>4. CASE ReprocessAccepted(r, u)
      BY <2>4, <1>0 DEF ReprocessAccepted, Typed, TypedState
    <2> QED  BY <2>1, <2>2, <2>3, <2>4 DEF Accepted
  <1>8. TypedDue' /\ TypedBatch' /\ Grows(r)
    <2> USE DEF TypedDue, TypedBatch
    <2>b. /\ Batched(u.batch, r.fn) \in Batch /\ Batched(u.batch, r.fn).first \in Frame
      BY BatchedTyped
    <2>1. CASE LeftToFlush(r, u)
      <3>1. /\ UNCHANGED <<mPendingBatchMap, due, metaCb>>
            /\ batch' \in {u.batch, Batched(u.batch, r.fn)}
        BY <2>1 DEF LeftToFlush
      <3>2. TypedBatch'
        BY <1>5, <2>b, <3>1 DEF Batch
      <3> QED  BY <1>5, <3>1, <3>2 DEF Grows
    <2>2. CASE ChannelRefuses(r, u)
      <3>1. /\ UNCHANGED <<mPendingBatchMap, metaCb>> /\ batch' = u.batch
        BY <2>2 DEF ChannelRefuses
      <3>2. PICK part \in SUBSET r.bufs :
                due' = [due EXCEPT !.bufs = @ \cup ({r.fn} \X part)]
        BY <2>2 DEF ChannelRefuses
      <3>3. /\ due'.bufs = due.bufs \cup ({r.fn} \X part) /\ due'.held = due.held
            /\ due'.meta = due.meta
        BY <1>5, <3>2
      <3>4. TypedDue'
        BY <1>5, <3>1, <3>2
      <3>5. TypedBatch'
        BY <1>5, <3>1 DEF Batch
      <3> QED  BY <1>4, <1>5, <3>1, <3>3, <3>4, <3>5 DEF Grows
    <2>3. CASE LiveAccepted(r, u)
      <3>1. Sent(r, Batched(u.batch, r.fn)) /\ metaCb' = metaCb
        BY <2>3 DEF LiveAccepted
      <3> QED  BY <1>4, <1>5, <2>b, <3>1, SentGrows
    <2>4. CASE ReprocessAccepted(r, u)
      <3>1. /\ UNCHANGED <<mPendingBatchMap, metaCb>> /\ batch' = u.batch
            /\ due' = [due EXCEPT !.bufs = @ \cup ({r.fn} \X (r.bufs \cup {"input"}))]
        BY <2>4 DEF ReprocessAccepted
      <3>3. /\ due'.bufs = due.bufs \cup ({r.fn} \X (r.bufs \cup {"input"}))
            /\ due'.held = due.held /\ due'.meta = due.meta
        BY <1>5, <3>1
      <3>4. TypedDue'
        BY <1>5, <3>1
      <3>5. TypedBatch'
        BY <1>5, <3>1 DEF Batch
      <3> QED  BY <1>4, <1>5, <3>1, <3>3, <3>4, <3>5 DEF Grows
    <2> QED  BY <2>1, <2>2, <2>3, <2>4 DEF Accepted
  <1>9. /\ TypedLists' /\ TypedLedger' /\ Fresh' /\ Lists' /\ Ordered' /\ Dues'
        /\ Pending' = Pending \cup {[fn |-> r.fn, input |-> r.input,
                                     bufs |-> r.bufs, cached |-> {}]}
        /\ Owed' = Owed \cup {[fn |-> r.fn, bufs |-> r.bufs]}
    BY <1>3, <1>7, <1>8, RegisteredBooks DEF Grows
  <1>10. TypedState'
    <2>1. mState' \in State /\ mFlush' \in BOOLEAN
      BY <1>0, <1>7, Zenon DEF Typed, TypedState, State
    <2> QED  BY <1>0, <1>2, <1>7, <2>1 DEF Typed, TypedState
  <1>11. Places'
    <2>1. Clearing' => due' = NothingDue /\ metaCb' = <<>>
      <3> SUFFICES ASSUME Clearing' PROVE due' = NothingDue /\ metaCb' = <<>>
        OBVIOUS
      <3>1. Clearing
        BY <1>1 DEF Clearing, Thread
      <3>2. mFlush
        BY <1>6, <3>1
      <3>3. due' = due
        BY <3>2 DEF Accepted, LeftToFlush, ChannelRefuses, LiveAccepted,
           ReprocessAccepted
      <3> QED  BY <1>0, <1>7, <3>1, <3>3 DEF Places
    <2>2. thread["flush"].pc \in {"stop", "notify"} => mFlush
      <3>1. thread["request"].pc # "deinit" /\ (Restarting \/ mState \notin {"ERROR", "DEINIT"})
        BY DEF Restarting
      <3> QED  BY <1>0, <3>1 DEF Places
    <2>3. thread'["flush"].pc \in {"stop", "notify"} => mFlush'
      BY <1>1, <2>2
    <2> QED  BY <1>1, <1>2, <2>1, <2>3 DEF Places
  <1> QED  BY <1>1, <1>3, <1>7, <1>8, <1>9, <1>10, <1>11 DEF Base, Typed

\* processCaptureRequest lets a request enter, after a setup if it is the
\* first.
LEMMA processCaptureRequestEnters ==
    ASSUME Base, UNCHANGED env, processCaptureRequest
    PROVE  \E r, u : Entering(r, u)
  <1>0. Typed
    BY DEF Base
  <1>a. /\ nextFrame \in Frame /\ nextFrame' = nextFrame + 1
        /\ thread["request"].pc = "out" /\ ~Restarting
    BY <1>0, AskingNext DEF processCaptureRequest
  <1>1. /\ nextFrame \in Frame /\ nextFrame' = nextFrame + 1
        /\ thread["request"].pc = "out" /\ ~Restarting
        /\ mState \in {"CONFIGURED", "STARTED"} /\ mFlush' = mFlush
    BY <1>a DEF processCaptureRequest
  <1>2. PICK size \in IF mState = "CONFIGURED" THEN env.sizes ELSE {batch.size} :
            \E r \in Requests(size) : Accepted(r, Setup(size))
    BY DEF processCaptureRequest
  <1>3. PICK r \in Requests(size) : Accepted(r, Setup(size))
    BY <1>2
  <1>4. size \in BatchSizes \cup {0}
    BY <1>0, QCamera3HWIAssumption DEF Typed, TypedState, TypedBatch
  <1>5. /\ r \in [fn : Frame, bufs : SUBSET Streams, input : BOOLEAN]
        /\ r.fn = nextFrame /\ r.bufs # {}
        /\ r.input => env.reprocess /\ size = 0
    <2>1. /\ r \in [fn : Frame \cup {0}, bufs : SUBSET Streams, input : BOOLEAN]
          /\ r.fn = nextFrame /\ r.bufs # {}
          /\ r.input => env.reprocess /\ size = 0
      BY <1>0, <1>1, RequestsTyped
    <2> QED  BY <1>1, <2>1
  <1> DEFINE u == Setup(size)
  <1>6. /\ u.live \in Int /\ u.woken \in BOOLEAN /\ u.streaming \in BOOLEAN
        /\ u.batch \in Batch /\ (u.batch.queued > 0 => u.batch.first \in Frame)
        /\ mState = "CONFIGURED" => u.live = 0 /\ u.batch.size = size
        /\ mState # "CONFIGURED" => u.live = mPendingLiveRequest /\ u.batch = batch
    BY <1>0, <1>4, SetupTyped DEF Batch
  <1>7. Accepted(r, u)
    BY <1>3
  <1> HIDE DEF u
  <1>8. Unseen = r.fn /\ nextFrame' = r.fn + 1
    BY <1>1, <1>5 DEF Unseen
  <1>9. u.batch.size = size
    BY <1>2, <1>6
  <1>10. \/ mState = "CONFIGURED" /\ u.live = 0 /\ u.batch.size \in env.sizes
         \/ mState = "STARTED" /\ u.live = mPendingLiveRequest /\ u.batch = batch
    BY <1>1, <1>2, <1>6
  <1>11. Entering(r, u)
    BY <1>1, <1>5, <1>6, <1>7, <1>8, <1>9, <1>10 DEF Entering
  <1> QED  BY <1>11

\* So does the rest of the sensor restart.
LEMMA SensorRestartedEnters ==
    ASSUME Base, UNCHANGED env, SensorRestarted
    PROVE  \E r, u : Entering(r, u)
  <1>0. Typed /\ Places
    BY DEF Base
  <1> DEFINE r == thread["request"].req
             u == [live |-> mPendingLiveRequest, woken |-> mWokenUpByDaemon,
                   streaming |-> streaming, batch |-> batch]
  <1>1. /\ thread["request"].pc = "register" /\ mFlush' = mFlush
        /\ nextFrame' = nextFrame /\ Accepted(r, u)
    BY DEF SensorRestarted
  <1>2. Restarting
    BY <1>1 DEF Restarting
  <1>3. /\ r.fn = nextFrame - 1 /\ r.fn \in Frame /\ r.bufs # {} /\ ~r.input
    BY <1>0, <1>2 DEF Places
  <1>4. r \in [fn : Frame, bufs : SUBSET Streams, input : BOOLEAN]
    BY <1>0, <1>3 DEF Typed, TypedThreads, Thread
  <1>5. /\ u.live \in Int /\ u.woken \in BOOLEAN /\ u.streaming \in BOOLEAN
        /\ u.batch \in Batch /\ (u.batch.queued > 0 => u.batch.first \in Frame)
        /\ u.live = mPendingLiveRequest /\ u.batch = batch
    BY <1>0 DEF Typed, TypedState, TypedBatch, Batch
  <1> HIDE DEF u, r
  <1>6. Unseen = r.fn /\ nextFrame' = r.fn + 1
    BY <1>0, <1>1, <1>2, <1>3 DEF Unseen, Typed, TypedState
  <1>7. Entering(r, u)
    BY <1>1, <1>3, <1>4, <1>5, <1>6 DEF Entering
  <1> QED  BY <1>7

\* Both keep the books.
LEMMA RegistersStep ==
    ASSUME Idle, Base, UNCHANGED env, processCaptureRequest \/ SensorRestarted
    PROVE  Base'
  <1>1. PICK r, u : Entering(r, u)
    BY processCaptureRequestEnters, SensorRestartedEnters
  <1> QED  BY <1>1, AcceptedStep

---------------------------------------------------------------------------
(* Metadata and buffers                                                    *)

\* A metadata buffer that changes no list: only which frames it is for.
LEMMA MetaBooks ==
    ASSUME Idle, Base, TypedState', TypedDue',
           UNCHANGED <<env, mPendingRequestsList, mPendingBuffersMap, asked,
                       accepted, sent, shutter, final, back, thread, nextFrame>>,
           due'.bufs = due.bufs, due'.held = due.held,
           \A i \in DOMAIN due'.meta :
              \E j \in DOMAIN due.meta : due'.meta[i] = due.meta[j],
           \A i \in DOMAIN metaCb' : metaCb'[i] < Unseen,
           mPendingBatchMap' \subseteq mPendingBatchMap
    PROVE  Fresh' /\ Lists' /\ Ordered' /\ Dues'
  <1>1. Unseen' = Unseen /\ Unseen \in Int
    BY DEF Base, Typed, TypedState, Unseen, Restarting
  <1>2. Fresh'
    <2>1. \A f \in Frame : f >= Unseen => \A i \in DOMAIN metaCb' : metaCb'[i] # f
      <3> SUFFICES ASSUME NEW f \in Frame, f >= Unseen,
                          NEW i \in DOMAIN metaCb', metaCb'[i] = f
                   PROVE  FALSE
        OBVIOUS
      <3>1. f < Unseen
        OBVIOUS
      <3>2. f \in Nat
        BY FrameNat
      <3> QED  BY <1>1, <3>1, <3>2
    <2> QED  BY <1>1, <2>1, IdleOwed DEF Base, Fresh, Pending
  <1>3. Lists' /\ Ordered'
    <2>1. /\ Pending' = Pending /\ Owed' = Owed
          /\ UNCHANGED <<env, mPendingRequestsList, mPendingBuffersMap, asked,
                         shutter, final, back>>
      BY IdleOwed DEF Pending
    <2>2. Lists'
      BY <2>1 DEF Base, Lists, Increasing
    <2>3. Ordered'
      BY <2>1 DEF Base, Ordered
    <2> QED  BY <2>2, <2>3
  <1>4. Dues'
    BY IdleOwed DEF Base, Dues, Pending
  <1> QED  BY <1>2, <1>3, <1>4

\* The steps that do not move a thread, at a place where no list is cleared.
LEMMA SamePlaces ==
    ASSUME Places, ~Clearing, UNCHANGED <<thread, mFlush, nextFrame>>,
           mState \in {"ERROR", "DEINIT"} => mState' = mState
    PROVE  Places'
  BY DEF Places, Clearing, Restarting

\* What the callback handles and what is due has a number that was given out.
LEMMA Seen ==
    ASSUME Base
    PROVE  /\ \A i \in DOMAIN due.meta : due.meta[i] \in Frame /\ due.meta[i] < Unseen
           /\ \A i \in DOMAIN metaCb : metaCb[i] \in Frame /\ metaCb[i] < Unseen
           /\ \A e \in mPendingBatchMap : e[1] \in Frame /\ e[2] \in Frame /\ e[1] < Unseen
           /\ \A x \in due.bufs \cup due.held : x[1] \in Frame /\ x[1] < Unseen
           /\ \A q \in Pending : q \in Request /\ q.fn < Unseen
           /\ \A r \in Range(mPendingBuffersMap) : r \in Buffer /\ r.fn < Unseen
  <1>0. Typed /\ Fresh /\ Unseen \in Int
    BY DEF Base, Typed, TypedState, Unseen
  <1>1. /\ \A i \in DOMAIN due.meta : due.meta[i] \in Frame
        /\ \A i \in DOMAIN metaCb : metaCb[i] \in Frame
        /\ \A e \in mPendingBatchMap : e[1] \in Frame /\ e[2] \in Frame
        /\ \A x \in due.bufs \cup due.held : x[1] \in Frame
    BY <1>0 DEF Typed, TypedDue, TypedBatch
  <1>2. /\ \A q \in Pending : q \in Request /\ q.fn \in Frame
        /\ \A r \in Range(mPendingBuffersMap) : r \in Buffer /\ r.fn \in Frame
    <2>1. /\ \A q \in Pending : q \in Request
          /\ \A r \in Range(mPendingBuffersMap) : r \in Buffer
      BY <1>0, InRange DEF Typed, TypedLists, Pending
    <2> QED  BY <2>1 DEF Request, Buffer
  <1>3. \A f \in Frame : ~(f >= Unseen) => f < Unseen
    BY <1>0, FrameNat
  <1> QED  BY <1>0, <1>1, <1>2, <1>3 DEF Fresh, Owed

\* Some buffers of a frame are given back.
LEMMA OwedBooks ==
    ASSUME Idle, TypedLists, TypedLedger, Lists, NEW fn \in Frame,
           NEW bufs \in SUBSET Streams,
           mPendingBuffersMap' = removeBufs(mPendingBuffersMap, fn, bufs),
           back' = Returned(back, fn, bufs), asked' = asked
    PROVE  /\ mPendingBuffersMap' \in Seq(Buffer)
           /\ Increasing(mPendingBuffersMap')
           /\ back' \in [Frame -> [Streams -> Nat]]
           /\ \A f \in Frame, s \in Streams :
                 back'[f][s] = IF f = fn /\ s \in bufs THEN back[f][s] + 1
                               ELSE back[f][s]
           /\ \A r \in Owed' :
                 /\ r.bufs # {} /\ r.bufs \subseteq asked'[r.fn]
                 /\ \A s \in r.bufs : back'[r.fn][s] = 0
                 /\ \E o \in Owed : o.fn = r.fn
           /\ \A o \in Owed : o.fn # fn => o \in Owed'
           /\ \A o \in Owed : \A s \in o.bufs :
                 ~ (o.fn = fn /\ s \in bufs) =>
                    \E r \in Owed' : r.fn = o.fn /\ s \in r.bufs
           /\ \A r \in Owed' : r.fn = fn => r.bufs \cap bufs = {}
  <1> DEFINE t == removeBufs(mPendingBuffersMap, fn, bufs)
  <1>1. /\ mPendingBuffersMap \in Seq(Buffer) /\ Increasing(mPendingBuffersMap)
        /\ back \in [Frame -> [Streams -> Nat]]
        /\ \A r \in Owed : r \in Buffer
    BY InRange, IdleOwed DEF TypedLists, TypedLedger, Lists
  <1>2. /\ t \in Seq(Buffer) /\ Increasing(t)
        /\ \A r \in Range(t) :
              \/ r.fn # fn /\ r \in Owed
              \/ /\ r.fn = fn /\ r.bufs # {}
                 /\ \E o \in Owed : o.fn = fn /\ r.bufs = o.bufs \ bufs
        /\ \A o \in Owed :
              /\ o.fn # fn => o \in Range(t)
              /\ o.fn = fn /\ o.bufs \ bufs # {} =>
                    \E r \in Range(t) : r.fn = fn /\ r.bufs = o.bufs \ bufs
    <2> HIDE DEF t
    <2>1. t = removeBufs(mPendingBuffersMap, fn, bufs)
      BY DEF t
    <2>a. mPendingBuffersMap \in Seq(Buffer) /\ Increasing(mPendingBuffersMap)
      BY <1>1
    <2>2. t \in Seq(Buffer) /\ Increasing(t)
      BY <2>a, <2>1, RemovedBufs
    <2>3. \A r \in Range(t) :
             \/ r.fn # fn /\ r \in Range(mPendingBuffersMap)
             \/ /\ r.fn = fn /\ r.bufs # {}
                /\ \E o \in Range(mPendingBuffersMap) :
                      o.fn = fn /\ r.bufs = o.bufs \ bufs
      BY <2>a, <2>1, RemovedBufs, SMT
    <2>4. \A o \in Range(mPendingBuffersMap) :
             /\ o.fn # fn => o \in Range(t)
             /\ o.fn = fn /\ o.bufs \ bufs # {} =>
                   \E r \in Range(t) : r.fn = fn /\ r.bufs = o.bufs \ bufs
      BY <2>a, <2>1, RemovedBufs, SMT
    <2> QED  BY <2>2, <2>3, <2>4, IdleOwed, Zenon
  <1> HIDE DEF t
  <1>3. Owed' = Range(t) /\ mPendingBuffersMap' = t
    BY IdleOwed DEF t
  <1>4. /\ back' \in [Frame -> [Streams -> Nat]]
        /\ \A f \in Frame, s \in Streams :
              back'[f][s] = IF f = fn /\ s \in bufs THEN back[f][s] + 1
                            ELSE back[f][s]
    BY <1>1 DEF Returned
  <1>5. ASSUME NEW r \in Owed'
        PROVE  /\ r.bufs # {} /\ r.bufs \subseteq asked'[r.fn]
               /\ \A s \in r.bufs : back'[r.fn][s] = 0
               /\ \E o \in Owed : o.fn = r.fn
    <2>1. CASE r.fn # fn /\ r \in Owed
      <3>1. r.bufs # {} /\ r.bufs \subseteq asked[r.fn] /\ r \in Buffer
            /\ \A s \in r.bufs : back[r.fn][s] = 0
        BY <1>1, <2>1 DEF Lists
      <3>2. r.fn \in Frame /\ r.bufs \subseteq Streams
        BY <3>1 DEF Buffer
      <3>3. \A s \in r.bufs : back'[r.fn][s] = back[r.fn][s]
        BY <1>4, <2>1, <3>2
      <3> QED  BY <2>1, <3>1, <3>3
    <2>2. CASE /\ r.fn = fn /\ r.bufs # {}
               /\ \E o \in Owed : o.fn = fn /\ r.bufs = o.bufs \ bufs
      <3>1. PICK o \in Owed : o.fn = fn /\ r.bufs = o.bufs \ bufs
        BY <2>2
      <3>2. o.bufs \subseteq asked[fn] /\ o \in Buffer
            /\ \A s \in o.bufs : back[fn][s] = 0
        BY <1>1, <3>1 DEF Lists
      <3>3. \A s \in r.bufs : s \in Streams /\ s \notin bufs
        BY <3>1, <3>2 DEF Buffer
      <3>4. \A s \in r.bufs : back'[fn][s] = back[fn][s]
        BY <1>4, <3>3
      <3> QED  BY <2>2, <3>1, <3>2, <3>4
    <2> QED  BY <1>2, <1>3, <2>1, <2>2
  <1>6. \A o \in Owed : o.fn # fn => o \in Owed'
    BY <1>2, <1>3
  <1>7. ASSUME NEW o \in Owed, NEW s \in o.bufs, ~ (o.fn = fn /\ s \in bufs)
        PROVE  \E r \in Owed' : r.fn = o.fn /\ s \in r.bufs
    <2>1. CASE o.fn # fn
      BY <1>6, <2>1
    <2>2. CASE o.fn = fn
      <3>1. s \in o.bufs \ bufs
        BY <1>7, <2>2
      <3> QED  BY <1>2, <1>3, <2>2, <3>1
    <2> QED  BY <2>1, <2>2
  <1>8. \A r \in Owed' : r.fn = fn => r.bufs \cap bufs = {}
    BY <1>2, <1>3
  <1> QED  BY <1>2, <1>3, <1>4, <1>5, <1>6, <1>7, <1>8

\* A buffer of metadata names the frames it is for.
LEMMA handleBatchMetadataStep ==
    ASSUME Idle, Base, UNCHANGED env, handleBatchMetadata
    PROVE  Base'
  <1>0. Typed /\ Places /\ Fresh
    BY DEF Base
  <1>1. /\ metaCb = <<>> /\ due.meta # <<>>
        /\ due' = [due EXCEPT !.meta = Tail(@)]
        /\ UNCHANGED <<mState, mFlush, mPendingRequestsList, mPendingBuffersMap,
                       mPendingFrameDropList, mPendingLiveRequest, batch,
                       mWokenUpByDaemon, streaming, thread, signalled,
                       nextFrame, asked, accepted, sent, shutter, final, back>>
    BY DEF handleBatchMetadata, lists, ledger, told
  <1> DEFINE last == Head(due.meta)
  <1>2. /\ due.meta \in Seq(Frame) /\ last \in Frame /\ last = due.meta[1]
        /\ 1 \in DOMAIN due.meta /\ Tail(due.meta) \in Seq(Frame)
        /\ \A i \in DOMAIN Tail(due.meta) :
              \E j \in DOMAIN due.meta : Tail(due.meta)[i] = due.meta[j]
    BY <1>0, <1>1 DEF Typed, TypedDue
  <1>3. /\ due'.meta = Tail(due.meta) /\ due'.bufs = due.bufs
        /\ due'.held = due.held
    BY <1>0, <1>1 DEF Typed, TypedDue
  <1>4. last < Unseen /\ Unseen \in Int
    BY <1>0, <1>2, Seen DEF Typed, TypedState, Unseen
  <1> HIDE DEF last
  <1>5. /\ metaCb' \in Seq(Frame) /\ mPendingBatchMap' \subseteq mPendingBatchMap
        /\ \A i \in DOMAIN metaCb' : metaCb'[i] < Unseen
    <2>1. CASE metaCb' = <<last>> /\ UNCHANGED mPendingBatchMap
      BY <1>2, <1>4, <2>1
    <2>2. ASSUME NEW e \in mPendingBatchMap, e[1] = last,
                 metaCb' = [i \in 1..(last + 1 - e[2]) |-> e[2] + i - 1],
                 mPendingBatchMap' = mPendingBatchMap \ {e}
          PROVE  /\ metaCb' \in Seq(Frame)
                 /\ mPendingBatchMap' \subseteq mPendingBatchMap
                 /\ \A i \in DOMAIN metaCb' : metaCb'[i] < Unseen
      <3>1. e[2] \in Frame /\ e[2] \in Nat /\ last \in Nat /\ MaxFrame \in Nat
            /\ last <= MaxFrame /\ e[2] >= 1
        BY <1>2, FrameNat, Seen DEF Frame
      <3>2. \A i \in 1..(last + 1 - e[2]) :
               e[2] + i - 1 \in Frame /\ e[2] + i - 1 < Unseen
        BY <1>4, <3>1 DEF Frame
      <3>3. PICK n \in Nat : 1..(last + 1 - e[2]) = 1..n
        <4>1. CASE last + 1 - e[2] \in Nat
          BY <4>1
        <4>2. CASE last + 1 - e[2] \notin Nat
          <5>1. 1..(last + 1 - e[2]) = 1..0
            BY <3>1, <4>2
          <5> QED  BY <5>1
        <4> QED  BY <4>1, <4>2
      <3>4. metaCb' \in [1..n -> Frame]
        BY <2>2, <3>2, <3>3
      <3>5. metaCb' \in Seq(Frame)
        BY <3>4, SeqDef
      <3>6. \A i \in DOMAIN metaCb' : metaCb'[i] < Unseen
        BY <2>2, <3>2
      <3> QED  BY <2>2, <3>5, <3>6
    <2> QED  BY <2>1, <2>2 DEF handleBatchMetadata, last
  <1>6. TypedState' /\ TypedLists' /\ TypedThreads' /\ TypedLedger'
    BY <1>0, <1>1 DEF Typed, TypedState, TypedLists, TypedThreads, TypedLedger
  <1>7. TypedBatch' /\ TypedDue'
    BY <1>0, <1>1, <1>2, <1>5 DEF Typed, TypedBatch, TypedDue
  <1>8. ~Clearing
    BY <1>0, <1>1 DEF Places, NothingDue
  <1>9. Places'
    BY <1>0, <1>1, <1>8, SamePlaces
  <1>10. Fresh' /\ Lists' /\ Ordered' /\ Dues'
    BY <1>1, <1>2, <1>3, <1>5, <1>6, <1>7, MetaBooks
  <1> QED  BY <1>6, <1>7, <1>9, <1>10 DEF Base, Typed

\* The request of a frame has ended: it leaves the list, its buffers that
\* arrived leave the map.
LEMMA EndedBooks ==
    ASSUME Idle, Base, TypedState', env' = env,
           NEW q \in Pending, NEW bufs \in SUBSET q.cached,
           mPendingRequestsList' = Without(mPendingRequestsList, q.fn),
           \/ /\ mPendingBuffersMap' = removeBufs(mPendingBuffersMap, q.fn, bufs)
              /\ back' = Returned(back, q.fn, bufs)
           \/ bufs = {} /\ UNCHANGED <<mPendingBuffersMap, back>>,
           UNCHANGED <<asked, accepted, sent, thread, nextFrame, mPendingBatchMap>>,
           shutter' = [shutter EXCEPT ![q.fn] = @ + 1],
           final' = [final EXCEPT ![q.fn] = @ + 1],
           due'.bufs \subseteq due.bufs, due'.held = due.held,
           due'.meta = due.meta,
           \A i \in DOMAIN metaCb' : \E j \in DOMAIN metaCb : metaCb'[i] = metaCb[j],
           ~env.reprocess => \A p \in Pending : ~ (p.fn < q.fn)
    PROVE  /\ mPendingRequestsList' \in Seq(Request)
           /\ mPendingBuffersMap' \in Seq(Buffer)
           /\ TypedLedger' /\ Fresh' /\ Lists' /\ Ordered' /\ Dues'
           /\ Pending' = {p \in Pending : p.fn # q.fn}
  <1>0. /\ TypedLists /\ TypedLedger /\ Fresh /\ Lists /\ Ordered /\ Dues
        /\ TypedState
    BY DEF Base, Typed
  <1>1. /\ \A p \in Pending : p \in Request /\ p.fn \in Frame /\ p.fn < Unseen
        /\ \A r \in Owed : r \in Buffer /\ r.fn \in Frame /\ r.fn < Unseen
    <2>1. /\ \A p \in Pending : p \in Request /\ p.fn < Unseen
          /\ \A r \in Owed : r \in Buffer /\ r.fn < Unseen
      BY Seen, IdleOwed
    <2> QED  BY <2>1 DEF Request, Buffer
  <1>2. q.fn \in Frame /\ bufs \subseteq Streams /\ q.cached \subseteq asked[q.fn]
        /\ Entries(Request) /\ q.fn \in Nat /\ Frame \subseteq Nat
    BY <1>0, <1>1, FrameNat DEF Request, Entries, Lists
  <1>3. /\ mPendingRequestsList' \in Seq(Request) /\ Increasing(mPendingRequestsList')
        /\ Pending' = {p \in Pending : p.fn # q.fn}
    <2> DEFINE fn == q.fn
               t == Without(mPendingRequestsList, fn)
    <2>1. /\ mPendingRequestsList \in Seq(Request) /\ Increasing(mPendingRequestsList)
          /\ Entries(Request) /\ fn \in Nat
      BY <1>0, <1>2 DEF TypedLists, Lists
    <2> HIDE DEF fn
    <2>2. /\ t \in Seq(Request) /\ Increasing(t)
          /\ Range(t) = {p \in Range(mPendingRequestsList) : p.fn # fn}
      BY <2>1, WithoutEntry
    <2> QED  BY <2>2, Zenon DEF Pending, fn
  <1>4. /\ mPendingBuffersMap' \in Seq(Buffer)
        /\ Increasing(mPendingBuffersMap')
        /\ back' \in [Frame -> [Streams -> Nat]]
        /\ \A f \in Frame : f # q.fn => \A s \in Streams : back'[f][s] = back[f][s]
        /\ \A r \in Owed' :
              /\ r.bufs # {} /\ r.bufs \subseteq asked'[r.fn]
              /\ \A s \in r.bufs : back'[r.fn][s] = 0
              /\ \E o \in Owed : o.fn = r.fn
        /\ \A o \in Owed : o.fn # q.fn => o \in Owed'
        /\ \A o \in Owed : \A s \in o.bufs :
              ~ (o.fn = q.fn /\ s \in bufs) =>
                 \E r \in Owed' : r.fn = o.fn /\ s \in r.bufs
    <2>1. CASE /\ mPendingBuffersMap' = removeBufs(mPendingBuffersMap, q.fn, bufs)
               /\ back' = Returned(back, q.fn, bufs)
      <3> DEFINE fn == q.fn
      <3>1. fn \in Frame /\ bufs \in SUBSET Streams
        BY <1>2
      <3>2. /\ mPendingBuffersMap' = removeBufs(mPendingBuffersMap, fn, bufs)
            /\ back' = Returned(back, fn, bufs) /\ asked' = asked
        BY <2>1
      <3> HIDE DEF fn
      <3>3. /\ mPendingBuffersMap' \in Seq(Buffer)
            /\ Increasing(mPendingBuffersMap')
            /\ back' \in [Frame -> [Streams -> Nat]]
        BY <1>0, <3>1, <3>2, OwedBooks, SMT
      <3>4. \A f \in Frame, s \in Streams :
                 back'[f][s] = IF f = fn /\ s \in bufs THEN back[f][s] + 1
                               ELSE back[f][s]
        BY <1>0, <3>1, <3>2, OwedBooks, SMT
      <3>5. \A r \in Owed' :
                 /\ r.bufs # {} /\ r.bufs \subseteq asked'[r.fn]
                 /\ \A s \in r.bufs : back'[r.fn][s] = 0
                 /\ \E o \in Owed : o.fn = r.fn
        BY <1>0, <3>1, <3>2, OwedBooks, SMT
      <3>6. /\ \A o \in Owed : o.fn # fn => o \in Owed'
            /\ \A o \in Owed : \A s \in o.bufs :
                 ~ (o.fn = fn /\ s \in bufs) =>
                    \E r \in Owed' : r.fn = o.fn /\ s \in r.bufs
        BY <1>0, <3>1, <3>2, OwedBooks, SMT
      <3> QED  BY <3>3, <3>4, <3>5, <3>6 DEF fn
    <2>2. CASE bufs = {} /\ UNCHANGED <<mPendingBuffersMap, back>>
      <3>1. Owed' = Owed /\ asked' = asked
        BY <2>2, IdleOwed
      <3> QED  BY <1>0, <2>2, <3>1 DEF TypedLists, TypedLedger, Lists
    <2> QED  BY <2>1, <2>2
  <1>5. /\ final' \in [Frame -> Nat] /\ shutter' \in [Frame -> Nat]
        /\ \A f \in Frame : f # q.fn => final'[f] = final[f] /\ shutter'[f] = shutter[f]
    BY <1>0, <1>2 DEF TypedLedger
  <1>6. TypedLedger'
    BY <1>0, <1>4, <1>5 DEF TypedLedger
  <1>7. Unseen' = Unseen
    BY DEF Unseen, Restarting
  <1>8. Fresh'
    <2> SUFFICES ASSUME NEW f \in Frame, f >= Unseen
                 PROVE  /\ asked'[f] = {} /\ f \notin accepted' /\ f \notin sent'
                        /\ shutter'[f] = 0 /\ final'[f] = 0
                        /\ \A s \in Streams : back'[f][s] = 0
                        /\ \A x \in Pending' : x.fn # f
                        /\ \A x \in Owed' : x.fn # f
                        /\ \A x \in due'.bufs \cup due'.held : x[1] # f
                        /\ \A i \in DOMAIN due'.meta : due'.meta[i] # f
                        /\ \A i \in DOMAIN metaCb' : metaCb'[i] # f
                        /\ \A e \in mPendingBatchMap' : e[1] # f
      BY <1>7 DEF Fresh
    <2>1. /\ asked[f] = {} /\ f \notin accepted /\ f \notin sent
          /\ shutter[f] = 0 /\ final[f] = 0
          /\ \A s \in Streams : back[f][s] = 0
          /\ \A x \in Pending : x.fn # f
          /\ \A x \in Owed : x.fn # f
          /\ \A x \in due.bufs \cup due.held : x[1] # f
          /\ \A i \in DOMAIN due.meta : due.meta[i] # f
          /\ \A i \in DOMAIN metaCb : metaCb[i] # f
          /\ \A e \in mPendingBatchMap : e[1] # f
      BY <1>0 DEF Fresh
    <2>2. f # q.fn
      BY <2>1
    <2>3. /\ shutter'[f] = 0 /\ final'[f] = 0
          /\ \A s \in Streams : back'[f][s] = 0
      BY <1>4, <1>5, <2>1, <2>2
    <2>4. /\ \A x \in Pending' : x.fn # f
          /\ \A x \in Owed' : x.fn # f
      BY <1>3, <1>4, <2>1
    <2>5. /\ \A x \in due'.bufs \cup due'.held : x[1] # f
          /\ \A i \in DOMAIN due'.meta : due'.meta[i] # f
          /\ \A i \in DOMAIN metaCb' : metaCb'[i] # f
      BY <2>1
    <2> QED  BY <2>1, <2>3, <2>4, <2>5
  <1>9. Lists'
    <2>1. ASSUME NEW p \in Pending'
          PROVE  /\ p.bufs = asked'[p.fn] /\ p.cached \subseteq p.bufs
                 /\ final'[p.fn] = 0 /\ shutter'[p.fn] = 0
                 /\ \E y \in Owed' : y.fn = p.fn /\ y.bufs = p.bufs
                 /\ p.input => env'.reprocess
      <3>1. p \in Pending /\ p.fn # q.fn /\ p.fn \in Frame
        BY <1>1, <1>3
      <3>2. PICK y \in Owed : y.fn = p.fn /\ y.bufs = p.bufs
        BY <1>0, <3>1 DEF Lists
      <3>3. y \in Owed'
        BY <1>4, <3>1, <3>2
      <3>4. /\ p.bufs = asked[p.fn] /\ p.cached \subseteq p.bufs
            /\ final[p.fn] = 0 /\ shutter[p.fn] = 0
            /\ p.input => env.reprocess
        BY <1>0, <3>1 DEF Lists
      <3> QED  BY <1>5, <3>1, <3>2, <3>3, <3>4
    <2> QED  BY <1>3, <1>4, <2>1 DEF Lists
  <1>10. Ordered'
    <2> SUFFICES ASSUME ~env.reprocess, NEW x \in Owed', NEW y \in Pending'
                 PROVE  x.fn < y.fn \/ \E p \in Pending' : p.fn = x.fn
      BY DEF Ordered
    <2>1. PICK o \in Owed : o.fn = x.fn
      BY <1>4
    <2>2. y \in Pending /\ y.fn # q.fn /\ y.fn \in Nat
      BY <1>1, <1>2, <1>3
    <2>3. CASE x.fn < y.fn
      BY <2>3
    <2>4. CASE \E p \in Pending : p.fn = x.fn
      <3>1. CASE x.fn = q.fn
        <4>1. ~ (y.fn < q.fn)
          BY <2>2
        <4> QED  BY <1>2, <2>2, <3>1, <4>1
      <3>2. CASE x.fn # q.fn
        BY <1>3, <2>4, <3>2
      <3> QED  BY <3>1, <3>2
    <2> QED  BY <1>0, <2>1, <2>2, <2>3, <2>4 DEF Ordered
  <1>11. Dues'
    <2> SUFFICES ASSUME NEW x \in due.bufs \cup due.held, x[2] \in Streams
                 PROVE  /\ \E y \in Owed' : y.fn = x[1] /\ x[2] \in y.bufs
                        /\ \A p \in Pending' : p.fn = x[1] => x[2] \notin p.cached
      BY <1>0 DEF Dues
    <2>1. /\ \E y \in Owed : y.fn = x[1] /\ x[2] \in y.bufs
          /\ \A p \in Pending : p.fn = x[1] => x[2] \notin p.cached
      BY <1>0 DEF Dues
    <2>2. x[1] = q.fn => x[2] \notin bufs
      BY <2>1
    <2> QED  BY <1>3, <1>4, <2>1, <2>2
  <1> QED  BY <1>3, <1>4, <1>6, <1>8, <1>9, <1>10, <1>11

\* The metadata of one frame: an error, nothing, or the end of a request.
LEMMA handleMetadataWithLockStep ==
    ASSUME Idle, Base, UNCHANGED env, NEW drop \in SUBSET (Streams \ Blob),
           handleMetadataWithLock(drop)
    PROVE  Base'
  <1>0. Typed /\ Places /\ Lists
    BY DEF Base
  <1> DEFINE fn == Head(metaCb)
  <1>1. /\ metaCb # <<>> /\ metaCb' = Tail(metaCb)
        /\ UNCHANGED <<mFlush, mPendingBatchMap, batch, mWokenUpByDaemon,
                       streaming, due, thread, nextFrame, asked, accepted, sent>>
    BY DEF handleMetadataWithLock, batching, ledger
  <1>2. /\ metaCb \in Seq(Frame) /\ metaCb' \in Seq(Frame) /\ fn \in Frame
        /\ \A i \in DOMAIN metaCb' : \E j \in DOMAIN metaCb : metaCb'[i] = metaCb[j]
    BY <1>0, <1>1 DEF Typed, TypedDue
  <1>3. ~Clearing
    BY <1>0, <1>1 DEF Places
  <1>4. \A i \in DOMAIN metaCb' : metaCb'[i] < Unseen
    BY <1>2, Seen
  <1>5. TypedDue' /\ TypedBatch' /\ TypedThreads'
    BY <1>0, <1>1, <1>2 DEF Typed, TypedDue, TypedBatch, TypedThreads
  <1>6. \A x \in Pending : x \in Request /\ x.fn \in Frame
    <2>1. \A x \in Pending : x \in Request
      BY Seen
    <2> QED  BY <2>1 DEF Request
  <1>7. Dropped(fn, drop) \subseteq Frame \X Streams
    <2>1. \A i \in DOMAIN mPendingRequestsList : mPendingRequestsList[i].fn \in Frame
      BY <1>6 DEF Pending, Range
    <2> QED  BY <2>1 DEF Dropped
  <1> HIDE DEF fn
  <1>8. CASE /\ UNCHANGED <<mPendingRequestsList, mPendingBuffersMap,
                            mPendingLiveRequest, told>>
             /\ mPendingFrameDropList' \in
                   {mPendingFrameDropList,
                    mPendingFrameDropList \cup Dropped(fn, drop)}
             /\ signalled' \in BOOLEAN
             /\ \/ mState' = mState
                \/ mState \notin {"ERROR", "DEINIT"} /\ mState' = "ERROR"
    <2>1. TypedState' /\ TypedLists' /\ TypedLedger'
      <3>1. mState' \in State
        BY <1>0, <1>8 DEF Typed, TypedState, State
      <3>2. mPendingFrameDropList' \subseteq Frame \X Streams
        BY <1>0, <1>7, <1>8 DEF Typed, TypedLists
      <3> QED  BY <1>0, <1>1, <1>8, <3>1, <3>2 DEF Typed, TypedState,
         TypedLists,
               TypedLedger, told
    <2>2. Places'
      BY <1>0, <1>1, <1>3, <1>8, SamePlaces
    <2>3. Fresh' /\ Lists' /\ Ordered' /\ Dues'
      <3>1. UNCHANGED <<env, mPendingRequestsList, mPendingBuffersMap, asked,
                        accepted, sent, shutter, final, back, thread, nextFrame>>
        BY <1>1, <1>8 DEF told
      <3>2. /\ due' = due /\ mPendingBatchMap' = mPendingBatchMap
        BY <1>1
      <3> QED  BY <1>4, <1>5, <2>1, <3>1, <3>2, MetaBooks
    <2> QED  BY <1>5, <2>1, <2>2, <2>3 DEF Base, Typed
  <1>9. CASE /\ mState' = mState /\ Skipped(fn) = {}
             /\ signalled' \in BOOLEAN
             /\ \E r \in Range(mPendingRequestsList) :
                  /\ r.fn = fn
                  /\ back' = Returned(back, fn, r.cached)
                  /\ mPendingBuffersMap' =
                        removeBufs(mPendingBuffersMap, fn, r.cached)
                  /\ mPendingFrameDropList' =
                        (mPendingFrameDropList \cup Dropped(fn, drop))
                            \ ({fn} \X r.cached)
             /\ shutter' = [shutter EXCEPT ![fn] = @ + 1]
             /\ final' = [final EXCEPT ![fn] = @ + 1]
             /\ mPendingRequestsList' = Without(mPendingRequestsList, fn)
             /\ mPendingLiveRequest' = mPendingLiveRequest - 1
    <2>1. PICK q \in Pending :
                  /\ q.fn = fn
                  /\ back' = Returned(back, fn, q.cached)
                  /\ mPendingBuffersMap' =
                        removeBufs(mPendingBuffersMap, fn, q.cached)
                  /\ mPendingFrameDropList' =
                        (mPendingFrameDropList \cup Dropped(fn, drop))
                            \ ({fn} \X q.cached)
      BY <1>9 DEF Pending
    <2>2. TypedState'
      BY <1>0, <1>1, <1>9 DEF Typed, TypedState
    <2>3. ~env.reprocess => \A p \in Pending : ~ (p.fn < q.fn)
      <3> SUFFICES ASSUME ~env.reprocess, NEW p \in Pending, p.fn < fn
                   PROVE  FALSE
        BY <2>1
      <3>1. ~p.input
        BY <1>0 DEF Lists
      <3>2. PICK i \in DOMAIN mPendingRequestsList : mPendingRequestsList[i] = p
        BY DEF Pending, Range
      <3> QED  BY <1>9, <3>1, <3>2 DEF Skipped
    <2>4. /\ mPendingRequestsList' = Without(mPendingRequestsList, q.fn)
          /\ mPendingBuffersMap' = removeBufs(mPendingBuffersMap, q.fn, q.cached)
          /\ back' = Returned(back, q.fn, q.cached)
          /\ shutter' = [shutter EXCEPT ![q.fn] = @ + 1]
          /\ final' = [final EXCEPT ![q.fn] = @ + 1]
      BY <1>9, <2>1
    <2>5. /\ mPendingRequestsList' \in Seq(Request)
          /\ mPendingBuffersMap' \in Seq(Buffer)
          /\ TypedLedger' /\ Fresh' /\ Lists' /\ Ordered' /\ Dues'
      BY <1>1, <1>2, <2>2, <2>3, <2>4, EndedBooks
    <2>6. mPendingFrameDropList' \subseteq Frame \X Streams
      BY <1>0, <1>7, <2>1 DEF Typed, TypedLists
    <2>7. Places'
      BY <1>0, <1>1, <1>3, <1>9, SamePlaces
    <2> QED  BY <1>5, <2>2, <2>5, <2>6, <2>7 DEF Base, Typed, TypedLists
  <1>10. signalled' \in BOOLEAN
    BY <1>0 DEF handleMetadataWithLock, unblockRequestIfNecessary, Typed,
       TypedState
  <1>11. \/ /\ UNCHANGED <<mPendingRequestsList, mPendingBuffersMap,
                            mPendingLiveRequest, told>>
            /\ mPendingFrameDropList' \in
                   {mPendingFrameDropList,
                    mPendingFrameDropList \cup Dropped(fn, drop)}
            /\ \/ mState' = mState
               \/ mState \notin {"ERROR", "DEINIT"} /\ mState' = "ERROR"
         \/  /\ mState' = mState /\ Skipped(fn) = {}
             /\ \E r \in Range(mPendingRequestsList) :
                  /\ r.fn = fn
                  /\ back' = Returned(back, fn, r.cached)
                  /\ mPendingBuffersMap' =
                        removeBufs(mPendingBuffersMap, fn, r.cached)
                  /\ mPendingFrameDropList' =
                        (mPendingFrameDropList \cup Dropped(fn, drop))
                            \ ({fn} \X r.cached)
             /\ shutter' = [shutter EXCEPT ![fn] = @ + 1]
             /\ final' = [final EXCEPT ![fn] = @ + 1]
             /\ mPendingRequestsList' = Without(mPendingRequestsList, fn)
             /\ mPendingLiveRequest' = mPendingLiveRequest - 1
    BY DEF handleMetadataWithLock, fn, lists
  <1> QED  BY <1>8, <1>9, <1>10, <1>11

\* The input buffer of a reprocess request ends that request.
LEMMA handleInputBufferWithLockStep ==
    ASSUME Idle, Base, UNCHANGED env, NEW fn \in Frame, handleInputBufferWithLock(fn)
    PROVE  Base'
  <1>0. Typed /\ Places /\ Lists /\ Dues /\ Fresh
    BY DEF Base
  <1>1. /\ <<fn, "input">> \in due.bufs
        /\ due' = [due EXCEPT !.bufs = @ \ {<<fn, "input">>}]
        /\ UNCHANGED <<mState, mFlush, mPendingBuffersMap,
                       mPendingFrameDropList, mPendingLiveRequest,
                       mPendingBatchMap, batch, mWokenUpByDaemon, streaming,
                       metaCb, thread, signalled, nextFrame, asked, accepted,
                       sent, back>>
    BY DEF handleInputBufferWithLock, Ready, batching, ledger
  <1>2. /\ due'.bufs \subseteq due.bufs /\ due'.held = due.held
        /\ due'.meta = due.meta /\ TypedDue'
    BY <1>0, <1>1 DEF Typed, TypedDue
  <1>3. ~Clearing
    BY <1>0, <1>1 DEF Places, NothingDue
  <1>4. Places'
    BY <1>0, <1>1, <1>3, SamePlaces
  <1>5. TypedState' /\ TypedBatch' /\ TypedThreads'
    BY <1>0, <1>1 DEF Typed, TypedState, TypedBatch, TypedThreads
  <1>6. CASE UNCHANGED <<shutter, final, mPendingRequestsList>>
    <2>1. TypedLists' /\ TypedLedger'
      BY <1>0, <1>1, <1>6 DEF Typed, TypedLists, TypedLedger
    <2>2. Unseen' = Unseen
      BY <1>1 DEF Unseen, Restarting
    <2>3. Fresh' /\ Lists' /\ Ordered' /\ Dues'
      <3>1. /\ Pending' = Pending /\ Owed' = Owed
        BY <1>1, <1>6, IdleOwed DEF Pending
      <3>2. Lists' /\ Ordered'
        BY <1>1, <1>6, IdleOwed DEF Base, Lists, Ordered, Pending, Increasing
      <3>3. Dues'
        BY <1>0, <1>2, <3>1 DEF Dues
      <3>4. Fresh'
        BY <1>0, <1>1, <1>2, <1>6, <2>2, <3>1 DEF Fresh
      <3> QED  BY <3>2, <3>3, <3>4
    <2> QED  BY <1>2, <1>4, <1>5, <2>1, <2>3 DEF Base, Typed
  <1>7. CASE /\ \E r \in Range(mPendingRequestsList) : r.fn = fn /\ r.input
             /\ shutter' = [shutter EXCEPT ![fn] = @ + 1]
             /\ final' = [final EXCEPT ![fn] = @ + 1]
             /\ mPendingRequestsList' = Without(mPendingRequestsList, fn)
    <2>1. PICK q \in Pending : q.fn = fn /\ q.input
      BY <1>7 DEF Pending
    <2>2. env.reprocess
      BY <1>0, <2>1 DEF Lists
    <2>3. /\ mPendingRequestsList' = Without(mPendingRequestsList, q.fn)
          /\ shutter' = [shutter EXCEPT ![q.fn] = @ + 1]
          /\ final' = [final EXCEPT ![q.fn] = @ + 1]
      BY <1>7, <2>1
    <2>4. {} \in SUBSET q.cached
      OBVIOUS
    <2>5. \A i \in DOMAIN metaCb' : \E j \in DOMAIN metaCb : metaCb'[i] = metaCb[j]
      BY <1>1
    <2>6. /\ mPendingRequestsList' \in Seq(Request)
          /\ mPendingBuffersMap' \in Seq(Buffer)
          /\ TypedLedger' /\ Fresh' /\ Lists' /\ Ordered' /\ Dues'
      BY <1>1, <1>2, <1>5, <2>2, <2>3, <2>4, <2>5, EndedBooks
    <2>7. TypedLists'
      BY <1>0, <1>1, <2>6 DEF Typed, TypedLists
    <2> QED  BY <1>2, <1>4, <1>5, <2>6, <2>7 DEF Base, Typed
  <1> QED  BY <1>6, <1>7 DEF handleInputBufferWithLock

\* An output buffer is kept in its request, or leaves the map.
LEMMA handleBufferWithLockStep ==
    ASSUME Idle, Base, UNCHANGED env, NEW fn \in Frame, NEW s \in Streams,
           handleBufferWithLock(fn, s)
    PROVE  Base'
  <1>0. Typed /\ Places /\ Lists /\ Dues /\ Fresh /\ Ordered
    BY DEF Base
  <1>1. /\ <<fn, s>> \in due.bufs
        /\ due' = [due EXCEPT !.bufs = @ \ {<<fn, s>>}]
        /\ UNCHANGED <<env, mState, mFlush, mPendingLiveRequest,
                       mPendingBatchMap, batch, mWokenUpByDaemon, streaming,
                       metaCb, thread, signalled, nextFrame, asked, accepted,
                       sent, shutter, final>>
    BY DEF handleBufferWithLock, Ready, batching, ledger
  <1>2. /\ due'.bufs = due.bufs \ {<<fn, s>>} /\ due'.held = due.held
        /\ due'.meta = due.meta /\ TypedDue'
    BY <1>0, <1>1 DEF Typed, TypedDue
  <1>a. \A x \in due'.bufs \cup due'.held :
           x \in due.bufs \cup due.held /\ x # <<fn, s>>
    BY <1>0, <1>1, <1>2 DEF Dues
  <1>3. ~Clearing
    BY <1>0, <1>1 DEF Places, NothingDue
  <1>4. Places'
    BY <1>0, <1>1, <1>3, SamePlaces
  <1>5. TypedState' /\ TypedBatch' /\ TypedThreads'
    BY <1>0, <1>1 DEF Typed, TypedState, TypedBatch, TypedThreads
  <1>6. Unseen' = Unseen /\ fn < Unseen /\ Unseen \in Int
    <2>1. fn < Unseen
      BY <1>1, Seen
    <2> QED  BY <1>0, <1>1, <2>1 DEF Unseen, Restarting, Typed, TypedState
  <1>7. CASE UNCHANGED <<lists, back>>
    <2>1. TypedLists' /\ TypedLedger'
      BY <1>0, <1>1, <1>7 DEF Typed, TypedLists, TypedLedger, lists
    <2>2. Fresh' /\ Lists' /\ Ordered' /\ Dues'
      <3>1. /\ Pending' = Pending /\ Owed' = Owed
        BY <1>1, <1>7, IdleOwed DEF Pending, lists
      <3>2. Lists' /\ Ordered'
        BY <1>1, <1>7, IdleOwed DEF Base, Lists, Ordered, Pending, Increasing, lists
      <3>3. Dues'
        BY <1>0, <1>2, <3>1 DEF Dues
      <3>4. Fresh'
        BY <1>0, <1>1, <1>2, <1>6, <1>7, <3>1 DEF Fresh
      <3> QED  BY <3>2, <3>3, <3>4
    <2> QED  BY <1>2, <1>4, <1>5, <2>1, <2>2 DEF Base, Typed
  <1>8. CASE /\ fn \in Numbers(mPendingRequestsList)
             /\ mPendingRequestsList' =
                   [i \in DOMAIN mPendingRequestsList |->
                       IF mPendingRequestsList[i].fn = fn
                         THEN [mPendingRequestsList[i] EXCEPT
                                  !.cached = @ \cup {s}]
                         ELSE mPendingRequestsList[i]]
             /\ UNCHANGED <<mPendingBuffersMap, mPendingFrameDropList, back>>
    <2> DEFINE P == mPendingRequestsList
    <2>1. /\ P \in Seq(Request) /\ Increasing(P)
          /\ \A i \in DOMAIN P : P[i] \in Request /\ P[i] \in Pending
          /\ \A x \in Pending : x \in Request /\ \E i \in DOMAIN P : P[i] = x
      BY <1>0, InRange DEF Typed, TypedLists, Lists, Pending
    <2>2. \A i \in DOMAIN P :
             /\ P'[i] \in Request /\ P'[i].fn = P[i].fn
             /\ P'[i].bufs = P[i].bufs /\ P'[i].input = P[i].input
             /\ P'[i].cached = IF P[i].fn = fn THEN P[i].cached \cup {s}
                               ELSE P[i].cached
      BY <1>8, <2>1 DEF Request
    <2>3. P' \in [DOMAIN P -> Request]
      BY <1>8, <2>2
    <2>4. /\ P' \in Seq(Request) /\ Increasing(P')
          /\ \A r \in Range(P') : \E i \in DOMAIN P : r = P'[i]
          /\ \A i \in DOMAIN P : P'[i] \in Range(P')
      <3> DEFINE t == P'
      <3>1. t \in [DOMAIN P -> Request] /\ \A i \in DOMAIN P : t[i].fn = P[i].fn
        BY <2>2, <2>3
      <3> HIDE DEF t
      <3>2. /\ t \in Seq(Request) /\ Increasing(t)
            /\ \A r \in Range(t) : \E i \in DOMAIN P : r = t[i]
            /\ \A i \in DOMAIN P : t[i] \in Range(t)
        BY <2>1, <3>1, InPlace
      <3> QED  BY <3>2 DEF t
    <2>5. /\ \A x \in Pending' : \E y \in Pending :
                /\ x.fn = y.fn /\ x.bufs = y.bufs /\ x.input = y.input
                /\ x.cached = IF y.fn = fn THEN y.cached \cup {s} ELSE y.cached
          /\ \A y \in Pending : \E x \in Pending' : x.fn = y.fn
      <3>1. Pending' = Range(P')
        BY DEF Pending
      <3>2. ASSUME NEW x \in Pending'
            PROVE  \E y \in Pending :
                /\ x.fn = y.fn /\ x.bufs = y.bufs /\ x.input = y.input
                /\ x.cached = IF y.fn = fn THEN y.cached \cup {s} ELSE y.cached
        <4>1. PICK i \in DOMAIN P : x = P'[i]
          BY <2>4, <3>1
        <4>2. P[i] \in Pending
          BY <2>1
        <4> QED  BY <2>2, <4>1, <4>2
      <3>3. ASSUME NEW y \in Pending PROVE \E x \in Pending' : x.fn = y.fn
        <4>1. PICK i \in DOMAIN P : P[i] = y
          BY <2>1
        <4>2. P'[i] \in Pending' /\ P'[i].fn = y.fn
          BY <2>2, <2>4, <3>1, <4>1
        <4> QED  BY <4>2
      <3> QED  BY <3>2, <3>3
    <2>6. Owed' = Owed
      BY <1>8, IdleOwed
    <2>7. TypedLists' /\ TypedLedger'
      BY <1>0, <1>1, <1>8, <2>4 DEF Typed, TypedLists, TypedLedger
    <2>8. Fresh'
      <3>1. \A f \in Frame : f >= Unseen => \A x \in Pending' : x.fn # f
        <4>1. \A f \in Frame : f >= Unseen => \A y \in Pending : y.fn # f
          BY <1>0 DEF Fresh
        <4>2. \A x \in Pending' : \E y \in Pending : x.fn = y.fn
          BY <2>5
        <4> QED  BY <4>1, <4>2
      <3>2. \A f \in Frame : f >= Unseen =>
               \A x \in due'.bufs \cup due'.held : x[1] # f
        BY <1>0, <1>a DEF Fresh
      <3> QED  BY <1>0, <1>1, <1>2, <1>6, <1>8, <2>6, <3>1, <3>2 DEF Fresh
    <2>9. Lists'
      <3>1. ASSUME NEW x \in Pending'
            PROVE  /\ x.bufs = asked'[x.fn] /\ x.cached \subseteq x.bufs
                   /\ final'[x.fn] = 0 /\ shutter'[x.fn] = 0
                   /\ \E r \in Owed' : r.fn = x.fn /\ r.bufs = x.bufs
                   /\ x.input => env'.reprocess
        <4>1. PICK y \in Pending :
                /\ x.fn = y.fn /\ x.bufs = y.bufs /\ x.input = y.input
                /\ x.cached = IF y.fn = fn THEN y.cached \cup {s} ELSE y.cached
          BY <2>5
        <4>2. /\ y.bufs = asked[y.fn] /\ y.cached \subseteq y.bufs
              /\ final[y.fn] = 0 /\ shutter[y.fn] = 0
              /\ \E r \in Owed : r.fn = y.fn /\ r.bufs = y.bufs
              /\ y.input => env.reprocess
          BY <1>0 DEF Lists
        <4>3. y.fn = fn => s \in y.bufs
          <5>1. PICK r \in Owed : r.fn = fn /\ s \in r.bufs
            BY <1>0, <1>1 DEF Dues
          <5>2. r.bufs \subseteq asked[fn]
            BY <1>0, <5>1 DEF Lists
          <5> QED  BY <4>2, <5>1, <5>2
        <4> QED  BY <1>1, <2>6, <4>1, <4>2, <4>3
      <3>2. \A r \in Owed' :
              /\ r.bufs # {} /\ r.bufs \subseteq asked'[r.fn]
              /\ \A z \in r.bufs : back'[r.fn][z] = 0
        BY <1>0, <1>1, <1>8, <2>6 DEF Lists
      <3>3. Increasing(mPendingBuffersMap')
        BY <1>0, <1>8 DEF Lists, Increasing
      <3> QED  BY <2>4, <3>1, <3>2, <3>3 DEF Lists
    <2>10. Ordered'
      <3> SUFFICES ASSUME ~env.reprocess, NEW x \in Owed, NEW y \in Pending'
                   PROVE  x.fn < y.fn \/ \E p \in Pending' : p.fn = x.fn
        BY <2>6 DEF Ordered
      <3>1. PICK z \in Pending : y.fn = z.fn
        BY <2>5
      <3>2. x.fn < z.fn \/ \E p \in Pending : p.fn = x.fn
        BY <1>0 DEF Ordered
      <3> QED  BY <2>5, <3>1, <3>2
    <2>11. Dues'
      <3> SUFFICES ASSUME NEW x \in due'.bufs \cup due'.held, x[2] \in Streams
                   PROVE  /\ \E y \in Owed' : y.fn = x[1] /\ x[2] \in y.bufs
                          /\ \A p \in Pending' : p.fn = x[1] => x[2] \notin p.cached
        BY <1>0, <1>2 DEF Dues
      <3>1. /\ x \in due.bufs \cup due.held /\ x # <<fn, s>>
        BY <1>a
      <3>2. /\ \E y \in Owed : y.fn = x[1] /\ x[2] \in y.bufs
            /\ \A p \in Pending : p.fn = x[1] => x[2] \notin p.cached
        BY <1>0, <3>1 DEF Dues
      <3>3. x = <<x[1], x[2]>>
        BY <1>0, <3>1 DEF Typed, TypedDue
      <3>4. ASSUME NEW p \in Pending', p.fn = x[1] PROVE x[2] \notin p.cached
        <4>1. PICK y \in Pending :
                /\ p.fn = y.fn
                /\ p.cached = IF y.fn = fn THEN y.cached \cup {s} ELSE y.cached
          BY <2>5
        <4> QED  BY <3>1, <3>2, <3>3, <3>4, <4>1
      <3> QED  BY <2>6, <3>2, <3>4
    <2> QED  BY <1>2, <1>4, <1>5, <2>7, <2>8, <2>9, <2>10, <2>11 DEF Base,
       Typed
  <1>9. CASE /\ fn \notin Numbers(mPendingRequestsList)
             /\ back' = Returned(back, fn, {s})
             /\ mPendingBuffersMap' = removeBufs(mPendingBuffersMap, fn, {s})
             /\ mPendingFrameDropList' = mPendingFrameDropList \ {<<fn, s>>}
             /\ UNCHANGED mPendingRequestsList
    <2> DEFINE bufs == {s}
    <2>1. /\ TypedLists /\ TypedLedger /\ Lists /\ bufs \in SUBSET Streams
          /\ mPendingBuffersMap' = removeBufs(mPendingBuffersMap, fn, bufs)
          /\ back' = Returned(back, fn, bufs) /\ asked' = asked
      BY <1>0, <1>1, <1>9 DEF Typed
    <2> HIDE DEF bufs
    <2>2. /\ mPendingBuffersMap' \in Seq(Buffer)
          /\ Increasing(mPendingBuffersMap')
          /\ back' \in [Frame -> [Streams -> Nat]]
      BY <2>1, OwedBooks, SMT
    <2>3. \A f \in Frame, z \in Streams :
             back'[f][z] = IF f = fn /\ z \in bufs THEN back[f][z] + 1
                           ELSE back[f][z]
      BY <2>1, OwedBooks, SMT
    <2>4. \A r \in Owed' :
             /\ r.bufs # {} /\ r.bufs \subseteq asked'[r.fn]
             /\ \A z \in r.bufs : back'[r.fn][z] = 0
             /\ \E o \in Owed : o.fn = r.fn
      BY <2>1, OwedBooks, SMT
    <2>5. /\ \A o \in Owed : o.fn # fn => o \in Owed'
          /\ \A o \in Owed : \A z \in o.bufs :
                ~ (o.fn = fn /\ z \in bufs) =>
                   \E r \in Owed' : r.fn = o.fn /\ z \in r.bufs
      BY <2>1, OwedBooks, SMT
    <2>6. Pending' = Pending /\ \A p \in Pending : p.fn # fn
      BY <1>9 DEF Pending, Numbers, Range
    <2>7. TypedLists' /\ TypedLedger'
      BY <1>0, <1>1, <1>9, <2>2 DEF Typed, TypedLists, TypedLedger
    <2>8. Fresh'
      <3>1. \A f \in Frame : f >= Unseen => \A z \in Streams : back'[f][z] = 0
        <4>1. \A f \in Frame : f >= Unseen => f # fn
          BY <1>6, FrameNat
        <4> QED  BY <1>0, <2>3, <4>1 DEF Fresh
      <3> QED  BY <1>0, <1>1, <1>2, <1>6, <1>a, <2>4, <2>6, <3>1 DEF Fresh
    <2>9. Lists'
      <3>1. \A p \in Pending : \E r \in Owed' : r.fn = p.fn /\ r.bufs = p.bufs
        BY <1>0, <2>5, <2>6 DEF Lists
      <3>2. Increasing(mPendingRequestsList')
        BY <1>0, <1>9 DEF Lists
      <3> QED  BY <1>0, <1>1, <2>2, <2>4, <2>6, <3>1, <3>2 DEF Lists
    <2>10. Ordered'
      BY <1>0, <1>1, <2>4, <2>6 DEF Ordered
    <2>11. Dues'
      <3> SUFFICES ASSUME NEW x \in due'.bufs \cup due'.held, x[2] \in Streams
                   PROVE  /\ \E y \in Owed' : y.fn = x[1] /\ x[2] \in y.bufs
                          /\ \A p \in Pending' : p.fn = x[1] => x[2] \notin p.cached
        BY <1>0, <1>2 DEF Dues
      <3>1. /\ x \in due.bufs \cup due.held /\ x # <<fn, s>>
        BY <1>a
      <3>2. /\ \E y \in Owed : y.fn = x[1] /\ x[2] \in y.bufs
            /\ \A p \in Pending : p.fn = x[1] => x[2] \notin p.cached
        BY <1>0, <3>1 DEF Dues
      <3>3. x = <<x[1], x[2]>>
        BY <1>0, <3>1 DEF Typed, TypedDue
      <3>4. ~ (x[1] = fn /\ x[2] \in bufs)
        BY <3>1, <3>3 DEF bufs
      <3> QED  BY <2>5, <2>6, <3>2, <3>4
    <2> QED  BY <1>2, <1>4, <1>5, <2>7, <2>8, <2>9, <2>10, <2>11 DEF Base,
       Typed
  <1> QED  BY <1>7, <1>8, <1>9 DEF handleBufferWithLock, lists

---------------------------------------------------------------------------
(* The books are kept                                                      *)

\* A new object.
LEMMA InitBase == Init => Base
  <1> SUFFICES ASSUME Init PROVE Base
    OBVIOUS
  <1> USE DEF Init
  <1>1. Frame \subseteq Nat /\ MaxFrame \in Nat /\ 1 \in 1..(MaxFrame + 1)
    BY FrameNat
  <1>2. TypedState
    <2>1. /\ mFlush \in BOOLEAN /\ mWokenUpByDaemon \in BOOLEAN
          /\ streaming \in BOOLEAN /\ signalled \in BOOLEAN
      BY Zenon
    <2> QED  BY <1>1, <2>1 DEF TypedState, State
  <1>3. TypedLists /\ TypedBatch /\ TypedDue
    BY <1>1 DEF TypedLists, TypedBatch, TypedDue, NothingDue
  <1>4. TypedThreads
    <2>1. /\ Out \in [pc : RequestPc, restart : BOOLEAN,
                       req : [fn : Frame \cup {0}, bufs : SUBSET Streams,
                              input : BOOLEAN]]
          /\ Out.pc \in FlushPc
      BY DEF Out, NoRequest, RequestPc, FlushPc
    <2> QED  BY <2>1 DEF TypedThreads, Thread
  <1>5. TypedLedger
    BY DEF TypedLedger
  <1>6. thread["request"] = Out /\ thread["flush"] = Out
    BY DEF Thread
  <1>7. Places
    BY <1>6 DEF Places, Restarting, Clearing, Thread, Out
  <1>8. Pending = {} /\ Owed = {} /\ DOMAIN mPendingRequestsList = {}
        /\ DOMAIN mPendingBuffersMap = {}
    BY DEF Pending, Owed, Range, NoWalk
  <1>9. due.bufs \cup due.held = {} /\ DOMAIN due.meta = {} /\ DOMAIN metaCb = {}
    BY DEF NothingDue
  <1>10. Fresh
    BY <1>8, <1>9 DEF Fresh
  <1>11. Lists /\ Ordered /\ Dues
    BY <1>8, <1>9 DEF Lists, Ordered, Dues, Increasing
  <1> QED  BY <1>2, <1>3, <1>4, <1>5, <1>7, <1>10, <1>11 DEF Base, Typed

\* No loop is on at first.
LEMMA InitWalks == Init => Walks
  BY DEF Init, Walks, NoWalk

\* The quiet steps keep the invariant, beside the loop of the restart or
\* outside of it.
LEMMA QuietStep ==
    ASSUME Base, Walks, Typed' /\ Places' /\ Quiet, walk' = walk,
           walk.on => thread'["request"].pc = "resume"
    PROVE  Base' /\ Walks'
  <1>1. Fresh' /\ Lists' /\ Ordered' /\ Dues'
    BY QuietBooks DEF Typed
  <1>2. /\ Pending' = Pending /\ Owed' = Owed /\ env' = env
        /\ mPendingBuffersMap' = mPendingBuffersMap
    BY DEF Quiet, Pending, Owed
  <1>3. Walks'
    BY <1>2 DEF Walks
  <1> QED  BY <1>1, <1>3 DEF Base

\* A step that is not of the loop, while the request thread is not in it.
LEMMA OffLoop ==
    ASSUME Walks, walk' = walk, thread["request"].pc # "resume"
    PROVE  ~walk.on /\ Idle /\ Walks'
  BY DEF Walks, Idle

\* Whether or not it is: no entry is in its hands when it is not on.
LEMMA NotWalking ==
    ASSUME Walks, walk' = walk, ~walk.on
    PROVE  Idle /\ Walks'
  BY DEF Walks, Idle

\* While the loop is on nothing is due, and no metadata is handled.
LEMMA AnswersOffLoop ==
    ASSUME Base, Walks, Metadata \/ Buffers
    PROVE  Idle /\ Walks'
  <1>1. walk' = walk
    BY DEF Metadata, Buffers, walking
  <1>2. due # NothingDue \/ metaCb # <<>>
    <2>1. ASSUME due = NothingDue, metaCb = <<>>, handleBatchMetadata
          PROVE  FALSE
      BY <2>1 DEF handleBatchMetadata, NothingDue
    <2>2. ASSUME metaCb = <<>>, NEW drop, handleMetadataWithLock(drop)
          PROVE  FALSE
      BY <2>2 DEF handleMetadataWithLock
    <2>3. ASSUME due = NothingDue, NEW fn, NEW s, Ready(fn, s) PROVE FALSE
      BY <2>3 DEF Ready, NothingDue
    <2>4. ASSUME due = NothingDue, NEW fn \in Frame,
                 \/ handleInputBufferWithLock(fn)
                 \/ \E s \in Streams : handleBufferWithLock(fn, s)
          PROVE  FALSE
      BY <2>3, <2>4 DEF handleInputBufferWithLock, handleBufferWithLock
    <2> QED  BY <2>1, <2>2, <2>4 DEF Metadata, Buffers
  <1>3. thread["request"].pc # "resume"
    BY <1>2 DEF Base, Places, Clearing
  <1> QED  BY <1>1, <1>3, OffLoop

\* The threads that may move while the loop is on leave the request thread
\* where it is.
LEMMA BesideLoop ==
    ASSUME Base, Walks, walk.on, NEW t \in Thread,
           \/ handleCameraDeviceError(t) \/ FlushBegins(t) \/ FlushStops(t)
           \/ Deinit(t) \/ FlushCalled \/ DaemonDied \/ DaemonPulls
    PROVE  thread'["request"].pc = "resume"
  <1>1. thread["request"].pc = "resume" /\ DOMAIN thread = Thread
    BY DEF Walks, Base, Typed, TypedThreads
  <1>2. CASE FlushCalled
    BY <1>1, <1>2 DEF FlushCalled, Goes, Thread
  <1>3. CASE DaemonDied \/ DaemonPulls
    BY <1>1, <1>3 DEF DaemonDied, DaemonPulls
  <1>4. CASE \/ handleCameraDeviceError(t) \/ FlushBegins(t) \/ FlushStops(t)
             \/ Deinit(t)
    <2>1. t = "flush"
      BY <1>1, <1>4 DEF handleCameraDeviceError, FlushBegins, FlushStops,
         Deinit, Thread
    <2>2. Leaves(t) \/ \E pc : Goes(t, pc)
      BY <1>4 DEF handleCameraDeviceError, FlushBegins, FlushStops, Deinit,
         FlushReturns
    <2> QED  BY <1>1, <2>1, <2>2 DEF Leaves, Goes, Thread
  <1> QED  BY <1>2, <1>3, <1>4

\* Once a flush has raced, it has.
LEMMA RacedStays ==
    ASSUME raced, [Next]_vars
    PROVE  raced'
  <1>1. Framework => raced' = raced
    BY DEF Framework, close_camera_device, walking
  <1>2. RequestProceeds => raced' = raced
    BY DEF RequestProceeds, dynamicUpdateMetaStreamInfo, WalkBegins,
       EntryErased, EntryAnswered, WalkEnds, walking
  <1>3. Metadata \/ Buffers \/ Daemon => raced' = raced
    BY DEF Metadata, Buffers, Daemon, walking
  <1>4. ASSUME NEW t \in Thread, FlushProceeds(t) PROVE raced'
    BY <1>4 DEF FlushProceeds, flush, walking
  <1>5. UNCHANGED vars => raced' = raced
    BY DEF vars, walking
  <1> QED  BY <1>1, <1>2, <1>3, <1>4, <1>5 DEF Next

\* The step of a flush: it races with the loop, or the loop is not on.
LEMMA FlushRaces ==
    ASSUME Walks, NEW t \in Thread, flush(t)
    PROVE  raced' \/ (~walk.on /\ Idle /\ Walks')
  <1>1. raced' \/ (~walk.on /\ walk' = walk)
    BY DEF flush, walking
  <1> QED  BY <1>1, NotWalking

\* Every step keeps the books, unless a flush races with the loop.
LEMMA NextBooks ==
    ASSUME Base, Walks, [Next]_vars
    PROVE  raced' \/ (Base' /\ Walks')
  <1>1. CASE UNCHANGED vars
    <2>1. Typed' /\ Places'
      BY <1>1 DEF vars, Base, Typed, TypedState, TypedLists, TypedBatch,
         TypedDue, TypedThreads, TypedLedger, Places, Restarting, Clearing,
         Done, lists, batching, outside, ledger, told
    <2>2. Quiet
      BY <1>1 DEF vars, Quiet, Unseen, Restarting, lists, batching, outside,
         ledger, told, Base, Typed, TypedState
    <2>3. walk' = walk /\ thread' = thread
      BY <1>1 DEF vars, walking
    <2>4. walk.on => thread'["request"].pc = "resume"
      BY <2>3 DEF Walks
    <2> QED  BY <2>1, <2>2, <2>3, <2>4, QuietStep
  <1>2. CASE Next
    <2>0. UNCHANGED env
      BY <1>2 DEF Next
    <2>1. CASE Framework
      <3>0. /\ walk' = walk
            /\ ~FlushCalled => thread["request"].pc = "out"
        BY <2>1 DEF Framework, walking, close_camera_device, openCamera,
           initialize, configureStreams, RequestRefused, SetupFails,
           SettingsFail, processCaptureRequest, SensorRestart, MayAsk, Thread
      <3>1. CASE FlushCalled
        <4>1. walk.on => thread'["request"].pc = "resume"
          BY <3>1, BesideLoop DEF Thread
        <4> QED  BY <2>0, <3>0, <3>1, <4>1, FlushCalledStep, QuietStep
      <3>2. CASE ~FlushCalled
        <4>0. ~walk.on /\ Idle /\ Walks'
          BY <3>0, <3>2, OffLoop
        <4>1. CASE openCamera
          BY <2>0, <3>0, <4>0, <4>1, openCameraStep, QuietStep
        <4>2. CASE initialize
          BY <2>0, <3>0, <4>0, <4>2, initializeStep, QuietStep
        <4>3. CASE configureStreams
          BY <2>0, <3>0, <4>0, <4>3, configureStreamsStep, QuietStep
        <4>4. CASE close_camera_device
          BY <2>0, <4>0, <4>4, close_camera_deviceStep
        <4>5. CASE RequestRefused
          BY <2>0, <3>0, <4>0, <4>5, RequestRefusedStep, QuietStep
        <4>6. CASE SetupFails \/ SettingsFail
          BY <2>0, <3>0, <4>0, <4>6, FailsStep, QuietStep
        <4>7. CASE processCaptureRequest
          BY <2>0, <4>0, <4>7, RegistersStep
        <4>8. CASE SensorRestart
          BY <2>0, <3>0, <4>0, <4>8, SensorRestartStep, QuietStep
        <4> QED  BY <2>1, <3>2, <4>1, <4>2, <4>3, <4>4, <4>5, <4>6, <4>7, <4>8
                 DEF Framework
      <3> QED  BY <3>1, <3>2
    <2>2. CASE RequestProceeds
      <3>1. CASE dynamicUpdateMetaStreamInfo
        BY <2>0, <3>1, dynamicUpdateMetaStreamInfoStep
      <3>2. CASE ~dynamicUpdateMetaStreamInfo
        <4>0. walk' = walk /\ thread["request"].pc # "resume"
          BY <2>2, <3>2 DEF RequestProceeds, walking, Initialized,
             configureStreamsPerfLocked, SensorStops, SensorRestarted, Woken,
             TimedOut
        <4>1. ~walk.on /\ Idle /\ Walks'
          BY <4>0, OffLoop
        <4>2. CASE Initialized
          BY <2>0, <4>0, <4>1, <4>2, InitializedStep, QuietStep
        <4>3. CASE configureStreamsPerfLocked
          BY <2>0, <4>1, <4>3, configureStreamsPerfLockedStep
        <4>4. CASE SensorStops
          BY <2>0, <4>0, <4>1, <4>4, SensorStopsStep, QuietStep
        <4>5. CASE SensorRestarted
          BY <2>0, <4>1, <4>5, RegistersStep
        <4>6. CASE Woken \/ TimedOut
          BY <2>0, <4>0, <4>1, <4>6, WaitStep, QuietStep
        <4> QED  BY <2>2, <3>2, <4>2, <4>3, <4>4, <4>5, <4>6 DEF RequestProceeds
      <3> QED  BY <3>1, <3>2
    <2>3. CASE Metadata
      <3>0. Idle /\ Walks'
        BY <2>3, AnswersOffLoop
      <3>1. CASE handleBatchMetadata
        BY <2>0, <3>0, <3>1, handleBatchMetadataStep
      <3>2. ASSUME NEW drop \in SUBSET (Streams \ Blob),
                   handleMetadataWithLock(drop)
            PROVE  Base' /\ Walks'
        BY <2>0, <3>0, <3>2, handleMetadataWithLockStep
      <3> QED  BY <2>3, <3>1, <3>2 DEF Metadata
    <2>4. CASE Buffers
      <3>0. Idle /\ Walks'
        BY <2>4, AnswersOffLoop
      <3>1. ASSUME NEW fn \in Frame, handleInputBufferWithLock(fn)
            PROVE  Base' /\ Walks'
        BY <2>0, <3>0, <3>1, handleInputBufferWithLockStep
      <3>2. ASSUME NEW fn \in Frame, NEW s \in Streams,
                   handleBufferWithLock(fn, s)
            PROVE  Base' /\ Walks'
        BY <2>0, <3>0, <3>2, handleBufferWithLockStep
      <3> QED  BY <2>4, <3>1, <3>2 DEF Buffers
    <2>5. CASE Daemon
      <3>1. (DaemonDied \/ DaemonPulls) /\ walk' = walk
        BY <2>5 DEF Daemon, walking
      <3>2. walk.on => thread'["request"].pc = "resume"
        BY <3>1, BesideLoop DEF Thread
      <3> QED  BY <2>0, <3>1, <3>2, DaemonStep, QuietStep
    <2>6. ASSUME NEW t \in Thread, FlushProceeds(t)
          PROVE  raced' \/ (Base' /\ Walks')
      <3>1. CASE flush(t)
        BY <2>0, <3>1, FlushRaces, flushStep
      <3>2. CASE ~flush(t)
        <4>0. walk' = walk
          BY <2>6, <3>2 DEF FlushProceeds, walking
        <4>1. /\ \/ handleCameraDeviceError(t) \/ FlushBegins(t)
                 \/ FlushStops(t) \/ Deinit(t)
              /\ walk.on => thread'["request"].pc = "resume"
          BY <2>6, <3>2, BesideLoop DEF FlushProceeds
        <4>2. CASE handleCameraDeviceError(t)
          BY <2>0, <4>0, <4>1, <4>2, handleCameraDeviceErrorStep, QuietStep
        <4>3. CASE FlushBegins(t)
          BY <2>0, <4>0, <4>1, <4>3, FlushBeginsStep, QuietStep
        <4>4. CASE FlushStops(t)
          BY <2>0, <4>0, <4>1, <4>4, FlushStopsStep, QuietStep
        <4>5. CASE Deinit(t)
          BY <2>0, <4>0, <4>1, <4>5, DeinitStep, QuietStep
        <4> QED  BY <4>1, <4>2, <4>3, <4>4, <4>5
      <3> QED  BY <3>1, <3>2
    <2> QED  BY <1>2, <2>1, <2>2, <2>3, <2>4, <2>5, <2>6 DEF Next
  <1> QED  BY <1>1, <1>2

(* The books of the HAL are right in every state, whatever the scenario: the *)
(* two lists are increasing, each pending request has all its buffers in   *)
(* mPendingBuffersMap or in the hands of the sensor restart, nothing there *)
(* was given back, a buffer that is due is in the map and did not arrive   *)
(* before, nothing is known of a frame that was not asked for, without     *)
(* reprocessing the oldest request ends first, and the unlocked loop of    *)
(* dynamicUpdateMetaStreamInfo answers the oldest entry next.  This holds  *)
(* until a flush walks the lists while that loop does.                     *)
THEOREM BooksKept == Spec => []Books
  <1>1. Init => Books
    BY InitBase, InitWalks DEF Books
  <1>2. Books /\ [Next]_vars => Books'
    BY NextBooks, RacedStays DEF Books
  <1> QED  BY <1>1, <1>2, PTL DEF Spec

---------------------------------------------------------------------------
(* What the framework was told                                             *)

\* What the framework was told of a frame, and got back.
Once ==
    \A f \in Frame : /\ shutter[f] <= final[f] /\ final[f] <= 1
                     /\ \A s \in Streams : back[f][s] <= 1

\* An accepted request has ended or is pending, a buffer of it is back or owed.
Answers ==
    \A f \in accepted :
        /\ asked[f] # {}
        /\ final[f] = 1 \/ \E q \in Pending : q.fn = f
        /\ \A s \in asked[f] : \/ back[f][s] = 1
                               \/ \E r \in Owed : r.fn = f /\ s \in r.bufs

\* Both: the framework hears everything, and nothing twice.
Told == Once /\ Answers

\* A step that tells nothing.
LEMMA QuietTold ==
    ASSUME Told, UNCHANGED <<mPendingRequestsList, mPendingBuffersMap, asked,
                             shutter, final, back>>,
           accepted' \subseteq accepted, walk'.hand = walk.hand
    PROVE  Told'
  BY DEF Told, Once, Answers, Pending, Owed

\* Clearing the lists with an error for each frame: where requests end in the
\* order in which they came, no frame ends twice.
LEMMA NotifyTold ==
    ASSUME Idle, Base, Told, ~env.reprocess, notifyErrorForPendingRequests,
           UNCHANGED <<asked, accepted>>
    PROVE  Told' /\ \A f \in accepted : Done(f)'
  <1>0. /\ Typed /\ Lists /\ Ordered /\ TypedLedger
        /\ \A f \in accepted : f \in Frame
        /\ \A f \in Frame : final[f] \in Nat /\ shutter[f] \in Nat
                            /\ \A s \in Streams : back[f][s] \in Nat
        /\ \A f \in Frame : asked[f] \subseteq Streams
    BY DEF Base, Typed, TypedLedger
  <1>1. /\ mPendingRequestsList' = <<>> /\ mPendingBuffersMap' = <<>>
        /\ shutter' = shutter
        /\ \A f \in Frame :
              final'[f] = IF /\ \E r \in Owed : r.fn = f
                             /\ \E q \in Pending : q.fn <= f
                            THEN final[f] + 1 ELSE final[f]
        /\ \A f \in Frame, s \in Streams :
              back'[f][s] = IF \E r \in Owed : r.fn = f /\ s \in r.bufs
                              THEN back[f][s] + 1 ELSE back[f][s]
    BY <1>0, NotifyClears
  <1>2. \A q \in Pending, r \in Owed : q.fn \in Nat /\ r.fn \in Nat
    BY Seen, IdleOwed, FrameNat DEF Request, Buffer
  <1>3. ASSUME NEW f \in Frame
        PROVE  /\ \/ final'[f] = final[f]
                  \/ final[f] = 0 /\ shutter[f] = 0 /\ final'[f] = 1
               /\ (\E q \in Pending : q.fn = f) => final'[f] = 1
    <2>1. CASE \E q \in Pending : q.fn = f
      <3>1. PICK q \in Pending : q.fn = f
        BY <2>1
      <3>2. final[f] = 0 /\ shutter[f] = 0 /\ \E r \in Owed : r.fn = f
        BY <1>0, <3>1 DEF Lists
      <3>3. q.fn <= f
        BY <1>2, <3>1, <3>2
      <3>4. final'[f] = final[f] + 1
        BY <1>1, <3>1, <3>2, <3>3
      <3> QED  BY <3>2, <3>4
    <2>2. CASE ~ \E q \in Pending : q.fn = f
      <3>1. ASSUME NEW r \in Owed, r.fn = f, NEW q \in Pending, q.fn <= f
            PROVE  FALSE
        <4>1. r.fn < q.fn
          BY <1>0, <2>2, <3>1 DEF Ordered
        <4> QED  BY <1>2, <3>1, <4>1
      <3>2. final'[f] = final[f]
        BY <1>1, <3>1
      <3> QED  BY <2>2, <3>2
    <2> QED  BY <2>1, <2>2
  <1>4. ASSUME NEW f \in Frame, NEW s \in Streams
        PROVE  IF \E r \in Owed : r.fn = f /\ s \in r.bufs
                 THEN back'[f][s] = 1 ELSE back'[f][s] = back[f][s]
    <2>1. (\E r \in Owed : r.fn = f /\ s \in r.bufs) => back[f][s] = 0
      BY <1>0 DEF Lists
    <2> QED  BY <1>1, <2>1
  <1>5. Once'
    <2> SUFFICES ASSUME NEW f \in Frame
                 PROVE  /\ shutter'[f] <= final'[f] /\ final'[f] <= 1
                        /\ \A s \in Streams : back'[f][s] <= 1
      BY DEF Once
    <2>1. shutter[f] <= final[f] /\ final[f] <= 1
          /\ \A s \in Streams : back[f][s] <= 1
      BY DEF Told, Once
    <2>2. shutter'[f] <= final'[f] /\ final'[f] <= 1
      BY <1>0, <1>1, <1>3, <2>1
    <2> QED  BY <1>4, <2>1, <2>2
  <1>6. ASSUME NEW f \in accepted
        PROVE  /\ asked[f] # {} /\ final'[f] = 1
               /\ \A s \in asked[f] : back'[f][s] = 1
    <2>1. /\ asked[f] # {} /\ f \in Frame /\ asked[f] \subseteq Streams
          /\ final[f] = 1 \/ \E q \in Pending : q.fn = f
          /\ \A s \in asked[f] : \/ back[f][s] = 1
                                 \/ \E r \in Owed : r.fn = f /\ s \in r.bufs
      BY <1>0 DEF Told, Answers
    <2>2. final'[f] = 1
      BY <1>3, <2>1
    <2>3. \A s \in asked[f] : back'[f][s] = 1
      BY <1>4, <2>1
    <2> QED  BY <2>1, <2>2, <2>3
  <1>7. Answers'
    BY <1>6 DEF Answers
  <1>8. \A f \in accepted : Done(f)'
    BY <1>6 DEF Done
  <1> QED  BY <1>5, <1>7, <1>8 DEF Told

\* A configuration clears the lists when all accepted requests have ended.
LEMMA ConfigureTold ==
    ASSUME Base, Told, configureStreamsPerfLocked
    PROVE  Told'
  <1>1. /\ UNCHANGED <<asked, accepted, shutter, final, back>>
        /\ thread["request"].pc = "configure"
    BY DEF configureStreamsPerfLocked, ledger, told
  <1>2. \A f \in accepted : Done(f)
    BY <1>1 DEF Base, Places
  <1>3. Once'
    BY <1>1 DEF Told, Once
  <1>4. ASSUME NEW f \in accepted
        PROVE  /\ asked[f] # {} /\ final[f] = 1
               /\ \A s \in asked[f] : back[f][s] = 1
    <2>1. /\ asked[f] # {} /\ f \in Frame /\ asked[f] \subseteq Streams
          /\ final[f] \in Nat /\ \A s \in Streams : back[f][s] \in Nat
          /\ final[f] <= 1 /\ \A s \in Streams : back[f][s] <= 1
      BY DEF Told, Once, Answers, Base, Typed, TypedLedger
    <2>2. final[f] > 0 /\ \A s \in asked[f] : back[f][s] > 0
      BY <1>2 DEF Done
    <2> QED  BY <2>1, <2>2
  <1>5. Answers'
    BY <1>1, <1>4 DEF Answers
  <1> QED  BY <1>3, <1>5 DEF Told

\* A new session has told nothing.
LEMMA CloseTold ==
    ASSUME close_camera_device
    PROVE  Told'
  <1>1. /\ accepted' = {} /\ shutter' = [f \in Frame |-> 0]
        /\ final' = [f \in Frame |-> 0]
        /\ back' = [f \in Frame |-> [s \in Streams |-> 0]]
    BY DEF close_camera_device
  <1>2. 0 <= 0 /\ 0 <= 1
    OBVIOUS
  <1> QED  BY <1>1, <1>2 DEF Told, Once, Answers

\* A request enters the lists.
LEMMA AcceptedTold ==
    ASSUME Base, Told,
           NEW r \in [fn : Frame, bufs : SUBSET Streams, input : BOOLEAN],
           r.bufs # {}, Registered(r), accepted' \subseteq accepted \cup {r.fn},
           Unseen = r.fn,
           Pending' = Pending \cup {[fn |-> r.fn, input |-> r.input,
                                     bufs |-> r.bufs, cached |-> {}]},
           Owed' = Owed \cup {[fn |-> r.fn, bufs |-> r.bufs]}
    PROVE  Told'
  <1>1. /\ asked' = [asked EXCEPT ![r.fn] = r.bufs]
        /\ UNCHANGED <<shutter, final, back>>
    BY DEF Registered, told
  <1>2. /\ asked \in [Frame -> SUBSET Streams] /\ accepted \subseteq Frame
    BY DEF Base, Typed, TypedLedger
  <1>3. Once'
    BY <1>1 DEF Told, Once
  <1>4. ASSUME NEW f \in accepted'
        PROVE  /\ asked'[f] # {}
               /\ final'[f] = 1 \/ \E q \in Pending' : q.fn = f
               /\ \A s \in asked'[f] : \/ back'[f][s] = 1
                                       \/ \E x \in Owed' : x.fn = f /\ s \in x.bufs
    <2>1. CASE f = r.fn
      <3>1. asked'[f] = r.bufs
        BY <1>1, <1>2, <2>1
      <3>2. \E q \in Pending' : q.fn = f
        <4> DEFINE q == [fn |-> r.fn, input |-> r.input, bufs |-> r.bufs,
                         cached |-> {}]
        <4>1. q \in Pending' /\ q.fn = f
          BY <2>1
        <4> QED  BY <4>1
      <3>3. \A s \in r.bufs : \E x \in Owed' : x.fn = f /\ s \in x.bufs
        <4> DEFINE x == [fn |-> r.fn, bufs |-> r.bufs]
        <4>1. x \in Owed' /\ x.fn = f /\ x.bufs = r.bufs
          BY <2>1
        <4> QED  BY <4>1
      <3> QED  BY <3>1, <3>2, <3>3
    <2>2. CASE f # r.fn
      <3>1. f \in accepted /\ f \in Frame /\ asked'[f] = asked[f]
        BY <1>1, <1>2, <2>2
      <3> QED  BY <1>1, <3>1 DEF Told, Answers
    <2> QED  BY <2>1, <2>2
  <1>5. Answers'
    BY <1>4 DEF Answers
  <1> QED  BY <1>3, <1>5 DEF Told

\* Buffers that were owed are given back.
LEMMA ReturnedTold ==
    ASSUME Idle, Base, Told, NEW fn \in Frame, NEW bufs \in SUBSET Streams,
           \A s \in bufs : \E r \in Owed : r.fn = fn /\ s \in r.bufs,
           mPendingBuffersMap' = removeBufs(mPendingBuffersMap, fn, bufs),
           back' = Returned(back, fn, bufs), asked' = asked
    PROVE  /\ \A f \in Frame, s \in Streams : back'[f][s] <= 1
           /\ \A f \in accepted : \A s \in asked[f] :
                 \/ back'[f][s] = 1
                 \/ \E r \in Owed' : r.fn = f /\ s \in r.bufs
  <1>1. /\ TypedLists /\ TypedLedger /\ Lists
        /\ \A f \in Frame, s \in Streams : back[f][s] \in Nat
        /\ \A f \in accepted : f \in Frame /\ asked[f] \subseteq Streams
    BY DEF Base, Typed, TypedLedger
  <1>2. \A f \in Frame, s \in Streams :
           back'[f][s] = IF f = fn /\ s \in bufs THEN back[f][s] + 1
                         ELSE back[f][s]
    BY <1>1, OwedBooks, SMT
  <1>3. \A o \in Owed : \A s \in o.bufs :
           ~ (o.fn = fn /\ s \in bufs) =>
              \E r \in Owed' : r.fn = o.fn /\ s \in r.bufs
    BY <1>1, OwedBooks, SMT
  <1>4. \A s \in bufs : back[fn][s] = 0
    BY <1>1 DEF Lists
  <1>5. \A s \in bufs : back'[fn][s] = 1
    BY <1>2, <1>4
  <1>6. ASSUME NEW f \in Frame, NEW s \in Streams PROVE back'[f][s] <= 1
    <2>1. CASE f = fn /\ s \in bufs
      BY <1>5, <2>1
    <2>2. CASE ~ (f = fn /\ s \in bufs)
      BY <1>2, <2>2 DEF Told, Once
    <2> QED  BY <2>1, <2>2
  <1>7. ASSUME NEW f \in accepted, NEW s \in asked[f]
        PROVE  \/ back'[f][s] = 1
               \/ \E r \in Owed' : r.fn = f /\ s \in r.bufs
    <2>1. CASE f = fn /\ s \in bufs
      BY <1>5, <2>1
    <2>2. CASE ~ (f = fn /\ s \in bufs)
      <3>1. f \in Frame /\ s \in Streams
        BY <1>1
      <3>2. CASE back[f][s] = 1
        BY <1>2, <2>2, <3>1, <3>2
      <3>3. CASE \E r \in Owed : r.fn = f /\ s \in r.bufs
        BY <1>3, <2>2, <3>3
      <3> QED  BY <3>2, <3>3 DEF Told, Answers
    <2> QED  BY <2>1, <2>2
  <1> QED  BY <1>6, <1>7

\* erasePendingRequest.
LEMMA LeavesPending ==
    ASSUME Base, NEW q \in Pending,
           mPendingRequestsList' = Without(mPendingRequestsList, q.fn)
    PROVE  Pending' = {p \in Pending : p.fn # q.fn}
  <1> DEFINE fn == q.fn
             t == Without(mPendingRequestsList, fn)
  <1>1. /\ mPendingRequestsList \in Seq(Request) /\ Increasing(mPendingRequestsList)
        /\ Entries(Request) /\ fn \in Nat
    <2>1. q \in Request
      BY Seen
    <2> QED  BY <2>1, FrameNat DEF Base, Typed, TypedLists, Lists, Request,
       Entries
  <1> HIDE DEF fn
  <1>2. Range(t) = {p \in Range(mPendingRequestsList) : p.fn # fn}
    BY <1>1, WithoutEntry
  <1> QED  BY <1>2, Zenon DEF Pending, fn

\* A frame that was pending ends.
LEMMA EndedTold ==
    ASSUME Base, Told, NEW q \in Pending,
           Pending' = {p \in Pending : p.fn # q.fn},
           shutter' = [shutter EXCEPT ![q.fn] = @ + 1],
           final' = [final EXCEPT ![q.fn] = @ + 1],
           UNCHANGED <<asked, accepted>>,
           \A f \in Frame, s \in Streams : back'[f][s] <= 1,
           \A f \in accepted : \A s \in asked[f] :
                 \/ back'[f][s] = 1
                 \/ \E r \in Owed' : r.fn = f /\ s \in r.bufs
    PROVE  Told'
  <1>1. /\ q.fn \in Frame /\ final[q.fn] = 0 /\ shutter[q.fn] = 0
        /\ final \in [Frame -> Nat] /\ shutter \in [Frame -> Nat]
        /\ accepted \subseteq Frame
    <2>1. q.fn \in Frame
      BY Seen DEF Request
    <2> QED  BY <2>1 DEF Base, Typed, TypedLedger, Lists
  <1>2. \A f \in Frame : /\ final'[f] = IF f = q.fn THEN 1 ELSE final[f]
                         /\ shutter'[f] = IF f = q.fn THEN 1 ELSE shutter[f]
    BY <1>1
  <1>3. Once'
    BY <1>2 DEF Told, Once
  <1>4. ASSUME NEW f \in accepted
        PROVE  final'[f] = 1 \/ \E p \in Pending' : p.fn = f
    BY <1>1, <1>2 DEF Told, Answers
  <1>5. Answers'
    BY <1>4 DEF Told, Answers
  <1> QED  BY <1>3, <1>5 DEF Told

\* Where requests are reprocessed, the lists are not cleared by an error.
Undisturbed ==
    env.reprocess => /\ \A t \in Thread : thread[t].pc # "notify"
                     /\ thread["request"].pc # "resume"

\* processCaptureRequest.
LEMMA RegistersTold ==
    ASSUME Idle, Base, Told, UNCHANGED env, processCaptureRequest \/ SensorRestarted
    PROVE  Told'
  <1>1. PICK r, u : Entering(r, u)
    BY processCaptureRequestEnters, SensorRestartedEnters
  <1>2. /\ r \in [fn : Frame, bufs : SUBSET Streams, input : BOOLEAN]
        /\ r.bufs # {} /\ Unseen = r.fn
    BY <1>1 DEF Entering
  <1>3. /\ Registered(r) /\ accepted' \subseteq accepted \cup {r.fn}
        /\ Pending' = Pending \cup {[fn |-> r.fn, input |-> r.input,
                                     bufs |-> r.bufs, cached |-> {}]}
        /\ Owed' = Owed \cup {[fn |-> r.fn, bufs |-> r.bufs]}
    BY <1>1, AcceptedStep
  <1> QED  BY <1>2, <1>3, AcceptedTold

\* Metadata ends the request of its frame, and gives back what is cached.
LEMMA MetadataTold ==
    ASSUME Idle, Base, Told, UNCHANGED env, Metadata
    PROVE  Told'
  <1>1. CASE handleBatchMetadata
    BY <1>1, QuietTold DEF handleBatchMetadata, lists, ledger, told, Idle
  <1>2. ASSUME NEW drop \in SUBSET (Streams \ Blob), handleMetadataWithLock(drop)
        PROVE  Told'
    <2> DEFINE fn == Head(metaCb)
    <2>1. UNCHANGED <<asked, accepted>>
      BY <1>2 DEF handleMetadataWithLock, ledger
    <2>2. \/ UNCHANGED <<mPendingRequestsList, mPendingBuffersMap, told>>
          \/ /\ \E r \in Range(mPendingRequestsList) :
                  /\ r.fn = fn
                  /\ back' = Returned(back, fn, r.cached)
                  /\ mPendingBuffersMap' =
                        removeBufs(mPendingBuffersMap, fn, r.cached)
             /\ shutter' = [shutter EXCEPT ![fn] = @ + 1]
             /\ final' = [final EXCEPT ![fn] = @ + 1]
             /\ mPendingRequestsList' = Without(mPendingRequestsList, fn)
      BY <1>2 DEF handleMetadataWithLock, fn, lists
    <2> HIDE DEF fn
    <2>3. CASE UNCHANGED <<mPendingRequestsList, mPendingBuffersMap, told>>
      BY <2>1, <2>3, QuietTold DEF told, Idle
    <2>4. CASE /\ \E r \in Range(mPendingRequestsList) :
                  /\ r.fn = fn
                  /\ back' = Returned(back, fn, r.cached)
                  /\ mPendingBuffersMap' =
                        removeBufs(mPendingBuffersMap, fn, r.cached)
               /\ shutter' = [shutter EXCEPT ![fn] = @ + 1]
               /\ final' = [final EXCEPT ![fn] = @ + 1]
               /\ mPendingRequestsList' = Without(mPendingRequestsList, fn)
      <3>1. PICK q \in Pending :
                  /\ q.fn = fn
                  /\ back' = Returned(back, fn, q.cached)
                  /\ mPendingBuffersMap' =
                        removeBufs(mPendingBuffersMap, fn, q.cached)
        BY <2>4 DEF Pending
      <3>2. /\ fn \in Frame /\ q.cached \in SUBSET Streams
            /\ q.cached \subseteq q.bufs
            /\ \E r \in Owed : r.fn = fn /\ r.bufs = q.bufs
        <4>1. q \in Request
          BY Seen
        <4> QED  BY <3>1, <4>1 DEF Base, Lists, Request
      <3>3. \A s \in q.cached : \E r \in Owed : r.fn = fn /\ s \in r.bufs
        BY <3>2
      <3>4. Pending' = {p \in Pending : p.fn # q.fn}
        BY <2>4, <3>1, LeavesPending
      <3>5. /\ \A f \in Frame, s \in Streams : back'[f][s] <= 1
            /\ \A f \in accepted : \A s \in asked[f] :
                 \/ back'[f][s] = 1
                 \/ \E r \in Owed' : r.fn = f /\ s \in r.bufs
        BY <2>1, <3>1, <3>2, <3>3, ReturnedTold
      <3>6. /\ shutter' = [shutter EXCEPT ![q.fn] = @ + 1]
            /\ final' = [final EXCEPT ![q.fn] = @ + 1]
        BY <2>4, <3>1
      <3> QED  BY <2>1, <3>4, <3>5, <3>6, EndedTold
    <2> QED  BY <2>2, <2>3, <2>4
  <1> QED  BY <1>1, <1>2 DEF Metadata

\* Buffers are given back once.
LEMMA BuffersTold ==
    ASSUME Idle, Base, Told, UNCHANGED env, Buffers
    PROVE  Told'
  <1>1. ASSUME NEW fn \in Frame, handleInputBufferWithLock(fn)
        PROVE  Told'
    <2>1. UNCHANGED <<mPendingBuffersMap, asked, accepted, back>>
      BY <1>1 DEF handleInputBufferWithLock, ledger
    <2>2. CASE UNCHANGED <<shutter, final, mPendingRequestsList>>
      BY <2>1, <2>2, QuietTold DEF Idle
    <2>3. CASE /\ \E r \in Range(mPendingRequestsList) : r.fn = fn /\ r.input
               /\ shutter' = [shutter EXCEPT ![fn] = @ + 1]
               /\ final' = [final EXCEPT ![fn] = @ + 1]
               /\ mPendingRequestsList' = Without(mPendingRequestsList, fn)
      <3>1. PICK q \in Pending : q.fn = fn
        BY <2>3 DEF Pending
      <3>2. Pending' = {p \in Pending : p.fn # q.fn}
        BY <2>3, <3>1, LeavesPending
      <3>3. Owed' = Owed
        BY <2>1, IdleOwed
      <3>4. /\ \A f \in Frame, s \in Streams : back'[f][s] <= 1
            /\ \A f \in accepted : \A s \in asked[f] :
                 \/ back'[f][s] = 1
                 \/ \E r \in Owed' : r.fn = f /\ s \in r.bufs
        BY <2>1, <3>3 DEF Told, Once, Answers
      <3>5. /\ shutter' = [shutter EXCEPT ![q.fn] = @ + 1]
            /\ final' = [final EXCEPT ![q.fn] = @ + 1]
        BY <2>3, <3>1
      <3> QED  BY <2>1, <3>2, <3>4, <3>5, EndedTold
    <2> QED  BY <1>1, <2>2, <2>3 DEF handleInputBufferWithLock
  <1>2. ASSUME NEW fn \in Frame, NEW s \in Streams, handleBufferWithLock(fn, s)
        PROVE  Told'
    <2>1. /\ UNCHANGED <<asked, accepted, shutter, final>>
          /\ <<fn, s>> \in due.bufs
      BY <1>2 DEF handleBufferWithLock, Ready, ledger
    <2>2. CASE UNCHANGED <<lists, back>>
      BY <2>1, <2>2, QuietTold DEF lists, Idle
    <2>3. CASE /\ fn \in Numbers(mPendingRequestsList)
               /\ mPendingRequestsList' =
                   [i \in DOMAIN mPendingRequestsList |->
                       IF mPendingRequestsList[i].fn = fn
                         THEN [mPendingRequestsList[i] EXCEPT
                                  !.cached = @ \cup {s}]
                         ELSE mPendingRequestsList[i]]
               /\ UNCHANGED <<mPendingBuffersMap, back>>
      <3>1. \A q \in Pending : \E p \in Pending' : p.fn = q.fn
        <4> SUFFICES ASSUME NEW q \in Pending PROVE \E p \in Pending' : p.fn = q.fn
          OBVIOUS
        <4>1. PICK i \in DOMAIN mPendingRequestsList : mPendingRequestsList[i] = q
          BY DEF Pending, Range
        <4>2. q \in Request
          BY Seen
        <4>3. mPendingRequestsList'[i].fn = q.fn
          BY <2>3, <4>1, <4>2 DEF Request
        <4>4. mPendingRequestsList'[i] \in Pending'
          BY <2>3 DEF Pending, Range
        <4> QED  BY <4>3, <4>4
      <3>2. Owed' = Owed
        BY <2>3, IdleOwed
      <3> QED  BY <2>1, <2>3, <3>1, <3>2 DEF Told, Once, Answers
    <2>4. CASE /\ back' = Returned(back, fn, {s})
               /\ mPendingBuffersMap' = removeBufs(mPendingBuffersMap, fn, {s})
               /\ UNCHANGED mPendingRequestsList
      <3> DEFINE bufs == {s}
      <3>1. /\ \A z \in bufs : \E r \in Owed : r.fn = fn /\ z \in r.bufs
            /\ bufs \in SUBSET Streams
            /\ back' = Returned(back, fn, bufs) /\ asked' = asked
            /\ mPendingBuffersMap' = removeBufs(mPendingBuffersMap, fn, bufs)
        <4>1. \E r \in Owed : r.fn = fn /\ s \in r.bufs
          BY <2>1 DEF Base, Dues
        <4> QED  BY <2>1, <2>4, <4>1
      <3> HIDE DEF bufs
      <3>2. /\ \A f \in Frame, z \in Streams : back'[f][z] <= 1
            /\ \A f \in accepted : \A z \in asked[f] :
                 \/ back'[f][z] = 1
                 \/ \E r \in Owed' : r.fn = f /\ z \in r.bufs
        BY <3>1, ReturnedTold
      <3>3. Pending' = Pending
        BY <2>4 DEF Pending
      <3> QED  BY <2>1, <3>2, <3>3 DEF Told, Once, Answers
    <2> QED  BY <1>2, <2>2, <2>3, <2>4 DEF handleBufferWithLock, lists
  <1> QED  BY <1>1, <1>2 DEF Buffers

\* The sensor restart answers an entry: the request it erases is that of the
\* entry, and had not ended.
LEMMA EntryAnsweredTold ==
    ASSUME Base, Walks, Told, ~env.reprocess, UNCHANGED env, EntryAnswered
    PROVE  Told'
  <1>1. UNCHANGED <<asked, accepted, shutter>>
    BY DEF EntryAnswered, ledger
  <1>2. PICK e \in Buffer :
           /\ e \in Owed /\ Owed = Owed' \cup {e}
           /\ \A f \in Frame, s \in Streams :
                 back'[f][s] = IF f = e.fn /\ s \in e.bufs
                                 THEN back[f][s] + 1 ELSE back[f][s]
           /\ \A f \in Frame : f # e.fn => final'[f] = final[f]
           /\ \A q \in Pending : q.fn = e.fn \/ q \in Pending'
           /\ final'[e.fn] = IF \E q \in Pending : q.fn = e.fn
                               THEN final[e.fn] + 1 ELSE final[e.fn]
    BY AnsweredEntry
  <1>3. /\ Lists /\ accepted \subseteq Frame
        /\ \A f \in Frame : asked[f] \subseteq Streams
    BY DEF Base, Typed, TypedLedger
  <1>4. ASSUME NEW f \in Frame
        PROVE  IF f = e.fn /\ \E q \in Pending : q.fn = f
                 THEN final[f] = 0 /\ shutter[f] = 0 /\ final'[f] = 1
                 ELSE final'[f] = final[f]
    <2>1. CASE f = e.fn /\ \E q \in Pending : q.fn = f
      <3>1. final[f] = 0 /\ shutter[f] = 0
        BY <1>3, <2>1 DEF Lists
      <3> QED  BY <1>2, <2>1, <3>1
    <2>2. CASE ~ (f = e.fn /\ \E q \in Pending : q.fn = f)
      BY <1>2, <2>2
    <2> QED  BY <2>1, <2>2
  <1>5. ASSUME NEW f \in Frame, NEW s \in Streams
        PROVE  IF f = e.fn /\ s \in e.bufs
                 THEN back[f][s] = 0 /\ back'[f][s] = 1
                 ELSE back'[f][s] = back[f][s]
    <2>1. f = e.fn /\ s \in e.bufs => back[f][s] = 0
      BY <1>2, <1>3 DEF Lists
    <2> QED  BY <1>2, <2>1
  <1>6. Once'
    <2> SUFFICES ASSUME NEW f \in Frame
                 PROVE  /\ shutter'[f] <= final'[f] /\ final'[f] <= 1
                        /\ \A s \in Streams : back'[f][s] <= 1
      BY DEF Once
    <2>1. shutter[f] <= final[f] /\ final[f] <= 1
          /\ \A s \in Streams : back[f][s] <= 1
      BY DEF Told, Once
    <2>2. shutter'[f] <= final'[f] /\ final'[f] <= 1
      BY <1>1, <1>4, <2>1
    <2> QED  BY <1>5, <2>1, <2>2
  <1>7. ASSUME NEW f \in accepted
        PROVE  /\ asked[f] # {}
               /\ final'[f] = 1 \/ \E q \in Pending' : q.fn = f
               /\ \A s \in asked[f] : \/ back'[f][s] = 1
                                      \/ \E r \in Owed' : r.fn = f /\ s \in r.bufs
    <2>1. /\ asked[f] # {} /\ f \in Frame /\ asked[f] \subseteq Streams
          /\ final[f] = 1 \/ \E q \in Pending : q.fn = f
          /\ \A s \in asked[f] : \/ back[f][s] = 1
                                 \/ \E r \in Owed : r.fn = f /\ s \in r.bufs
      BY <1>3 DEF Told, Answers
    <2>2. final'[f] = 1 \/ \E q \in Pending' : q.fn = f
      BY <1>2, <1>4, <2>1
    <2>3. ASSUME NEW s \in asked[f]
          PROVE  \/ back'[f][s] = 1
                 \/ \E r \in Owed' : r.fn = f /\ s \in r.bufs
      <3>1. s \in Streams
        BY <2>1
      <3>2. CASE f = e.fn /\ s \in e.bufs
        BY <1>5, <2>1, <3>1, <3>2
      <3>3. CASE ~ (f = e.fn /\ s \in e.bufs)
        <4>1. back'[f][s] = back[f][s]
          BY <1>5, <2>1, <3>1, <3>3
        <4> QED  BY <1>2, <2>1, <3>3, <4>1
      <3> QED  BY <3>2, <3>3
    <2> QED  BY <2>1, <2>2, <2>3
  <1>8. Answers'
    BY <1>1, <1>7 DEF Answers
  <1> QED  BY <1>6, <1>8 DEF Told

\* The loop of the sensor restart.
LEMMA WalkTold ==
    ASSUME Base, Walks, Told, Undisturbed, UNCHANGED env,
           dynamicUpdateMetaStreamInfo
    PROVE  Told'
  <1>1. CASE WalkBegins
    <2>1. Quiet /\ walk'.hand = walk.hand
      BY <1>1, WalkBeginsStep
    <2> QED  BY <2>1, QuietTold DEF Quiet
  <1>2. CASE EntryErased
    <2>1. Owed' = Owed /\ Pending' = Pending /\ UNCHANGED <<ledger, told>>
      BY <1>2, EntryErasedStep
    <2> QED  BY <2>1 DEF Told, Once, Answers, ledger, told
  <1>3. CASE EntryAnswered
    <2>1. ~env.reprocess
      BY <1>3 DEF EntryAnswered, Walks, Undisturbed
    <2> QED  BY <1>3, <2>1, EntryAnsweredTold
  <1>4. CASE WalkEnds
    <2>1. Quiet /\ walk'.hand = walk.hand
      BY <1>4, WalkEndsStep
    <2> QED  BY <2>1, QuietTold DEF Quiet
  <1> QED  BY <1>1, <1>2, <1>3, <1>4 DEF dynamicUpdateMetaStreamInfo

\* Every step tells of each frame once, unless a flush races with the loop.
LEMMA NextTold ==
    ASSUME Base, Walks, Told, Undisturbed, [Next]_vars
    PROVE  raced' \/ Told'
  <1>1. CASE UNCHANGED vars
    BY <1>1, QuietTold DEF vars, lists, ledger, told, walking
  <1>2. CASE Next
    <2>0. UNCHANGED env
      BY <1>2 DEF Next
    <2>1. CASE Framework
      <3>0. walk' = walk
        BY <2>1 DEF Framework, close_camera_device, walking
      <3>1. CASE close_camera_device
        BY <3>1, CloseTold
      <3>2. CASE processCaptureRequest
        <4>1. Idle
          BY <3>0, <3>2, OffLoop DEF processCaptureRequest, MayAsk
        <4> QED  BY <2>0, <3>2, <4>1, RegistersTold
      <3>3. CASE openCamera \/ initialize \/ configureStreams \/ FlushCalled
        BY <3>0, <3>3, QuietTold DEF openCamera, initialize, configureStreams,
           FlushCalled, lists, ledger, told
      <3>4. CASE \/ RequestRefused \/ SetupFails \/ SettingsFail \/ SensorRestart
        BY <3>0, <3>4, QuietTold DEF RequestRefused, SetupFails, SettingsFail,
           SensorRestart, lists, ledger, told
      <3> QED  BY <2>1, <3>1, <3>2, <3>3, <3>4 DEF Framework
    <2>2. CASE RequestProceeds
      <3>1. CASE dynamicUpdateMetaStreamInfo
        BY <2>0, <3>1, WalkTold
      <3>2. CASE ~dynamicUpdateMetaStreamInfo
        <4>0. walk' = walk
          BY <2>2, <3>2 DEF RequestProceeds, walking
        <4>1. CASE configureStreamsPerfLocked
          BY <4>1, ConfigureTold
        <4>2. CASE SensorRestarted
          <5>1. Idle
            BY <4>0, <4>2, OffLoop DEF SensorRestarted
          <5> QED  BY <2>0, <4>2, <5>1, RegistersTold
        <4>3. CASE Initialized \/ SensorStops \/ Woken \/ TimedOut
          BY <4>0, <4>3, QuietTold DEF Initialized, SensorStops, Woken, TimedOut,
             lists, ledger, told
        <4> QED  BY <2>2, <3>2, <4>1, <4>2, <4>3 DEF RequestProceeds
      <3> QED  BY <3>1, <3>2
    <2>3. CASE Metadata
      BY <2>0, <2>3, AnswersOffLoop, MetadataTold
    <2>4. CASE Buffers
      BY <2>0, <2>4, AnswersOffLoop, BuffersTold
    <2>5. CASE Daemon
      BY <2>5, QuietTold DEF Daemon, DaemonDied, DaemonPulls, lists, ledger,
         told, walking
    <2>6. ASSUME NEW t \in Thread, FlushProceeds(t)
          PROVE  raced' \/ Told'
      <3>1. CASE flush(t)
        <4> SUFFICES ASSUME ~raced' PROVE Told'
          OBVIOUS
        <4>1. ~walk.on /\ Idle
          BY <3>1, FlushRaces
        <4>2. /\ ~env.reprocess /\ notifyErrorForPendingRequests
              /\ UNCHANGED <<asked, accepted>>
          BY <3>1, <4>1 DEF flush, Undisturbed, ledger
        <4> QED  BY <4>1, <4>2, NotifyTold
      <3>2. CASE ~flush(t)
        <4>1. /\ walk' = walk
              /\ \/ handleCameraDeviceError(t) \/ FlushBegins(t)
                 \/ FlushStops(t) \/ Deinit(t)
          BY <2>6, <3>2 DEF FlushProceeds, walking
        <4> QED  BY <4>1, QuietTold DEF handleCameraDeviceError, FlushBegins,
                 FlushStops, Deinit, lists, ledger, told
      <3> QED  BY <3>1, <3>2
    <2> QED  BY <1>2, <2>1, <2>2, <2>3, <2>4, <2>5, <2>6 DEF Next
  <1> QED  BY <1>1, <1>2

---------------------------------------------------------------------------
(* Reprocessing                                                            *)

\* Reprocessing is not mixed with flushes, the death of the daemon, failing
\* calls or high speed mode.
Separate == \A e \in Scenarios :
               e.reprocess => ~e.flush /\ ~e.die /\ ~e.fail /\ e.sizes \subseteq {0}

\* Then the device is never in error: the metadata of the live requests comes
\* in their order.
AloneState ==
    /\ mState \notin {"ERROR", "DEINIT"} /\ ~mFlush /\ batch.size = 0
    /\ thread["flush"].pc = "out"
    /\ thread["request"].pc \in {"out", "initialized", "configure", "wait"}

\* Each live request that is pending waits for metadata that will come.
AloneMeta ==
    /\ thread["request"].pc # "configure" =>
          \A q \in Pending : ~q.input =>
             q.fn \in Range(metaCb) \cup Range(due.meta)
    /\ \A i, j \in DOMAIN due.meta : i < j => due.meta[i] < due.meta[j]
    /\ Len(metaCb) <= 1
    /\ \A f \in Range(metaCb), g \in Range(due.meta) : f < g

\* What holds where requests are reprocessed.
Alone == env.reprocess => AloneState /\ AloneMeta

\* No step clears the lists then.
LEMMA AloneUndisturbed == Alone => Undisturbed
  BY DEF Alone, AloneState, Undisturbed, Thread

\* A step that leaves the metadata alone.
LEMMA SameMeta ==
    ASSUME AloneMeta, due'.meta = due.meta, metaCb' = metaCb,
           thread["request"].pc = "configure" => thread'["request"].pc = "configure",
           \A p \in Pending' : \E q \in Pending : p.fn = q.fn /\ p.input = q.input
    PROVE  AloneMeta'
  BY DEF AloneMeta, Range

\* A live request appends its metadata, a reprocess request has none.
LEMMA RegistersAlone ==
    ASSUME Idle, Base, Alone, Separate, env.reprocess,
           UNCHANGED env, processCaptureRequest \/ SensorRestarted
    PROVE  Alone'
  <1>1. PICK r, u : Entering(r, u)
    BY processCaptureRequestEnters, SensorRestartedEnters
  <1>2. /\ ~env.fail /\ env.sizes \subseteq {0}
        /\ AloneState /\ AloneMeta
    BY DEF Separate, Base, Typed, TypedState, Alone
  <1>3. u.batch \in Batch /\ u.batch.size = 0 /\ ~mFlush
    BY <1>1, <1>2 DEF Entering, AloneState
  <1>4. /\ thread'["request"].pc \in {"out", "wait"}
        /\ thread'["flush"] = thread["flush"] /\ metaCb' = metaCb
        /\ Pending' = Pending \cup {[fn |-> r.fn, input |-> r.input,
                                     bufs |-> r.bufs, cached |-> {}]}
    BY <1>1, AcceptedStep
  <1>5. /\ r.fn \in Frame /\ Unseen = r.fn /\ mFlush' = mFlush
        /\ thread["request"].pc \in {"out", "register"}
    BY <1>1 DEF Entering
  <1>6. /\ \A f \in Range(due.meta) : f \in Nat /\ f < r.fn
        /\ \A f \in Range(metaCb) : f \in Nat /\ f < r.fn
    BY <1>5, Seen, FrameNat DEF Range
  <1>7. due.meta \in Seq(Frame)
    BY DEF Base, Typed, TypedDue
  <1>8. \/ LiveAccepted(r, u)
        \/ ReprocessAccepted(r, u)
    BY <1>1, <1>2, <1>3 DEF Entering, Accepted, LeftToFlush, ChannelRefuses
  <1>9. /\ mState' = "STARTED" /\ batch'.size = 0
        /\ \/ due'.meta = due.meta /\ r.input
           \/ due'.meta = Append(due.meta, r.fn)
    <2>1. CASE ReprocessAccepted(r, u)
      <3>1. due'.meta = due.meta
        BY <2>1 DEF ReprocessAccepted, Base, Typed, TypedDue
      <3> QED  BY <1>3, <2>1, <3>1 DEF ReprocessAccepted
    <2>2. CASE LiveAccepted(r, u)
      <3>1. /\ Batched(u.batch, r.fn) \in Batch
            /\ Batched(u.batch, r.fn).size = 0
        <4>1. u.batch.queued > 0 => u.batch.first \in Frame
          BY <1>1 DEF Entering
        <4> QED  BY <1>3, <1>5, <4>1, BatchedTyped
      <3>2. Sent(r, Batched(u.batch, r.fn)) /\ mState' = "STARTED"
        BY <2>2 DEF LiveAccepted
      <3>3. due'.meta = Append(due.meta, r.fn) /\ batch'.size = 0
        BY <3>1, <3>2 DEF Sent, Batch
      <3> QED  BY <3>2, <3>3
    <2> QED  BY <1>8, <2>1, <2>2
  <1>10. AloneState'
    BY <1>2, <1>4, <1>5, <1>9 DEF AloneState
  <1>11. /\ \A i, j \in DOMAIN due'.meta : i < j => due'.meta[i] < due'.meta[j]
         /\ \A f \in Range(metaCb'), g \in Range(due'.meta) : f < g
         /\ Range(due.meta) \subseteq Range(due'.meta)
         /\ r.input \/ r.fn \in Range(due'.meta)
    <2>1. CASE due'.meta = due.meta /\ r.input
      BY <1>2, <1>4, <2>1 DEF AloneMeta
    <2>2. CASE due'.meta = Append(due.meta, r.fn)
      <3> DEFINE s == due.meta
                 t == due'.meta
      <3>1. /\ DOMAIN s = 1..Len(s) /\ Len(s) \in Nat
            /\ \A i \in DOMAIN s : s[i] \in Range(s)
            /\ DOMAIN t = 1..(Len(s) + 1) /\ t[Len(s) + 1] = r.fn
            /\ \A i \in 1..Len(s) : t[i] = s[i]
        BY <1>5, <1>7, <2>2 DEF Range
      <3> HIDE DEF s, t
      <3>2. Range(t) = Range(s) \cup {r.fn}
        <4>1. Range(t) \subseteq Range(s) \cup {r.fn}
          BY <3>1 DEF Range
        <4>2. r.fn \in Range(t)
          BY <3>1 DEF Range
        <4>3. \A i \in DOMAIN s : s[i] \in Range(t)
          BY <3>1 DEF Range
        <4> QED  BY <4>1, <4>2, <4>3 DEF Range
      <3>3. \A i, j \in DOMAIN s : i < j => s[i] < s[j]
        BY <1>2 DEF AloneMeta, s
      <3>4. \A f \in Range(s) : f \in Nat /\ f < r.fn
        BY <1>6 DEF s
      <3>5. ASSUME NEW i \in DOMAIN t, NEW j \in DOMAIN t, i < j
            PROVE  t[i] < t[j]
        <4>1. CASE j = Len(s) + 1
          BY <3>1, <3>4, <3>5, <4>1
        <4>2. CASE j # Len(s) + 1
          BY <3>1, <3>3, <3>5, <4>2
        <4> QED  BY <4>1, <4>2
      <3>6. \A f \in Range(metaCb'), g \in Range(t) : f < g
        BY <1>2, <1>4, <1>6, <3>2 DEF AloneMeta, s
      <3> QED  BY <3>2, <3>5, <3>6 DEF s, t
    <2> QED  BY <1>9, <2>1, <2>2
  <1>12. \A q \in Pending' : ~q.input => q.fn \in Range(metaCb') \cup Range(due'.meta)
    <2>1. thread["request"].pc # "configure"
      BY <1>5
    <2> QED  BY <1>2, <1>4, <1>11, <2>1 DEF AloneMeta
  <1>13. AloneMeta'
    BY <1>2, <1>4, <1>11, <1>12 DEF AloneMeta
  <1> QED  BY <1>10, <1>13 DEF Alone

\* Metadata is handled in order: no live request is skipped.
LEMMA MetadataAlone ==
    ASSUME Base, Alone, env.reprocess, UNCHANGED env, Metadata
    PROVE  Alone'
  <1>0. AloneState /\ AloneMeta /\ TypedDue
    BY DEF Alone, Base, Typed
  <1>1. CASE handleBatchMetadata
    <2>1. /\ metaCb = <<>> /\ due.meta # <<>>
          /\ due' = [due EXCEPT !.meta = Tail(@)]
          /\ UNCHANGED <<mState, mFlush, mPendingRequestsList, batch, thread>>
          /\ metaCb' = <<Head(due.meta)>>
      BY <1>0, <1>1 DEF handleBatchMetadata, AloneState, lists
    <2>2. AloneState'
      BY <1>0, <2>1 DEF AloneState
    <2> DEFINE s == due.meta
               t == due'.meta
    <2>3. /\ s \in Seq(Frame) /\ s # <<>> /\ t = Tail(s)
      BY <1>0, <2>1 DEF TypedDue
    <2>4. Pending' = Pending
      BY <2>1 DEF Pending
    <2>5. \A i, j \in DOMAIN s : i < j => s[i] < s[j]
      BY <1>0 DEF AloneMeta
    <2>a. metaCb' = <<Head(s)>>
      BY <2>1
    <2> HIDE DEF s, t
    <2>6. /\ DOMAIN s = 1..Len(s) /\ Len(s) \in Nat /\ Len(s) >= 1
          /\ DOMAIN t = 1..(Len(s) - 1)
          /\ \A i \in 1..(Len(s) - 1) : t[i] = s[i + 1]
          /\ Head(s) = s[1] /\ \A i \in DOMAIN s : s[i] \in Nat
      <3>1. /\ DOMAIN s = 1..Len(s) /\ Len(s) \in Nat /\ Len(s) >= 1
            /\ Head(s) = s[1] /\ \A i \in DOMAIN s : s[i] \in Frame
        BY <2>3
      <3>2. /\ DOMAIN t = 1..(Len(s) - 1)
            /\ \A i \in 1..(Len(s) - 1) : t[i] = s[i + 1]
        BY <2>3
      <3>3. \A i \in DOMAIN s : s[i] \in Nat
        BY <3>1, FrameNat
      <3> QED  BY <3>1, <3>2, <3>3
    <2>7. \A i, j \in DOMAIN t : i < j => t[i] < t[j]
      <3> SUFFICES ASSUME NEW i \in 1..(Len(s) - 1), NEW j \in 1..(Len(s) - 1), i < j
                   PROVE  t[i] < t[j]
        BY <2>6
      <3>1. i + 1 \in DOMAIN s /\ j + 1 \in DOMAIN s /\ i + 1 < j + 1
        BY <2>6
      <3>2. t[i] = s[i + 1] /\ t[j] = s[j + 1]
        BY <2>6
      <3> QED  BY <2>5, <3>1, <3>2
    <2>8. Range(metaCb') = {s[1]} /\ Len(metaCb') = 1
      BY <2>a, <2>6 DEF Range
    <2>9. \A g \in Range(t) : s[1] < g
      <3> SUFFICES ASSUME NEW i \in DOMAIN t PROVE s[1] < t[i]
        BY DEF Range
      <3>1. i + 1 \in DOMAIN s /\ 1 < i + 1 /\ 1 \in DOMAIN s
        BY <2>6
      <3> QED  BY <2>5, <2>6, <3>1
    <2>10. Range(s) \subseteq {s[1]} \cup Range(t)
      <3> SUFFICES ASSUME NEW i \in DOMAIN s PROVE s[i] = s[1] \/ s[i] \in Range(t)
        BY DEF Range
      <3>1. CASE i = 1
        BY <3>1
      <3>2. CASE i # 1
        <4>1. i - 1 \in DOMAIN t /\ t[i - 1] = s[i]
          BY <2>6, <3>2
        <4> QED  BY <4>1 DEF Range
      <3> QED  BY <3>1, <3>2
    <2>11. Range(metaCb) = {}
      BY <2>1 DEF Range
    <2>12. AloneMeta'
      <3>1. \A f \in Range(metaCb'), g \in Range(due'.meta) : f < g
        BY <2>8, <2>9 DEF t
      <3>2. thread'["request"].pc # "configure" =>
               \A q \in Pending : ~q.input =>
                  q.fn \in Range(metaCb') \cup Range(due'.meta)
        <4>1. thread' = thread
          BY <2>1
        <4> QED  BY <1>0, <2>8, <2>10, <2>11, <4>1 DEF AloneMeta, s, t
      <3>3. Len(metaCb') <= 1
        BY <2>8
      <3>4. \A i, j \in DOMAIN due'.meta : i < j => due'.meta[i] < due'.meta[j]
        BY <2>7 DEF t
      <3> QED  BY <2>4, <3>1, <3>2, <3>3, <3>4 DEF AloneMeta
    <2> QED  BY <2>2, <2>12 DEF Alone
  <1>2. ASSUME NEW drop \in SUBSET (Streams \ Blob), handleMetadataWithLock(drop)
        PROVE  Alone'
    <2> DEFINE fn == Head(metaCb)
    <2>1. /\ metaCb # <<>> /\ metaCb' = Tail(metaCb)
          /\ UNCHANGED <<mFlush, batch, due, thread>>
      BY <1>2 DEF handleMetadataWithLock, batching
    <2>2. /\ metaCb \in Seq(Frame) /\ Len(metaCb) = 1 /\ metaCb' = <<>>
          /\ Range(metaCb) = {fn} /\ fn \in Frame
      <3>1. /\ metaCb \in Seq(Frame) /\ Len(metaCb) \in Nat /\ Len(metaCb) # 0
            /\ Len(metaCb) <= 1
        BY <1>0, <2>1 DEF TypedDue, AloneMeta
      <3>2. Len(metaCb) = 1 /\ DOMAIN metaCb = {1} /\ fn = metaCb[1]
        <4>1. Len(metaCb) = 1
          <5> DEFINE n == Len(metaCb)
          <5>1. n \in Nat /\ n # 0 /\ n <= 1
            BY <3>1
          <5> HIDE DEF n
          <5>2. n = 1
            BY <5>1
          <5> QED  BY <5>2 DEF n
        <4>2. DOMAIN metaCb = 1..1 /\ fn = metaCb[1]
          BY <2>1, <3>1, <4>1
        <4> QED  BY <4>1, <4>2
      <3>3. Range(metaCb) = {fn} /\ fn \in Frame
        BY <3>1, <3>2 DEF Range
      <3>4. metaCb' = <<>>
        BY <2>1, <3>1, <3>2
      <3> QED  BY <3>1, <3>2, <3>3, <3>4
    <2> HIDE DEF fn
    <2>3. thread["request"].pc # "configure"
      BY <2>1 DEF Base, Places, Clearing
    <2>4. \A q \in Pending : ~q.input => q.fn = fn \/ q.fn \in Range(due.meta)
      BY <1>0, <2>2, <2>3 DEF AloneMeta
    <2>5. \A g \in Range(due.meta) : fn < g /\ g \in Nat
      <3>1. \A g \in Range(due.meta) : g \in Nat
        BY Seen, FrameNat DEF Range
      <3> QED  BY <1>0, <2>2, <3>1 DEF AloneMeta
    <2>6. Skipped(fn) = {}
      <3> SUFFICES ASSUME NEW i \in DOMAIN mPendingRequestsList,
                          mPendingRequestsList[i].fn < fn,
                          ~mPendingRequestsList[i].input
                   PROVE  FALSE
        BY DEF Skipped
      <3>1. mPendingRequestsList[i] \in Pending
        BY DEF Pending, Range
      <3> QED  BY <2>2, <2>4, <2>5, <3>1, FrameNat
    <2>7. /\ mState' = mState
          /\ \/ /\ mPendingRequestsList' = mPendingRequestsList
                /\ {r \in Range(mPendingRequestsList) : r.fn = fn} = {}
             \/ /\ mPendingRequestsList' = Without(mPendingRequestsList, fn)
                /\ \E r \in Range(mPendingRequestsList) : r.fn = fn
      BY <1>0, <1>2, <2>6 DEF handleMetadataWithLock, AloneState, fn, lists
    <2>8. AloneState'
      BY <1>0, <2>1, <2>7 DEF AloneState
    <2>9. \A q \in Pending' : q \in Pending /\ q.fn # fn
      <3>1. CASE /\ mPendingRequestsList' = mPendingRequestsList
                 /\ {r \in Range(mPendingRequestsList) : r.fn = fn} = {}
        BY <3>1 DEF Pending
      <3>2. CASE /\ mPendingRequestsList' = Without(mPendingRequestsList, fn)
                 /\ \E r \in Range(mPendingRequestsList) : r.fn = fn
        <4>1. PICK q \in Pending : q.fn = fn
          BY <3>2 DEF Pending
        <4>2. Pending' = {p \in Pending : p.fn # q.fn}
          BY <3>2, <4>1, LeavesPending
        <4> QED  BY <4>1, <4>2
      <3> QED  BY <2>7, <3>1, <3>2
    <2>10. AloneMeta'
      <3>1. Range(metaCb') = {} /\ Len(metaCb') = 0
        BY <2>2 DEF Range
      <3> QED  BY <1>0, <2>1, <2>4, <2>9, <3>1 DEF AloneMeta
    <2> QED  BY <2>8, <2>10 DEF Alone
  <1> QED  BY <1>1, <1>2 DEF Metadata

\* Buffers end no live request.
LEMMA BuffersAlone ==
    ASSUME Base, Alone, env.reprocess, UNCHANGED env, Buffers
    PROVE  Alone'
  <1>0. AloneState /\ AloneMeta /\ TypedDue
    BY DEF Alone, Base, Typed
  <1>1. /\ UNCHANGED <<mState, mFlush, batch, thread, metaCb>>
        /\ due'.meta = due.meta
    <2>1. ASSUME NEW fn \in Frame, handleInputBufferWithLock(fn)
          PROVE  /\ UNCHANGED <<mState, mFlush, batch, thread, metaCb>>
                 /\ due'.meta = due.meta
      BY <1>0, <2>1 DEF handleInputBufferWithLock, batching, TypedDue
    <2>2. ASSUME NEW fn \in Frame, NEW s \in Streams, handleBufferWithLock(fn, s)
          PROVE  /\ UNCHANGED <<mState, mFlush, batch, thread, metaCb>>
                 /\ due'.meta = due.meta
      BY <1>0, <2>2 DEF handleBufferWithLock, batching, TypedDue
    <2> QED  BY <2>1, <2>2 DEF Buffers
  <1>2. \A p \in Pending' : \E q \in Pending : p.fn = q.fn /\ p.input = q.input
    <2>1. ASSUME NEW fn \in Frame, handleInputBufferWithLock(fn), NEW p \in Pending'
          PROVE  p \in Pending
      <3>1. CASE mPendingRequestsList' = mPendingRequestsList
        BY <2>1, <3>1 DEF Pending
      <3>2. CASE /\ mPendingRequestsList' = Without(mPendingRequestsList, fn)
                 /\ \E r \in Range(mPendingRequestsList) : r.fn = fn /\ r.input
        <4>1. PICK q \in Pending : q.fn = fn
          BY <3>2 DEF Pending
        <4>2. Pending' = {x \in Pending : x.fn # q.fn}
          BY <3>2, <4>1, LeavesPending
        <4> QED  BY <2>1, <4>2
      <3> QED  BY <2>1, <3>1, <3>2 DEF handleInputBufferWithLock
    <2>2. ASSUME NEW fn \in Frame, NEW s \in Streams,
                 handleBufferWithLock(fn, s), NEW p \in Pending'
          PROVE  \E q \in Pending : p.fn = q.fn /\ p.input = q.input
      <3>1. CASE mPendingRequestsList' = mPendingRequestsList
        BY <2>2, <3>1 DEF Pending
      <3>2. CASE mPendingRequestsList' =
                   [i \in DOMAIN mPendingRequestsList |->
                       IF mPendingRequestsList[i].fn = fn
                         THEN [mPendingRequestsList[i] EXCEPT
                                  !.cached = @ \cup {s}]
                         ELSE mPendingRequestsList[i]]
        <4>1. PICK i \in DOMAIN mPendingRequestsList : p = mPendingRequestsList'[i]
          BY <2>2, <3>2 DEF Pending, Range
        <4>2. /\ mPendingRequestsList[i] \in Pending
              /\ mPendingRequestsList[i] \in Request
          <5>1. mPendingRequestsList[i] \in Pending
            BY DEF Pending, Range
          <5> QED  BY <5>1, Seen
        <4>3. /\ p.fn = mPendingRequestsList[i].fn
              /\ p.input = mPendingRequestsList[i].input
          BY <3>2, <4>1, <4>2 DEF Request
        <4> QED  BY <4>2, <4>3
      <3> QED  BY <2>2, <3>1, <3>2 DEF handleBufferWithLock, lists
    <2> QED  BY <2>1, <2>2 DEF Buffers
  <1>3. AloneState'
    BY <1>0, <1>1 DEF AloneState
  <1>4. AloneMeta'
    BY <1>0, <1>1, <1>2, SameMeta
  <1> QED  BY <1>3, <1>4 DEF Alone

\* A step that is none of the framework's and the daemon's disturbances.
LEMMA NextAlone ==
    ASSUME Base, Walks, Alone, Separate, [Next]_vars
    PROVE  Alone'
  <1>1. CASE UNCHANGED vars
    BY <1>1 DEF vars, Alone, AloneState, AloneMeta, Pending, lists, batching,
       outside
  <1>2. CASE Next
    <2>0. env' = env
      BY <1>2 DEF Next
    <2> SUFFICES ASSUME env.reprocess PROVE Alone'
      BY <2>0 DEF Alone
    <2>a. /\ ~env.flush /\ ~env.die /\ ~env.fail /\ env.sizes \subseteq {0}
          /\ AloneState /\ AloneMeta
      BY DEF Separate, Base, Typed, TypedState, Alone
    <2>b. /\ due \in [meta : Seq(Frame),
                      bufs : SUBSET (Frame \X (Streams \cup {"input"})),
                      held : SUBSET (Frame \X Streams)]
          /\ TypedThreads
      BY DEF Base, Typed, TypedDue
    <2>1. CASE Framework
      <3>1. CASE openCamera
        <4>1. /\ mState' = "OPENED"
              /\ UNCHANGED <<mFlush, mPendingRequestsList, batch, due, metaCb, thread>>
          BY <3>1 DEF openCamera, lists, batching, outside
        <4> QED  BY <2>a, <4>1 DEF Alone, AloneState, AloneMeta, Pending
      <3>2. CASE initialize
        <4>1. /\ UNCHANGED <<mState, mFlush, mPendingRequestsList, batch, due, metaCb>>
              /\ Goes("request", "initialized") /\ thread["request"].pc = "out"
          BY <3>2 DEF initialize, lists, batching, outside
        <4>2. /\ thread'["request"].pc = "initialized"
              /\ thread'["flush"] = thread["flush"]
          BY <2>b, <4>1, GoesTyped DEF Thread, RequestPc
        <4> QED  BY <2>a, <4>1, <4>2 DEF Alone, AloneState, AloneMeta, Pending
      <3>3. CASE configureStreams
        <4>1. /\ UNCHANGED <<mState, mFlush, mPendingRequestsList, batch, metaCb>>
              /\ due' = NothingDue /\ metaCb = <<>>
              /\ Goes("request", "configure")
          BY <3>3 DEF configureStreams, stopAllChannels, lists, batching
        <4>2. /\ thread'["request"].pc = "configure"
              /\ thread'["flush"] = thread["flush"]
          BY <2>b, <4>1, GoesTyped DEF Thread, RequestPc
        <4>3. /\ Len(metaCb') <= 1 /\ Range(due'.meta) = {} /\ DOMAIN due'.meta = {}
          BY <4>1 DEF NothingDue, Range
        <4> QED  BY <2>a, <4>1, <4>2, <4>3 DEF Alone, AloneState, AloneMeta
      <3>4. CASE close_camera_device
        <4>1. /\ mState' = "CLOSED" /\ mFlush' = FALSE /\ batch'.size = 0
              /\ mPendingRequestsList' = <<>> /\ due' = NothingDue
              /\ metaCb' = <<>> /\ thread' = thread
          BY <3>4 DEF close_camera_device
        <4>2. /\ Len(metaCb') <= 1 /\ Range(due'.meta) = {} /\ DOMAIN due'.meta = {}
              /\ Pending' = {} /\ Range(metaCb') = {}
          BY <4>1 DEF NothingDue, Range, Pending
        <4> QED  BY <2>a, <4>1, <4>2 DEF Alone, AloneState, AloneMeta
      <3>5. CASE processCaptureRequest
        <4>1. walk' = walk
          BY <2>1 DEF Framework, close_camera_device, walking
        <4>2. Idle
          BY <3>5, <4>1, OffLoop DEF processCaptureRequest, MayAsk
        <4> QED  BY <2>0, <3>5, <4>2, RegistersAlone
      <3>6. ~ (RequestRefused \/ SetupFails \/ SettingsFail \/ FlushCalled)
        BY <2>a DEF RequestRefused, SetupFails, SettingsFail, FlushCalled,
           AloneState
      <3>7. ~SensorRestart
        BY <2>a DEF SensorRestart, AloneState
      <3> QED  BY <2>1, <3>1, <3>2, <3>3, <3>4, <3>5, <3>6, <3>7 DEF Framework
    <2>2. CASE RequestProceeds
      <3>1. CASE Initialized
        <4>1. /\ mState' = "INITIALIZED" /\ Leaves("request")
              /\ thread["request"].pc = "initialized"
              /\ UNCHANGED <<mFlush, mPendingRequestsList, batch, due, metaCb>>
          BY <3>1 DEF Initialized, lists, batching, outside
        <4>2. /\ thread'["request"].pc = "out" /\ thread'["flush"] = thread["flush"]
          BY <2>b, <4>1, LeavesTyped DEF Thread
        <4> QED  BY <2>a, <4>1, <4>2 DEF Alone, AloneState, AloneMeta, Pending
      <3>2. CASE configureStreamsPerfLocked
        <4>1. /\ mState' = "CONFIGURED" /\ Leaves("request")
              /\ mPendingRequestsList' = <<>>
              /\ UNCHANGED <<mFlush, batch, due, metaCb>>
          BY <2>a, <3>2 DEF configureStreamsPerfLocked, batching, outside,
             AloneState
        <4>2. /\ thread'["request"].pc = "out" /\ thread'["flush"] = thread["flush"]
          BY <2>b, <4>1, LeavesTyped DEF Thread
        <4>3. Pending' = {}
          BY <4>1 DEF Pending, Range
        <4> QED  BY <2>a, <4>1, <4>2, <4>3 DEF Alone, AloneState, AloneMeta
      <3>3. ~SensorRestarted
        BY <2>a DEF SensorRestarted, AloneState
      <3>4. CASE Woken \/ TimedOut
        <4>1. /\ UNCHANGED <<mState, mFlush, mPendingRequestsList, batch, due, metaCb>>
              /\ thread["request"].pc = "wait"
              /\ Leaves("request") \/ UNCHANGED thread
          BY <3>4 DEF Woken, TimedOut, lists, batching, outside
        <4>2. /\ thread'["request"].pc \in {"out", "wait"}
              /\ thread'["flush"] = thread["flush"]
          <5>1. CASE Leaves("request")
            BY <2>b, <5>1, LeavesTyped DEF Thread
          <5>2. CASE UNCHANGED thread
            BY <4>1, <5>2
          <5> QED  BY <4>1, <5>1, <5>2
        <4> QED  BY <2>a, <4>1, <4>2 DEF Alone, AloneState, AloneMeta, Pending
      <3>5. ~ (SensorStops \/ dynamicUpdateMetaStreamInfo)
        BY <2>a DEF SensorStops, dynamicUpdateMetaStreamInfo, WalkBegins,
           EntryErased, EntryAnswered, WalkEnds, AloneState, Walks
      <3> QED  BY <2>2, <3>1, <3>2, <3>3, <3>4, <3>5 DEF RequestProceeds
    <2>3. CASE Metadata
      BY <2>0, <2>3, MetadataAlone
    <2>4. CASE Buffers
      BY <2>0, <2>4, BuffersAlone
    <2>5. CASE DaemonPulls
      <3>1. UNCHANGED <<mState, mFlush, mPendingRequestsList, batch, due, metaCb, thread>>
        BY <2>5 DEF DaemonPulls, lists, batching, outside
      <3> QED  BY <2>a, <3>1 DEF Alone, AloneState, AloneMeta, Pending
    <2>6. Daemon => DaemonPulls
      BY <2>a DEF Daemon, DaemonDied
    <2>7. ASSUME NEW t \in Thread, FlushProceeds(t)
          PROVE  FALSE
      <3>1. thread[t].pc \in {"out", "initialized", "configure", "wait"}
        BY <2>a DEF AloneState, Thread
      <3> QED  BY <2>7, <3>1 DEF FlushProceeds, handleCameraDeviceError,
               FlushBegins, FlushStops, flush, Deinit
    <2> QED  BY <1>2, <2>1, <2>2, <2>3, <2>4, <2>5, <2>6, <2>7 DEF Next
  <1> QED  BY <1>1, <1>2

\* A new object has told nothing.
LEMMA InitTold == Init => Told /\ Alone
  <1> SUFFICES ASSUME Init PROVE Told /\ Alone
    OBVIOUS
  <1>1. /\ accepted = {} /\ shutter = [f \in Frame |-> 0]
        /\ final = [f \in Frame |-> 0]
        /\ back = [f \in Frame |-> [s \in Streams |-> 0]]
        /\ 0 <= 0 /\ 0 <= 1
    BY DEF Init
  <1>2. Told
    BY <1>1 DEF Told, Once, Answers
  <1>3. /\ mState = "CLOSED" /\ mFlush = FALSE /\ batch.size = 0
        /\ thread["flush"].pc = "out" /\ thread["request"].pc = "out"
    BY DEF Init, Thread, Out
  <1>4. /\ Pending = {} /\ DOMAIN due.meta = {} /\ Range(due.meta) = {}
        /\ Len(metaCb) <= 1 /\ Range(metaCb) = {}
    BY DEF Init, NothingDue, Pending, Range
  <1>5. Alone
    BY <1>3, <1>4 DEF Alone, AloneState, AloneMeta
  <1> QED  BY <1>2, <1>5

\* The books and what was told, together.
LEMMA ToldKept ==
    Separate => (Spec => [](raced \/ (Base /\ Walks /\ Told /\ Alone)))
  <1> DEFINE All == raced \/ (Base /\ Walks /\ Told /\ Alone)
  <1> SUFFICES ASSUME Separate PROVE Spec => []All
    OBVIOUS
  <1>1. Init => All
    BY InitBase, InitTold, InitWalks
  <1>2. All /\ [Next]_vars => All'
    BY NextBooks, NextTold, NextAlone, AloneUndisturbed, RacedStays
  <1> HIDE DEF All
  <1> QED  BY <1>1, <1>2, PTL DEF Spec

\* A frame ends once, a buffer comes back once.
LEMMA ToldOnce == raced \/ (Base /\ Told) => AnsweredOnce
  BY DEF Told, Once, AnsweredOnce

\* A request is answered or pending, and not both: a pending one has not
\* ended.
LEMMA ToldAccounted == raced \/ (Base /\ Told) => Accounted
  <1> SUFFICES ASSUME Base, Told, NEW f \in accepted
               PROVE  /\ final[f] + (IF f \in Numbers(mPendingRequestsList)
                                       THEN 1 ELSE 0) = 1
                      /\ \A s \in asked[f] :
                            back[f][s] + (IF \E r \in Owed : r.fn = f /\ s \in r.bufs
                                            THEN 1 ELSE 0) = 1
    BY DEF Accounted, Owed
  <1>1. f \in Numbers(mPendingRequestsList) <=> \E q \in Pending : q.fn = f
    BY DEF Numbers, Pending, Range
  <1>2. /\ (\E q \in Pending : q.fn = f) => final[f] = 0
        /\ final[f] = 1 \/ \E q \in Pending : q.fn = f
    BY DEF Base, Lists, Told, Answers
  <1>3. final[f] + (IF f \in Numbers(mPendingRequestsList) THEN 1 ELSE 0) = 1
    BY <1>1, <1>2
  <1>4. ASSUME NEW s \in asked[f]
        PROVE  back[f][s] + (IF \E r \in Owed : r.fn = f /\ s \in r.bufs
                               THEN 1 ELSE 0) = 1
    <2>1. /\ (\E r \in Owed : r.fn = f /\ s \in r.bufs) => back[f][s] = 0
          /\ back[f][s] = 1 \/ \E r \in Owed : r.fn = f /\ s \in r.bufs
      BY DEF Base, Lists, Told, Answers
    <2> QED  BY <2>1
  <1> QED  BY <1>3, <1>4

(* Where reprocessing is not mixed with flushes, errors or batches, the    *)
(* framework hears of the start and the end of a frame at most once and gets *)
(* no buffer twice, in whatever order metadata, buffers, flushes, sensor   *)
(* restarts and configurations come, each of the restart's steps being taken *)
(* without the lock.  It holds until a flush walks the lists at the same time *)
(* as a restart: what that does is not defined by the code.                *)
THEOREM EveryFrameAnsweredOnce == Separate => (Spec => []AnsweredOnce)
  <1>1. raced \/ (Base /\ Walks /\ Told /\ Alone) => AnsweredOnce
    BY ToldOnce
  <1> QED  BY <1>1, ToldKept, PTL

(* Under the same hypothesis, and with the same exception, no accepted request *)
(* is lost: it is pending or was told of its end, and each of its buffers is *)
(* in the map, in the hands of the sensor restart, or was given back.      *)
THEOREM EveryRequestAccounted == Separate => (Spec => []Accounted)
  <1>1. raced \/ (Base /\ Walks /\ Told /\ Alone) => Accounted
    BY ToldAccounted
  <1> QED  BY <1>1, ToldKept, PTL

\* Only flush leaves the place where it tells of the errors.
LEMMA FlushAnswers ==
    ASSUME Base, Walks, Told, Alone, [Next]_vars, NEW t \in Thread,
           thread[t].pc = "notify", thread'[t].pc # "notify"
    PROVE  raced' \/ \A f \in accepted : Done(f)'
  <1>1. Next /\ Undisturbed /\ ~env.reprocess
    <2>1. Undisturbed
      BY AloneUndisturbed
    <2>2. thread' # thread
      OBVIOUS
    <2> QED  BY <2>1, <2>2 DEF Undisturbed, vars
  <1>2. due = NothingDue /\ metaCb = <<>> /\ ~ (thread[t].pc = "out")
    BY DEF Base, Places, Clearing
  <1>3. CASE flush(t)
    <2> SUFFICES ASSUME ~raced' PROVE \A f \in accepted : Done(f)'
      OBVIOUS
    <2>1. ~walk.on /\ Idle
      BY <1>3, FlushRaces
    <2>2. notifyErrorForPendingRequests /\ UNCHANGED <<asked, accepted>>
      BY <1>3, <2>1 DEF flush, ledger
    <2> QED  BY <1>1, <2>1, <2>2, NotifyTold
  <1>4. flush(t)
    <2>0. thread \in [Thread -> [pc : RequestPc, restart : BOOLEAN,
                              req : [fn : Frame \cup {0}, bufs : SUBSET Streams,
                                     input : BOOLEAN]]]
          /\ "request" \in Thread /\ "flush" \in Thread
      BY DEF Base, Typed, TypedThreads, Thread
    <2>1. \A u \in Thread : \A pc : Goes(u, pc) \/ Leaves(u) => u = t
      BY <2>0 DEF Goes, Leaves
    <2>2. ~Framework
      <3>1. thread'[t] # thread[t]
        OBVIOUS
      <3>2. thread["request"].pc = "out" => t = "flush"
        BY DEF Thread
      <3>3. ~ (openCamera \/ close_camera_device \/ SetupFails \/ SettingsFail)
        BY <3>1 DEF openCamera, close_camera_device, SetupFails, SettingsFail
      <3>4. ~ (initialize \/ configureStreams)
        BY <2>0, <2>1 DEF initialize, configureStreams
      <3>5. ~RequestRefused
        BY <2>0, <2>1, <3>1 DEF RequestRefused, MayAsk
      <3>6. ~ SensorRestart
        <4>1. ASSUME SensorRestart PROVE thread'["flush"] = thread["flush"]
          BY <2>0, <4>1 DEF SensorRestart
        <4> QED  BY <3>1, <3>2, <4>1 DEF SensorRestart, MayAsk
      <3>7. ~ FlushCalled
        <4>1. ASSUME FlushCalled PROVE t = "request"
          BY <4>1 DEF FlushCalled, Thread
        <4>2. ASSUME FlushCalled PROVE thread'["request"] = thread["request"]
          BY <2>0, <4>2 DEF FlushCalled, Goes
        <4> QED  BY <3>1, <4>1, <4>2
      <3>8. ~ (Framework /\ processCaptureRequest)
        <4>1. ASSUME processCaptureRequest, walk' = walk PROVE FALSE
          <5>1. PICK r, u : Entering(r, u)
            BY <1>1, <4>1, processCaptureRequestEnters DEF Next
          <5>2. Idle
            BY <4>1, OffLoop DEF processCaptureRequest, MayAsk
          <5>3. thread'["flush"] = thread["flush"]
            BY <5>1, <5>2, AcceptedStep
          <5> QED  BY <3>1, <3>2, <4>1, <5>3 DEF processCaptureRequest, MayAsk
        <4>2. Framework => walk' = walk
          BY DEF Framework, close_camera_device, walking
        <4> QED  BY <4>1, <4>2
      <3> QED  BY <3>3, <3>4, <3>5, <3>6, <3>7, <3>8 DEF Framework
    <2>3. ~RequestProceeds
      <3>1. thread'[t] # thread[t]
        OBVIOUS
      <3>2. ~ (Initialized \/ configureStreamsPerfLocked \/ SensorStops)
        BY <2>0, <2>1 DEF Initialized, configureStreamsPerfLocked, SensorStops
      <3>3. ~ (dynamicUpdateMetaStreamInfo \/ TimedOut)
        <4>1. ~ (WalkBegins \/ EntryErased \/ EntryAnswered)
          BY <3>1 DEF WalkBegins, EntryErased, EntryAnswered
        <4>2. ~ (WalkEnds \/ TimedOut)
          BY <2>0, <2>1 DEF WalkEnds, TimedOut, Walks
        <4> QED  BY <4>1, <4>2 DEF dynamicUpdateMetaStreamInfo
      <3>4. ~Woken
        BY <2>0, <2>1, <3>1 DEF Woken
      <3>5. ~ (RequestProceeds /\ SensorRestarted)
        <4>1. ASSUME SensorRestarted, walk' = walk PROVE FALSE
          <5>1. PICK r, u : Entering(r, u)
            BY <1>1, <4>1, SensorRestartedEnters DEF Next
          <5>2. Idle
            BY <4>1, OffLoop DEF SensorRestarted
          <5>3. thread'["flush"] = thread["flush"]
            BY <5>1, <5>2, AcceptedStep
          <5> QED  BY <3>1, <4>1, <5>3 DEF SensorRestarted, Thread
        <4>2. RequestProceeds => dynamicUpdateMetaStreamInfo \/ walk' = walk
          BY DEF RequestProceeds, walking
        <4> QED  BY <3>3, <4>1, <4>2
      <3> QED  BY <3>2, <3>3, <3>4, <3>5 DEF RequestProceeds
    <2>4. ~ (Metadata \/ Buffers \/ Daemon)
      BY DEF Metadata, Buffers, Daemon, DaemonDied, DaemonPulls,
         handleBatchMetadata, handleMetadataWithLock,
         handleInputBufferWithLock, handleBufferWithLock
    <2>5. ASSUME NEW u \in Thread, FlushProceeds(u)
          PROVE  u = t
      <3>1. CASE handleCameraDeviceError(u)
        BY <2>1, <3>1 DEF handleCameraDeviceError
      <3>2. CASE FlushBegins(u)
        BY <2>1, <3>2 DEF FlushBegins
      <3>3. CASE FlushStops(u) \/ flush(u)
        BY <2>1, <3>3 DEF FlushStops, flush, FlushReturns
      <3>4. CASE Deinit(u)
        BY <2>1, <3>4 DEF Deinit
      <3> QED  BY <2>5, <3>1, <3>2, <3>3, <3>4 DEF FlushProceeds
    <2>6. FlushProceeds(t)
      BY <1>1, <2>2, <2>3, <2>4, <2>5 DEF Next
    <2> QED  BY <2>6 DEF FlushProceeds, handleCameraDeviceError, FlushBegins,
             FlushStops, Deinit
  <1> QED  BY <1>3, <1>4

(* When flush has told of the errors, every accepted request has its end and *)
(* all its buffers, unless the flush met the loop of a sensor restart, which *)
(* may still hold an entry it has erased.                                  *)
THEOREM FlushLeavesNothing == Separate => (Spec => FlushAnswersAll)
  <1>1. (raced \/ (Base /\ Walks /\ Told /\ Alone)) /\ [Next]_vars =>
           [\A t \in Thread :
               thread[t].pc = "notify" /\ thread'[t].pc # "notify"
                  => raced' \/ \A f \in accepted : Done(f)']_vars
    BY FlushAnswers, RacedStays
  <1> QED  BY <1>1, ToldKept, PTL DEF Spec, FlushAnswersAll

---------------------------------------------------------------------------
(* The counter of the live requests                                        *)

\* Where calls fail, the device is not configured both for single requests and
\* for batches: a request that a channel refused stays in the list, and the
\* next one could find the device set up for a batch.
OneMode == \A e \in Scenarios : e.fail => 0 \notin e.sizes \/ e.sizes \subseteq {0}

\* The live requests that are pending.
InFlight == {f \in sent : \E q \in Pending : q.fn = f}
\* Batches are not used at all.
Single == env.sizes \subseteq {0}

\* The batch size is one the device was configured for; only batches restart
\* the sensor.
Sized ==
    /\ batch.size \in env.sizes \cup {0}
    /\ mState = "STARTED" => batch.size \in env.sizes
    /\ Restarting => batch.size > 0

\* The counter.
Counted ==
    /\ mPendingLiveRequest >= Cardinality(InFlight)
    /\ mState = "CONFIGURED" => InFlight = {}
    /\ mState = "STARTED" /\ batch.size = 0 =>
          mPendingLiveRequest = Cardinality(InFlight)

\* Metadata comes for live requests only.
LiveMeta ==
    /\ \A f \in Range(due.meta) : f \in sent
    /\ \A q \in Pending : /\ q.input => q.fn \notin sent
                          /\ q.fn \in Range(metaCb) => q.fn \in sent

\* A pending request that was not sent was reprocessed, refused, or came
\* during a flush; with batches it is newer than every batch.
Unsent ==
    /\ \/ mFlush
       \/ \A q \in Pending : q.fn \in sent
       \/ batch.size = 0 /\ (mState # "CONFIGURED" \/ Single)
    /\ batch.size > 0 \/ (mState = "CONFIGURED" /\ ~Single) =>
          \A q \in Pending : \/ q.fn \in sent
                             \/ \A e \in mPendingBatchMap : e[1] < q.fn

\* The inductive invariant of the counter.
Counting == Sized /\ Counted /\ LiveMeta /\ Unsent

\* There are finitely many live requests in flight.
LEMMA InFlightFinite ==
    ASSUME Typed
    PROVE  IsFiniteSet(InFlight) /\ Cardinality(InFlight) \in Nat
  <1>1. IsFiniteSet(Frame)
    BY FrameNat, FS_Interval DEF Frame
  <1>2. InFlight \subseteq Frame
    BY DEF Typed, TypedLedger, InFlight
  <1>3. IsFiniteSet(InFlight)
    BY <1>1, <1>2, FS_Subset
  <1> QED  BY <1>3, FS_CardinalityType

\* The same requests are pending, sent or not.
LEMMA SameInFlight ==
    ASSUME sent' = sent, \A p \in Pending' : \E q \in Pending : p.fn = q.fn,
           \A q \in Pending : q.fn \in sent => \E p \in Pending' : p.fn = q.fn
    PROVE  InFlight' = InFlight
  <1>1. ASSUME NEW f \in InFlight' PROVE f \in InFlight
    BY <1>1 DEF InFlight
  <1>2. ASSUME NEW f \in InFlight PROVE f \in InFlight'
    BY <1>2 DEF InFlight
  <1> QED  BY <1>1, <1>2

\* Nothing is pending.
LEMMA NoneInFlight ==
    ASSUME Pending = {}
    PROVE  InFlight = {} /\ Cardinality(InFlight) = 0
  <1>1. InFlight = {}
    BY DEF InFlight
  <1> QED  BY <1>1, FS_EmptySet

\* A step that counts nothing.
LEMMA CalmCounting ==
    ASSUME Base, Counting, env' = env, batch' = batch, sent' = sent,
           \/ mPendingLiveRequest' = mPendingLiveRequest
           \/ mState = "CONFIGURED" /\ mPendingLiveRequest' = 0,
           mPendingBatchMap' \subseteq mPendingBatchMap,
           \A p \in Pending' : \E q \in Pending : p.fn = q.fn /\ p.input = q.input,
           \A q \in Pending : q.fn \in sent => \E p \in Pending' : p.fn = q.fn,
           \A q \in Pending : q.fn \in Range(metaCb') => q.fn \in Range(metaCb) \cup sent,
           Range(due'.meta) \subseteq Range(due.meta),
           mState' = mState \/ mState' \notin {"STARTED", "CONFIGURED"},
           mFlush' \/ ~mFlush,
           Restarting' => Restarting \/ batch.size > 0
    PROVE  Counting'
  <1>1. InFlight' = InFlight
    BY SameInFlight
  <1>2. Sized'
    BY DEF Counting, Sized
  <1>3. Counted'
    <2>1. mState = "CONFIGURED" => Cardinality(InFlight) = 0
      BY FS_EmptySet DEF Counting, Counted
    <2> QED  BY <1>1, <2>1 DEF Counting, Counted
  <1>4. LiveMeta'
    BY DEF Counting, LiveMeta
  <1>5. Unsent'
    <2>1. Single' = Single
      BY DEF Single
    <2>2. \A p \in Pending' : \E q \in Pending : p.fn = q.fn
      OBVIOUS
    <2>3. \/ mFlush'
          \/ \A q \in Pending' : q.fn \in sent'
          \/ batch'.size = 0 /\ (mState' # "CONFIGURED" \/ Single')
      BY <2>1, <2>2 DEF Counting, Unsent
    <2>4. ASSUME batch'.size > 0 \/ (mState' = "CONFIGURED" /\ ~Single'),
                 NEW p \in Pending'
          PROVE  \/ p.fn \in sent'
                 \/ \A e \in mPendingBatchMap' : e[1] < p.fn
      BY <2>1, <2>2, <2>4 DEF Counting, Unsent
    <2> QED  BY <2>3, <2>4 DEF Unsent
  <1> QED  BY <1>2, <1>3, <1>4, <1>5 DEF Counting

\* Requests that go in batches leave the list.
LEMMA FewerCounting ==
    ASSUME Base, Counting, batch.size > 0, Pending' \subseteq Pending,
           UNCHANGED <<env, batch, sent, mPendingLiveRequest, mState, mFlush,
                       due, metaCb, mPendingBatchMap, thread>>
    PROVE  Counting'
  <1>1. /\ InFlight' \subseteq InFlight
        /\ Cardinality(InFlight') <= Cardinality(InFlight)
        /\ Cardinality(InFlight) \in Nat /\ Cardinality(InFlight') \in Nat
    <2>1. InFlight' \subseteq InFlight
      BY DEF InFlight
    <2>2. IsFiniteSet(InFlight) /\ Cardinality(InFlight) \in Nat
      BY InFlightFinite DEF Base
    <2>3. /\ IsFiniteSet(InFlight')
          /\ Cardinality(InFlight') <= Cardinality(InFlight)
      BY <2>1, <2>2, FS_Subset
    <2> QED  BY <2>1, <2>2, <2>3, FS_CardinalityType
  <1>2. Sized'
    BY DEF Counting, Sized, Restarting
  <1>3. Counted'
    <2>1. mPendingLiveRequest \in Int
      BY DEF Base, Typed, TypedState
    <2>2. mPendingLiveRequest' >= Cardinality(InFlight')
      BY <1>1, <2>1 DEF Counting, Counted
    <2>3. mState' = "CONFIGURED" => InFlight' = {}
      BY <1>1 DEF Counting, Counted
    <2>4. ~ (batch'.size = 0)
      OBVIOUS
    <2> QED  BY <2>2, <2>3, <2>4 DEF Counted
  <1>4. LiveMeta'
    BY DEF Counting, LiveMeta
  <1>5. Unsent'
    <2>1. Single' = Single
      BY DEF Single
    <2> QED  BY <2>1 DEF Counting, Unsent
  <1> QED  BY <1>2, <1>3, <1>4, <1>5 DEF Counting

\* A step that clears the lists.
LEMMA ClearedCounting ==
    ASSUME Counting, mPendingRequestsList' = <<>>,
           mPendingLiveRequest' \in Nat,
           env' = env, batch' = batch, sent' = sent,
           mState' = "STARTED" =>
              mState = "STARTED" /\ (mPendingLiveRequest' = 0 \/ batch.size > 0),
           due'.meta = <<>>,
           Restarting' => Restarting
    PROVE  Counting'
  <1>1. Pending' = {}
    BY DEF Pending, Range
  <1>2. InFlight' = {} /\ Cardinality(InFlight') = 0
    BY <1>1, FS_EmptySet DEF InFlight
  <1>3. Sized'
    BY DEF Counting, Sized
  <1>4. Counted'
    BY <1>2 DEF Counting, Counted
  <1>5. LiveMeta'
    BY <1>1 DEF LiveMeta, Range
  <1>6. Unsent'
    BY <1>1 DEF Unsent
  <1> QED  BY <1>3, <1>4, <1>5, <1>6 DEF Counting

\* Every way processCaptureRequest ends.
LEMMA EnteringCounting ==
    ASSUME Idle, Base, Counting, OneMode, NEW r, NEW u, Entering(r, u)
    PROVE  Counting'
  <1>e. /\ r \in [fn : Frame, bufs : SUBSET Streams, input : BOOLEAN]
        /\ r.input => u.batch.size = 0
        /\ u.live \in Int /\ u.batch \in Batch
        /\ u.batch.queued > 0 => u.batch.first \in Frame
        /\ \/ /\ mState = "CONFIGURED" /\ thread["request"].pc = "out"
              /\ u.live = 0 /\ u.batch.size \in env.sizes
           \/ /\ \/ mState = "STARTED" /\ thread["request"].pc = "out"
                 \/ thread["request"].pc = "register"
              /\ u.live = mPendingLiveRequest /\ u.batch = batch
        /\ Accepted(r, u) /\ Unseen = r.fn
        /\ env' = env /\ mFlush' = mFlush
    BY DEF Entering
  <1>0. /\ Typed /\ Fresh /\ Sized /\ Counted /\ LiveMeta /\ Unsent
        /\ TypedBatch /\ TypedDue /\ mPendingLiveRequest \in Int
        /\ batch.size \in Nat /\ u.batch.size \in Nat
    <2>1. batch \in Batch /\ BatchSizes \subseteq Nat
      BY QCamera3HWIAssumption DEF Base, Typed, TypedBatch, Batch
    <2>2. batch.size \in Nat /\ u.batch.size \in Nat
      <3>1. batch.size \in BatchSizes \cup {0} /\ u.batch.size \in BatchSizes \cup {0}
        <4>1. \A b \in Batch : b.size \in BatchSizes \cup {0}
          BY DEF Batch
        <4> QED  BY <1>e, <2>1, <4>1
      <3>2. \A n \in BatchSizes \cup {0} : n \in Nat
        BY <2>1
      <3> QED  BY <3>1, <3>2
    <2>3. Typed /\ Fresh /\ TypedBatch /\ TypedDue /\ mPendingLiveRequest \in Int
      BY DEF Base, Typed, TypedState
    <2> QED  BY <2>2, <2>3 DEF Counting
  <1>1. /\ thread'["request"].pc \in {"out", "wait"} /\ metaCb' = metaCb
        /\ Pending' = Pending \cup {[fn |-> r.fn, input |-> r.input,
                                     bufs |-> r.bufs, cached |-> {}]}
    BY AcceptedStep
  <1>2. /\ r.fn \in Frame /\ r.fn \in Nat
        /\ r.fn \notin sent /\ \A q \in Pending : q.fn # r.fn
        /\ r.fn \notin Range(metaCb) /\ r.fn \notin Range(due.meta)
        /\ \A e \in mPendingBatchMap : e[1] < r.fn
    <2>1. r.fn \in Frame /\ r.fn >= Unseen
      <3>1. r.fn \in Frame /\ r.fn \in Nat
        BY <1>e, FrameNat
      <3>2. r.fn >= r.fn
        BY <3>1
      <3> QED  BY <1>e, <3>1, <3>2
    <2>2. /\ r.fn \notin sent /\ \A q \in Pending : q.fn # r.fn
          /\ \A i \in DOMAIN metaCb : metaCb[i] # r.fn
          /\ \A i \in DOMAIN due.meta : due.meta[i] # r.fn
      BY <1>0, <2>1 DEF Fresh
    <2>3. \A e \in mPendingBatchMap : e[1] < r.fn
      BY <1>e, Seen
    <2> QED  BY <2>1, <2>2, <2>3, FrameNat DEF Range
  <1>3. /\ \A p \in Pending' : \/ p \in Pending
                               \/ p.fn = r.fn /\ p.input = r.input
        /\ \E p \in Pending' : p.fn = r.fn
        /\ Pending \subseteq Pending'
    <2> DEFINE new == [fn |-> r.fn, input |-> r.input, bufs |-> r.bufs,
                       cached |-> {}]
    <2>1. new.fn = r.fn /\ new.input = r.input
      OBVIOUS
    <2> HIDE DEF new
    <2>2. Pending' = Pending \cup {new}
      BY <1>1 DEF new
    <2> QED  BY <2>1, <2>2
  <1>4. ~Restarting'
    BY <1>1 DEF Restarting
  <1>5. /\ thread["request"].pc = "register" => batch.size > 0
        /\ u.batch.size \in env.sizes \cup {0}
        /\ mState = "STARTED" \/ thread["request"].pc = "register"
              \/ mState = "CONFIGURED"
    BY <1>e, <1>0 DEF Sized, Restarting
  <1>6. /\ InFlight = {} => Cardinality(InFlight) = 0
        /\ Cardinality(InFlight) \in Nat /\ IsFiniteSet(InFlight)
    BY <1>0, InFlightFinite, FS_EmptySet
  <1>7. u.live >= Cardinality(InFlight)
    BY <1>e, <1>0, <1>6 DEF Counted
  <1>8. Single' = Single
    BY <1>e DEF Single
  <1>9. ASSUME sent' = sent PROVE InFlight' = InFlight
    <2>1. ASSUME NEW f \in InFlight' PROVE f \in InFlight
      BY <1>2, <1>3, <1>9, <2>1 DEF InFlight
    <2>2. ASSUME NEW f \in InFlight PROVE f \in InFlight'
      BY <1>3, <1>9, <2>2 DEF InFlight
    <2> QED  BY <2>1, <2>2
  <1>10. CASE LeftToFlush(r, u)
    <2>1. /\ mFlush /\ mPendingLiveRequest' = u.live
          /\ UNCHANGED <<mState, mPendingBatchMap, due, sent>>
          /\ batch' = (IF r.input THEN u.batch ELSE Batched(u.batch, r.fn))
      BY <1>10 DEF LeftToFlush
    <2>2. batch'.size = u.batch.size
      BY <1>e, <1>2, <2>1, BatchedTyped
    <2>3. InFlight' = InFlight
      BY <1>9, <2>1
    <2>4. Sized'
      BY <1>e, <1>0, <1>4, <1>5, <2>1, <2>2 DEF Sized
    <2>5. Counted'
      <3>1. mState = "STARTED" /\ batch'.size = 0 => u.live = Cardinality(InFlight)
        BY <1>e, <1>0, <1>5, <2>2 DEF Counted
      <3> QED  BY <1>0, <1>7, <2>1, <2>3, <3>1 DEF Counted
    <2>6. LiveMeta'
      BY <1>0, <1>1, <1>2, <1>3, <2>1 DEF LiveMeta
    <2>7. Unsent'
      <3>1. mFlush'
        BY <1>e, <2>1
      <3>2. ASSUME batch'.size > 0 \/ (mState' = "CONFIGURED" /\ ~Single')
            PROVE  batch.size > 0 \/ (mState = "CONFIGURED" /\ ~Single)
        <4>1. CASE mState = "CONFIGURED" /\ u.batch.size \in env.sizes
          BY <1>0, <1>8, <2>1, <2>2, <3>2, <4>1 DEF Single
        <4>2. CASE u.batch = batch
          BY <1>8, <2>1, <2>2, <3>2, <4>2
        <4> QED  BY <1>e, <4>1, <4>2
      <3>3. ASSUME batch'.size > 0 \/ (mState' = "CONFIGURED" /\ ~Single'),
                   NEW p \in Pending'
            PROVE  p.fn \in sent' \/ \A e \in mPendingBatchMap' : e[1] < p.fn
        <4>1. CASE p \in Pending
          BY <1>0, <2>1, <3>2, <3>3, <4>1 DEF Unsent
        <4>2. CASE p.fn = r.fn
          BY <1>2, <2>1, <4>2
        <4> QED  BY <1>3, <4>1, <4>2
      <3> QED  BY <3>1, <3>3 DEF Unsent
    <2> QED  BY <2>4, <2>5, <2>6, <2>7 DEF Counting
  <1>11. CASE ChannelRefuses(r, u)
    <2>1. /\ env.fail /\ u.batch.size = 0 /\ ~mFlush
          /\ mPendingLiveRequest' = u.live /\ batch' = u.batch
          /\ UNCHANGED <<mState, mPendingBatchMap, sent>>
          /\ due'.meta = due.meta
      <3>1. due \in [meta : Seq(Frame),
                    bufs : SUBSET (Frame \X (Streams \cup {"input"})),
                    held : SUBSET (Frame \X Streams)]
        BY <1>0 DEF TypedDue
      <3>2. \E part \in SUBSET r.bufs \ {r.bufs} :
               due' = [due EXCEPT !.bufs = @ \cup ({r.fn} \X part)]
        BY <1>11 DEF ChannelRefuses
      <3>3. due'.meta = due.meta
        BY <3>1, <3>2
      <3> QED  BY <1>11, <3>3 DEF ChannelRefuses
    <2>2. InFlight' = InFlight
      BY <1>9, <2>1
    <2>3. thread["request"].pc # "register"
      <3>1. ASSUME thread["request"].pc = "register" PROVE FALSE
        <4>1. u.batch = batch /\ batch.size > 0
          BY <1>e, <1>5, <3>1
        <4> QED  BY <1>0, <2>1, <4>1
      <3> QED  BY <3>1
    <2>4. mState = "CONFIGURED" => Single
      <3>1. mState = "CONFIGURED" => 0 \in env.sizes
        BY <1>e, <2>1, <2>3
      <3>2. env \in Scenarios
        BY <1>0 DEF Typed, TypedState
      <3> QED  BY <2>1, <3>1, <3>2 DEF OneMode, Single
    <2>5. Sized'
      BY <1>e, <1>0, <1>4, <2>1, <2>3 DEF Sized
    <2>6. Counted'
      <3>1. mState = "STARTED" => u.live = Cardinality(InFlight)
        BY <1>e, <1>0, <2>1, <2>3 DEF Counted
      <3> QED  BY <1>0, <1>7, <2>1, <2>2, <3>1 DEF Counted
    <2>7. LiveMeta'
      BY <1>0, <1>1, <1>2, <1>3, <2>1 DEF LiveMeta
    <2>8. Unsent'
      BY <1>0, <1>8, <2>1, <2>4 DEF Unsent
    <2> QED  BY <2>5, <2>6, <2>7, <2>8 DEF Counting
  <1>12. CASE LiveAccepted(r, u)
    <2>1. /\ ~mFlush /\ ~r.input /\ sent' = sent \cup {r.fn}
          /\ Sent(r, Batched(u.batch, r.fn))
          /\ mPendingLiveRequest' = u.live + 1 /\ mState' = "STARTED"
      BY <1>12 DEF LiveAccepted
    <2>2. /\ batch'.size = u.batch.size
          /\ Range(due'.meta) \subseteq Range(due.meta) \cup {r.fn}
      <3>1. /\ Batched(u.batch, r.fn) \in Batch
            /\ Batched(u.batch, r.fn).size = u.batch.size
            /\ Batched(u.batch, r.fn).first \in Frame
        BY <1>e, <1>2, BatchedTyped
      <3>2. /\ due.bufs \cap due.held = {}
            /\ \A x \in due.bufs \cup due.held : x[1] # r.fn
        <4>1. \A x \in due.bufs \cup due.held : x[1] < r.fn
          BY <1>e, Seen
        <4> QED  BY <1>2, <4>1 DEF Base, Dues
      <3>3. Grows(r) /\ batch'.size = u.batch.size
        BY <1>e, <1>0, <1>1, <2>1, <3>1, <3>2, SentGrows
      <3>4. Range(due'.meta) \subseteq Range(due.meta) \cup {r.fn}
        BY <3>3 DEF Grows, Range
      <3> QED  BY <3>3, <3>4
    <2>3. InFlight' = InFlight \cup {r.fn} /\ r.fn \notin InFlight
      <3>1. ASSUME NEW f \in InFlight' PROVE f \in InFlight \cup {r.fn}
        BY <1>3, <2>1, <3>1 DEF InFlight
      <3>2. ASSUME NEW f \in InFlight PROVE f \in InFlight'
        BY <1>3, <2>1, <3>2 DEF InFlight
      <3>3. r.fn \in InFlight'
        BY <1>3, <2>1 DEF InFlight
      <3>4. r.fn \notin InFlight
        BY <1>2 DEF InFlight
      <3> QED  BY <3>1, <3>2, <3>3, <3>4
    <2>4. Cardinality(InFlight') = Cardinality(InFlight) + 1
      BY <1>6, <2>3, FS_AddElement
    <2>5. u.batch.size = 0 => u.live = Cardinality(InFlight)
      <3>1. u.batch.size = 0 => thread["request"].pc # "register"
        BY <1>e, <1>5
      <3> QED  BY <1>e, <1>0, <1>6, <3>1 DEF Counted
    <2>6. Sized'
      <3>1. u.batch.size \in env.sizes
        <4>1. CASE thread["request"].pc = "register"
          BY <1>e, <1>0, <1>5, <4>1
        <4>2. CASE thread["request"].pc # "register"
          BY <1>e, <1>0, <4>2 DEF Sized
        <4> QED  BY <4>1, <4>2
      <3> QED  BY <1>e, <1>4, <2>1, <2>2, <3>1 DEF Sized
    <2>7. Counted'
      <3>1. u.live + 1 >= Cardinality(InFlight) + 1
        BY <1>e, <1>6, <1>7
      <3> QED  BY <2>1, <2>2, <2>4, <2>5, <3>1 DEF Counted
    <2>8. LiveMeta'
      <3>1. \A f \in Range(due'.meta) : f \in sent'
        BY <1>0, <2>1, <2>2 DEF LiveMeta
      <3>2. ASSUME NEW q \in Pending'
            PROVE  /\ q.input => q.fn \notin sent'
                   /\ q.fn \in Range(metaCb') => q.fn \in sent'
        <4>1. CASE q \in Pending
          BY <1>0, <1>1, <1>2, <2>1, <4>1 DEF LiveMeta
        <4>2. CASE q.fn = r.fn /\ q.input = r.input
          BY <2>1, <4>2
        <4> QED  BY <1>3, <4>1, <4>2
      <3> QED  BY <3>1, <3>2 DEF LiveMeta
    <2>9. Unsent'
      <3>1. \/ \A q \in Pending : q.fn \in sent
            \/ batch.size = 0 /\ (mState # "CONFIGURED" \/ Single)
        BY <1>0, <2>1 DEF Unsent
      <3>2. (\A q \in Pending : q.fn \in sent) \/ batch'.size = 0
        <4>1. CASE mState = "CONFIGURED" /\ Single /\ u.batch.size \in env.sizes
          BY <2>2, <4>1 DEF Single
        <4>2. CASE u.batch = batch
          BY <2>2, <3>1, <4>2
        <4>3. CASE mState = "CONFIGURED" /\ ~Single
          BY <3>1, <4>3
        <4> QED  BY <1>e, <4>1, <4>2, <4>3
      <3>3. (\A q \in Pending' : q.fn \in sent') \/ batch'.size = 0
        BY <1>3, <2>1, <3>2
      <3> QED  BY <2>1, <3>3 DEF Unsent
    <2> QED  BY <2>6, <2>7, <2>8, <2>9 DEF Counting
  <1>13. CASE ReprocessAccepted(r, u)
    <2>1. /\ r.input /\ mPendingLiveRequest' = u.live /\ batch' = u.batch
          /\ mState' = "STARTED" /\ UNCHANGED <<mPendingBatchMap, sent>>
          /\ due'.meta = due.meta
      BY <1>0, <1>13 DEF ReprocessAccepted, TypedDue
    <2>2. u.batch.size = 0 /\ thread["request"].pc # "register"
      BY <1>e, <1>5, <2>1
    <2>3. InFlight' = InFlight
      BY <1>9, <2>1
    <2>4. Sized'
      BY <1>e, <1>0, <1>4, <2>1, <2>2 DEF Sized
    <2>5. Counted'
      <3>1. u.live = Cardinality(InFlight)
        BY <1>e, <1>0, <1>6, <2>2 DEF Counted
      <3> QED  BY <1>6, <2>1, <2>3, <3>1 DEF Counted
    <2>6. LiveMeta'
      BY <1>0, <1>1, <1>2, <1>3, <2>1 DEF LiveMeta
    <2>7. Unsent'
      BY <2>1, <2>2 DEF Unsent
    <2> QED  BY <2>4, <2>5, <2>6, <2>7 DEF Counting
  <1> QED  BY <1>e, <1>10, <1>11, <1>12, <1>13 DEF Accepted

\* A buffer of metadata names live requests: those of a batch are older than
\* any request that is pending and was not sent.
LEMMA handleBatchMetadataCounting ==
    ASSUME Base, Counting, UNCHANGED env, handleBatchMetadata
    PROVE  Counting'
  <1>1. /\ due.meta # <<>> /\ due' = [due EXCEPT !.meta = Tail(@)]
        /\ UNCHANGED <<mState, mFlush, mPendingRequestsList, mPendingLiveRequest,
                       batch, sent, thread>>
        /\ \/ batch.size = 0 /\ metaCb' = <<Head(due.meta)>>
                /\ mPendingBatchMap' = mPendingBatchMap
           \/ /\ batch.size # 0
              /\ \E e \in mPendingBatchMap :
                    /\ metaCb' = [i \in 1..(Head(due.meta) + 1 - e[2]) |-> e[2] + i - 1]
                    /\ e[1] = Head(due.meta)
                    /\ mPendingBatchMap' = mPendingBatchMap \ {e}
    BY DEF handleBatchMetadata, lists, ledger
  <1>2. /\ due.meta \in Seq(Frame) /\ due'.meta = Tail(due.meta)
        /\ Head(due.meta) \in Range(due.meta)
        /\ Range(due'.meta) \subseteq Range(due.meta)
    <2>1. due.meta \in Seq(Frame) /\ due'.meta = Tail(due.meta)
      BY <1>1 DEF Base, Typed, TypedDue
    <2> DEFINE s == due.meta
    <2>2. s \in Seq(Frame) /\ s # <<>> /\ due'.meta = Tail(s)
      BY <1>1, <2>1
    <2> HIDE DEF s
    <2>3. Head(s) \in Range(s) /\ Range(Tail(s)) \subseteq Range(s)
      BY <2>2 DEF Range
    <2> QED  BY <2>1, <2>2, <2>3 DEF s
  <1>3. batch.size \in Nat
    <2>1. batch.size \in BatchSizes \cup {0}
      BY DEF Base, Typed, TypedBatch
    <2>2. BatchSizes \subseteq Nat
      BY QCamera3HWIAssumption
    <2>3. \A n \in BatchSizes \cup {0} : n \in Nat
      BY <2>2
    <2> QED  BY <2>1, <2>3
  <1>4. \A q \in Pending : q.fn \in Range(metaCb') => q.fn \in Range(metaCb) \cup sent
    <2>1. CASE metaCb' = <<Head(due.meta)>>
      <3>1. Range(metaCb') = {Head(due.meta)}
        BY <2>1 DEF Range
      <3> QED  BY <1>2, <3>1 DEF Counting, LiveMeta
    <2>2. CASE /\ batch.size # 0
               /\ \E e \in mPendingBatchMap :
                    /\ metaCb' = [i \in 1..(Head(due.meta) + 1 - e[2]) |-> e[2] + i - 1]
                    /\ e[1] = Head(due.meta)
      <3>1. PICK e \in mPendingBatchMap :
                 metaCb' = [i \in 1..(e[1] + 1 - e[2]) |-> e[2] + i - 1]
        BY <2>2
      <3>2. e[1] \in Nat /\ e[2] \in Nat
        BY Seen, FrameNat
      <3>3. \A f \in Range(metaCb') : f <= e[1]
        BY <3>1, <3>2 DEF Range
      <3>4. ASSUME NEW q \in Pending, q.fn \in Range(metaCb')
            PROVE  q.fn \in sent
        <4>1. q.fn <= e[1]
          BY <3>3, <3>4
        <4>2. ~ (e[1] < q.fn)
          <5>1. q.fn \in Nat
            BY Seen, FrameNat DEF Request
          <5> QED  BY <3>2, <4>1, <5>1
        <4>3. batch.size > 0
          BY <1>3, <2>2
        <4> QED  BY <4>2, <4>3 DEF Counting, Unsent
      <3> QED  BY <3>4
    <2> QED  BY <1>1, <2>1, <2>2
  <1>5. Pending' = Pending /\ Restarting' = Restarting
    BY <1>1 DEF Pending, Restarting
  <1>6. mPendingBatchMap' \subseteq mPendingBatchMap
    BY <1>1
  <1> QED  BY <1>1, <1>2, <1>4, <1>5, <1>6, CalmCounting

\* The metadata of a live request ends it: one fewer is in flight.
LEMMA handleMetadataWithLockCounting ==
    ASSUME Base, Counting, UNCHANGED env, NEW drop \in SUBSET (Streams \ Blob),
           handleMetadataWithLock(drop)
    PROVE  Counting'
  <1> DEFINE fn == Head(metaCb)
  <1>1. /\ metaCb # <<>> /\ metaCb' = Tail(metaCb)
        /\ UNCHANGED <<mFlush, mPendingBatchMap, batch, due, thread, sent>>
    BY DEF handleMetadataWithLock, batching, ledger
  <1>2. /\ fn \in Range(metaCb) /\ Range(metaCb') \subseteq Range(metaCb)
    <2>1. metaCb \in Seq(Frame)
      BY DEF Base, Typed, TypedDue
    <2> QED  BY <1>1, <2>1 DEF Range
  <1>3. \/ /\ UNCHANGED <<mPendingRequestsList, mPendingLiveRequest>>
           /\ mState' = mState \/ mState' = "ERROR"
        \/ /\ \E r \in Range(mPendingRequestsList) : r.fn = fn
           /\ mPendingRequestsList' = Without(mPendingRequestsList, fn)
           /\ mPendingLiveRequest' = mPendingLiveRequest - 1
           /\ mState' = mState
    BY DEF handleMetadataWithLock, lists
  <1> HIDE DEF fn
  <1>4. Restarting' = Restarting
    BY <1>1 DEF Restarting
  <1>5. CASE /\ UNCHANGED <<mPendingRequestsList, mPendingLiveRequest>>
             /\ mState' = mState \/ mState' = "ERROR"
    <2>1. Pending' = Pending
      BY <1>5 DEF Pending
    <2> QED  BY <1>1, <1>2, <1>4, <1>5, <2>1, CalmCounting
  <1>6. CASE /\ \E r \in Range(mPendingRequestsList) : r.fn = fn
             /\ mPendingRequestsList' = Without(mPendingRequestsList, fn)
             /\ mPendingLiveRequest' = mPendingLiveRequest - 1
             /\ mState' = mState
    <2>1. PICK q \in Pending : q.fn = fn
      BY <1>6 DEF Pending
    <2>2. Pending' = {p \in Pending : p.fn # fn}
      BY <1>6, <2>1, LeavesPending
    <2>3. fn \in sent /\ fn \in InFlight
      BY <1>2, <2>1 DEF Counting, LiveMeta, InFlight
    <2>4. InFlight' = InFlight \ {fn}
      <3>1. ASSUME NEW f \in InFlight' PROVE f \in InFlight \ {fn}
        BY <1>1, <2>2, <3>1 DEF InFlight
      <3>2. ASSUME NEW f \in InFlight \ {fn} PROVE f \in InFlight'
        BY <1>1, <2>2, <3>2 DEF InFlight
      <3> QED  BY <3>1, <3>2
    <2>5. /\ Cardinality(InFlight') = Cardinality(InFlight) - 1
          /\ Cardinality(InFlight) \in Nat /\ mPendingLiveRequest \in Int
      <3>1. IsFiniteSet(InFlight) /\ Cardinality(InFlight) \in Nat
        BY InFlightFinite DEF Base
      <3>2. Cardinality(InFlight \ {fn}) = Cardinality(InFlight) - 1
        BY <2>3, <3>1, FS_RemoveElement
      <3> QED  BY <2>4, <3>1, <3>2 DEF Base, Typed, TypedState
    <2>6. Sized'
      BY <1>1, <1>4, <1>6 DEF Counting, Sized
    <2>7. Counted'
      <3>1. /\ mPendingLiveRequest' >= Cardinality(InFlight')
            /\ mPendingLiveRequest = Cardinality(InFlight) =>
                  mPendingLiveRequest' = Cardinality(InFlight')
        BY <1>6, <2>5 DEF Counting, Counted
      <3>2. mState' # "CONFIGURED"
        BY <1>6, <2>3 DEF Counting, Counted
      <3>3. mState' = mState /\ batch' = batch
        BY <1>1, <1>6
      <3> QED  BY <3>1, <3>2, <3>3 DEF Counting, Counted
    <2>8. LiveMeta'
      BY <1>1, <1>2, <2>2 DEF Counting, LiveMeta
    <2>9. Unsent'
      <3>1. Single' = Single /\ mFlush' = mFlush
        BY <1>1 DEF Single
      <3> QED  BY <1>1, <1>6, <2>2, <3>1 DEF Counting, Unsent
    <2> QED  BY <2>6, <2>7, <2>8, <2>9 DEF Counting
  <1> QED  BY <1>3, <1>5, <1>6

\* The end of a reprocessed frame is not counted.
LEMMA handleInputBufferCounting ==
    ASSUME Base, Counting, UNCHANGED env, NEW fn \in Frame,
           handleInputBufferWithLock(fn)
    PROVE  Counting'
  <1>1. /\ due' = [due EXCEPT !.bufs = @ \ {<<fn, "input">>}]
        /\ UNCHANGED <<mState, mFlush, mPendingLiveRequest, mPendingBatchMap,
                       batch, metaCb, thread, sent>>
        /\ \/ mPendingRequestsList' = mPendingRequestsList
           \/ /\ \E r \in Range(mPendingRequestsList) : r.fn = fn /\ r.input
              /\ mPendingRequestsList' = Without(mPendingRequestsList, fn)
    BY DEF handleInputBufferWithLock, batching, ledger
  <1>2. due'.meta = due.meta /\ Restarting' = Restarting
    BY <1>1 DEF Restarting, Base, Typed, TypedDue
  <1>3. CASE mPendingRequestsList' = mPendingRequestsList
    <2>1. Pending' = Pending
      BY <1>3 DEF Pending
    <2> QED  BY <1>1, <1>2, <2>1, CalmCounting
  <1>4. CASE /\ \E r \in Range(mPendingRequestsList) : r.fn = fn /\ r.input
             /\ mPendingRequestsList' = Without(mPendingRequestsList, fn)
    <2>1. PICK q \in Pending : q.fn = fn /\ q.input
      BY <1>4 DEF Pending
    <2>2. Pending' = {p \in Pending : p.fn # fn}
      BY <1>4, <2>1, LeavesPending
    <2>3. fn \notin sent
      BY <2>1 DEF Counting, LiveMeta
    <2>4. \A p \in Pending : p.fn \in sent => \E o \in Pending' : o.fn = p.fn
      BY <2>2, <2>3
    <2> QED  BY <1>1, <1>2, <2>2, <2>4, CalmCounting
  <1> QED  BY <1>1, <1>3, <1>4

\* A buffer is kept in its request, or given back.
LEMMA handleBufferCounting ==
    ASSUME Base, Counting, UNCHANGED env, NEW fn \in Frame, NEW s \in Streams,
           handleBufferWithLock(fn, s)
    PROVE  Counting'
  <1>1. /\ due' = [due EXCEPT !.bufs = @ \ {<<fn, s>>}]
        /\ UNCHANGED <<mState, mFlush, mPendingLiveRequest, mPendingBatchMap,
                       batch, metaCb, thread, sent>>
        /\ \/ mPendingRequestsList' = mPendingRequestsList
           \/ mPendingRequestsList' =
                 [i \in DOMAIN mPendingRequestsList |->
                    IF mPendingRequestsList[i].fn = fn
                      THEN [mPendingRequestsList[i] EXCEPT !.cached = @ \cup {s}]
                      ELSE mPendingRequestsList[i]]
    BY DEF handleBufferWithLock, batching, ledger, lists
  <1>2. due'.meta = due.meta /\ Restarting' = Restarting
    BY <1>1 DEF Restarting, Base, Typed, TypedDue
  <1>3. /\ \A p \in Pending' : \E q \in Pending : p.fn = q.fn /\ p.input = q.input
        /\ \A q \in Pending : \E p \in Pending' : p.fn = q.fn
    <2>1. CASE mPendingRequestsList' = mPendingRequestsList
      BY <2>1 DEF Pending
    <2>2. CASE mPendingRequestsList' =
                 [i \in DOMAIN mPendingRequestsList |->
                    IF mPendingRequestsList[i].fn = fn
                      THEN [mPendingRequestsList[i] EXCEPT !.cached = @ \cup {s}]
                      ELSE mPendingRequestsList[i]]
      <3>1. mPendingRequestsList \in Seq(Request)
        BY DEF Base, Typed, TypedLists
      <3>2. /\ DOMAIN mPendingRequestsList' = DOMAIN mPendingRequestsList
            /\ \A i \in DOMAIN mPendingRequestsList :
                  /\ mPendingRequestsList'[i].fn = mPendingRequestsList[i].fn
                  /\ mPendingRequestsList'[i].input = mPendingRequestsList[i].input
        BY <2>2, <3>1 DEF Request
      <3> QED  BY <3>2 DEF Pending, Range
    <2> QED  BY <1>1, <2>1, <2>2
  <1> QED  BY <1>1, <1>2, <1>3, CalmCounting

\* A new object counts nothing.
LEMMA InitCounting == Init => Counting
  <1> SUFFICES ASSUME Init PROVE Counting
    OBVIOUS
  <1>1. /\ mState = "CLOSED" /\ batch.size = 0 /\ mPendingLiveRequest = 0
        /\ due.meta = <<>> /\ ~Restarting
    BY DEF Init, NothingDue, Restarting, Thread, Out
  <1>2. Pending = {}
    BY DEF Init, Pending, Range
  <1>3. InFlight = {} /\ Cardinality(InFlight) = 0
    BY <1>2, NoneInFlight
  <1>4. Sized /\ Counted
    BY <1>1, <1>3 DEF Sized, Counted
  <1>5. LiveMeta /\ Unsent
    BY <1>1, <1>2 DEF LiveMeta, Unsent, Range
  <1> QED  BY <1>4, <1>5 DEF Counting

\* Neither does a new session.
LEMMA CloseCounting ==
    ASSUME UNCHANGED env, close_camera_device
    PROVE  Counting'
  <1>1. /\ mState' = "CLOSED" /\ batch'.size = 0 /\ mPendingLiveRequest' = 0
        /\ due'.meta = <<>> /\ ~Restarting'
        /\ mPendingRequestsList' = <<>>
    BY DEF close_camera_device, NothingDue, Restarting, Thread
  <1>2. Pending' = {}
    BY <1>1 DEF Pending, Range
  <1>3. InFlight' = {} /\ Cardinality(InFlight') = 0
    BY <1>2, FS_EmptySet DEF InFlight
  <1>4. Sized' /\ Counted'
    BY <1>1, <1>3 DEF Sized, Counted
  <1>5. LiveMeta' /\ Unsent'
    BY <1>1, <1>2 DEF LiveMeta, Unsent, Range
  <1> QED  BY <1>4, <1>5 DEF Counting

\* The steps that touch neither the lists nor the counter.
LEMMA QuietCounting ==
    ASSUME Base, Counting, Quiet, UNCHANGED <<batch, mPendingLiveRequest>>,
           mState' = mState \/ mState' \notin {"STARTED", "CONFIGURED"},
           mFlush' \/ ~mFlush,
           Restarting' => Restarting \/ batch.size > 0
    PROVE  Counting'
  <1>1. Pending' = Pending /\ metaCb' = metaCb /\ sent' = sent /\ env' = env
        /\ mPendingBatchMap' = mPendingBatchMap
    BY DEF Quiet, Pending
  <1>2. Range(due'.meta) \subseteq Range(due.meta)
    BY DEF Quiet, NothingDue, Range
  <1> QED  BY <1>1, <1>2, CalmCounting

\* The loop of the sensor restart, for which requests go in batches.
LEMMA WalkCounting ==
    ASSUME Base, Walks, Counting, UNCHANGED env, dynamicUpdateMetaStreamInfo
    PROVE  Counting'
  <1>1. Restarting /\ batch.size > 0
    <2>1. thread["request"].pc = "resume"
      BY DEF Walks, dynamicUpdateMetaStreamInfo, WalkBegins, EntryErased,
         EntryAnswered, WalkEnds
    <2> QED  BY <2>1 DEF Restarting, Counting, Sized
  <1>2. UNCHANGED <<env, batch, sent, mPendingLiveRequest, mState, mFlush,
                    due, metaCb, mPendingBatchMap>>
    BY DEF dynamicUpdateMetaStreamInfo, WalkBegins, EntryErased,
       EntryAnswered, WalkEnds, batching, outside, ledger
  <1>3. CASE WalkBegins \/ WalkEnds
    <2>1. Quiet
      BY <1>3, WalkBeginsStep, WalkEndsStep
    <2> QED  BY <1>1, <1>2, <2>1, QuietCounting
  <1>4. CASE EntryErased
    <2>1. Pending' = Pending
      BY <1>4, EntryErasedStep
    <2> QED  BY <1>1, <1>2, <2>1, CalmCounting
  <1>5. CASE EntryAnswered
    <2>1. Pending' \subseteq Pending
      BY <1>5, AnsweredEntry
    <2>2. thread' = thread
      BY <1>5 DEF EntryAnswered
    <2> QED  BY <1>1, <1>2, <2>1, <2>2, FewerCounting
  <1> QED  BY <1>3, <1>4, <1>5 DEF dynamicUpdateMetaStreamInfo

\* Every step keeps the count.
LEMMA NextCounting ==
    ASSUME Base, Walks, Counting, OneMode, [Next]_vars
    PROVE  raced' \/ Counting'
  <1>0. TypedThreads
    BY DEF Base, Typed
  <1>1. CASE UNCHANGED vars
    <2>1. /\ UNCHANGED <<env, batch, sent, mPendingLiveRequest, metaCb, due,
                         mPendingBatchMap, mState, mFlush, thread>>
          /\ UNCHANGED mPendingRequestsList
      BY <1>1 DEF vars, lists, batching, outside, ledger
    <2>2. Pending' = Pending /\ Restarting' = Restarting
      BY <2>1 DEF Pending, Restarting
    <2> QED  BY <2>1, <2>2, CalmCounting
  <1>2. CASE Next
    <2>0. UNCHANGED env
      BY <1>2 DEF Next
    <2>1. CASE Framework
      <3>1. CASE openCamera
        <4>1. Quiet
          BY <2>0, <3>1, openCameraStep
        <4>2. UNCHANGED <<batch, mPendingLiveRequest, mFlush, thread>>
              /\ mState' = "OPENED"
          BY <3>1 DEF openCamera, batching
        <4> QED  BY <4>1, <4>2, QuietCounting DEF Restarting
      <3>2. CASE initialize
        <4>1. Quiet
          BY <2>0, <3>2, initializeStep
        <4>2. UNCHANGED <<batch, mPendingLiveRequest, mFlush, mState>>
              /\ Goes("request", "initialized")
          BY <3>2 DEF initialize, batching
        <4>3. ~Restarting'
          BY <1>0, <4>2, GoesTyped DEF Restarting, Thread, RequestPc
        <4> QED  BY <4>1, <4>2, <4>3, QuietCounting
      <3>3. CASE configureStreams
        <4>1. Quiet
          BY <2>0, <3>3, configureStreamsStep
        <4>2. UNCHANGED <<batch, mPendingLiveRequest, mFlush, mState>>
              /\ Goes("request", "configure")
          BY <3>3 DEF configureStreams, batching
        <4>3. ~Restarting'
          BY <1>0, <4>2, GoesTyped DEF Restarting, Thread, RequestPc
        <4> QED  BY <4>1, <4>2, <4>3, QuietCounting
      <3>4. CASE close_camera_device
        BY <2>0, <3>4, CloseCounting
      <3>5. CASE RequestRefused
        <4>1. Quiet
          BY <2>0, <3>5, RequestRefusedStep
        <4>2. /\ UNCHANGED <<batch, mPendingLiveRequest, mFlush, mState>>
              /\ Goes("request", "error") \/ thread' = thread
          BY <3>5 DEF RequestRefused, batching
        <4>3. Restarting' => Restarting
          BY <1>0, <4>2, GoesTyped DEF Restarting, Thread, RequestPc
        <4> QED  BY <4>1, <4>2, <4>3, QuietCounting
      <3>6. CASE SetupFails \/ SettingsFail
        <4>1. Quiet
          BY <2>0, <3>6, FailsStep
        <4>2. /\ UNCHANGED <<batch, mFlush, mState, thread, mPendingRequestsList>>
              /\ \/ mPendingLiveRequest' = mPendingLiveRequest
                 \/ mState = "CONFIGURED" /\ mPendingLiveRequest' = 0
          BY <3>6 DEF SetupFails, SettingsFail, Setup, batching, lists
        <4>3. /\ Pending' = Pending /\ metaCb' = metaCb /\ sent' = sent /\ env' = env
              /\ mPendingBatchMap' = mPendingBatchMap
              /\ Range(due'.meta) \subseteq Range(due.meta)
          BY <4>1 DEF Quiet, Pending, NothingDue, Range
        <4>4. Restarting' = Restarting
          BY <4>2 DEF Restarting
        <4> QED  BY <4>2, <4>3, <4>4, CalmCounting
      <3>7. CASE processCaptureRequest
        <4>1. PICK r, u : Entering(r, u)
          BY <2>0, <3>7, processCaptureRequestEnters
        <4>2. walk' = walk
          BY <2>1 DEF Framework, close_camera_device, walking
        <4>3. Idle
          BY <3>7, <4>2, OffLoop DEF processCaptureRequest, MayAsk
        <4> QED  BY <4>1, <4>3, EnteringCounting
      <3>8. CASE SensorRestart
        <4>1. Quiet
          BY <2>0, <3>8, SensorRestartStep
        <4>2. UNCHANGED <<batch, mPendingLiveRequest, mFlush, mState>>
              /\ batch.size > 0
          BY <3>8 DEF SensorRestart, batching
        <4> QED  BY <4>1, <4>2, QuietCounting
      <3>9. CASE FlushCalled
        <4>1. Quiet
          BY <2>0, <3>9, FlushCalledStep
        <4>2. UNCHANGED <<batch, mPendingLiveRequest, mFlush, mState>>
              /\ thread'["request"] = thread["request"]
          BY <1>0, <3>9 DEF FlushCalled, batching, Goes, TypedThreads, Thread
        <4>3. Restarting' = Restarting
          BY <4>2 DEF Restarting
        <4> QED  BY <4>1, <4>2, <4>3, QuietCounting
      <3> QED  BY <2>1, <3>1, <3>2, <3>3, <3>4, <3>5, <3>6, <3>7, <3>8, <3>9
               DEF Framework
    <2>2. CASE RequestProceeds
      <3>1. CASE Initialized
        <4>1. Quiet
          BY <2>0, <3>1, InitializedStep
        <4>2. UNCHANGED <<batch, mPendingLiveRequest, mFlush>>
              /\ mState' = "INITIALIZED" /\ Leaves("request")
          BY <3>1 DEF Initialized, batching
        <4>3. ~Restarting'
          BY <1>0, <4>2, LeavesTyped DEF Restarting, Thread
        <4> QED  BY <4>1, <4>2, <4>3, QuietCounting
      <3>2. CASE configureStreamsPerfLocked
        <4>1. /\ UNCHANGED <<batch, mPendingLiveRequest, mFlush, sent, due, metaCb,
                             mPendingBatchMap>>
              /\ thread["request"].pc = "configure"
              /\ Goes("request", "error") \/ Leaves("request")
              /\ \/ mState' = "CONFIGURED" /\ mPendingRequestsList' = <<>>
                 \/ UNCHANGED <<mState, mPendingRequestsList>>
          BY <3>2 DEF configureStreamsPerfLocked, batching, outside, ledger,
             lists
        <4>2. ~Restarting'
          BY <1>0, <4>1, GoesTyped, LeavesTyped DEF Restarting, Thread,
             RequestPc
        <4>3. due.meta = <<>>
          BY <4>1 DEF Base, Places, Clearing, NothingDue
        <4>4. CASE mState' = "CONFIGURED" /\ mPendingRequestsList' = <<>>
          <5>1. mPendingLiveRequest' \in Nat
            <6>1. /\ mPendingLiveRequest \in Int /\ Cardinality(InFlight) \in Nat
                  /\ mPendingLiveRequest >= Cardinality(InFlight)
              BY InFlightFinite DEF Base, Typed, TypedState, Counting, Counted
            <6> QED  BY <4>1, <6>1
          <5> QED  BY <2>0, <4>1, <4>2, <4>3, <4>4, <5>1, ClearedCounting
        <4>5. CASE UNCHANGED <<mState, mPendingRequestsList>>
          <5>1. Pending' = Pending
            BY <4>5 DEF Pending
          <5> QED  BY <2>0, <4>1, <4>2, <4>5, <5>1, CalmCounting
        <4> QED  BY <4>1, <4>4, <4>5
      <3>3. CASE SensorStops
        <4>1. Quiet
          BY <2>0, <3>3, SensorStopsStep
        <4>2. UNCHANGED <<batch, mPendingLiveRequest, mFlush, mState>>
              /\ Restarting
          BY <3>3 DEF SensorStops, batching, Restarting
        <4> QED  BY <4>1, <4>2, QuietCounting
      <3>4. CASE dynamicUpdateMetaStreamInfo
        BY <2>0, <3>4, WalkCounting
      <3>5. CASE SensorRestarted
        <4>1. PICK r, u : Entering(r, u)
          BY <2>0, <3>5, SensorRestartedEnters
        <4>2. walk' = walk
          BY <2>2, <3>5 DEF RequestProceeds, walking, SensorRestarted,
             dynamicUpdateMetaStreamInfo, WalkBegins, EntryErased,
             EntryAnswered, WalkEnds, Walks
        <4>3. Idle
          BY <3>5, <4>2, OffLoop DEF SensorRestarted
        <4> QED  BY <4>1, <4>3, EnteringCounting
      <3>6. CASE Woken \/ TimedOut
        <4>1. Quiet
          BY <2>0, <3>6, WaitStep
        <4>2. /\ UNCHANGED <<batch, mPendingLiveRequest, mFlush, mState>>
              /\ Leaves("request") \/ thread' = thread
          BY <3>6 DEF Woken, TimedOut, batching
        <4>3. Restarting' => Restarting
          BY <1>0, <4>2, LeavesTyped DEF Restarting, Thread
        <4> QED  BY <4>1, <4>2, <4>3, QuietCounting
      <3> QED  BY <2>2, <3>1, <3>2, <3>3, <3>4, <3>5, <3>6 DEF RequestProceeds
    <2>3. CASE Metadata
      <3>1. CASE handleBatchMetadata
        BY <2>0, <3>1, handleBatchMetadataCounting
      <3>2. ASSUME NEW drop \in SUBSET (Streams \ Blob),
                   handleMetadataWithLock(drop)
            PROVE  Counting'
        BY <2>0, <3>2, handleMetadataWithLockCounting
      <3> QED  BY <2>3, <3>1, <3>2 DEF Metadata
    <2>4. CASE Buffers
      <3>1. ASSUME NEW fn \in Frame, handleInputBufferWithLock(fn)
            PROVE  Counting'
        BY <2>0, <3>1, handleInputBufferCounting
      <3>2. ASSUME NEW fn \in Frame, NEW s \in Streams,
                   handleBufferWithLock(fn, s)
            PROVE  Counting'
        BY <2>0, <3>2, handleBufferCounting
      <3> QED  BY <2>4, <3>1, <3>2 DEF Buffers
    <2>5. CASE Daemon
      <3>1. Quiet
        BY <2>0, <2>5, DaemonStep DEF Daemon
      <3>2. /\ UNCHANGED <<batch, mPendingLiveRequest, mFlush, thread>>
            /\ mState' = mState \/ mState' = "ERROR"
        BY <2>5 DEF Daemon, DaemonDied, DaemonPulls, batching
      <3> QED  BY <3>1, <3>2, QuietCounting DEF Restarting
    <2>6. ASSUME NEW t \in Thread, FlushProceeds(t)
          PROVE  raced' \/ Counting'
      <3> DEFINE Moves == \/ Leaves(t) \/ Goes(t, "flush") \/ Goes(t, "stop")
                          \/ Goes(t, "notify") \/ Goes(t, "deinit")
      <3>0. ASSUME Moves PROVE Restarting' => Restarting
        <4>1. CASE Leaves(t)
          BY <1>0, <4>1, LeavesTyped DEF Restarting, Thread
        <4>2. ASSUME NEW pc \in {"flush", "stop", "notify", "deinit"}, Goes(t, pc)
              PROVE  Restarting' => Restarting
          <5>1. pc \in RequestPc /\ pc \in FlushPc
            BY DEF RequestPc, FlushPc
          <5> QED  BY <1>0, <4>2, <5>1, GoesTyped DEF Restarting, Thread
        <4> QED  BY <3>0, <4>1, <4>2
      <3> HIDE DEF Moves
      <3>1. CASE handleCameraDeviceError(t)
        <4>1. Quiet
          BY <2>0, <3>1, handleCameraDeviceErrorStep
        <4>2. UNCHANGED <<batch, mPendingLiveRequest, mFlush, mState>> /\ Moves
          BY <3>1 DEF handleCameraDeviceError, batching, Moves
        <4> QED  BY <3>0, <4>1, <4>2, QuietCounting
      <3>2. CASE FlushBegins(t)
        <4>1. Quiet
          BY <2>0, <3>2, FlushBeginsStep
        <4>2. UNCHANGED <<batch, mPendingLiveRequest, mState>> /\ mFlush' /\ Moves
          BY <3>2 DEF FlushBegins, batching, Moves
        <4> QED  BY <3>0, <4>1, <4>2, QuietCounting
      <3>3. CASE FlushStops(t)
        <4>1. Quiet
          BY <2>0, <3>3, FlushStopsStep
        <4>2. UNCHANGED <<batch, mPendingLiveRequest, mFlush, mState>> /\ Moves
          BY <3>3 DEF FlushStops, FlushReturns, batching, Moves
        <4> QED  BY <3>0, <4>1, <4>2, QuietCounting
      <3>4. CASE flush(t)
        <4> SUFFICES ASSUME ~raced' PROVE Counting'
          OBVIOUS
        <4>0. ~walk.on /\ Idle
          BY <3>4, FlushRaces
        <4>1. /\ UNCHANGED <<batch, sent, due, mState>> /\ Moves
              /\ mPendingLiveRequest' = 0 /\ notifyErrorForPendingRequests
              /\ thread[t].pc = "notify"
          BY <3>4, <4>0 DEF flush, FlushReturns, batching, ledger, Moves
        <4>2. mPendingRequestsList' = <<>>
          BY <4>0, <4>1, NotifyClears DEF Base
        <4>3. due.meta = <<>>
          BY <4>1 DEF Base, Places, Clearing, NothingDue
        <4> QED  BY <2>0, <3>0, <4>1, <4>2, <4>3, ClearedCounting
      <3>5. CASE Deinit(t)
        <4>1. Quiet
          BY <2>0, <3>5, DeinitStep
        <4>2. UNCHANGED <<batch, mPendingLiveRequest, mFlush>> /\ Moves
              /\ mState' = "DEINIT"
          BY <3>5 DEF Deinit, batching, Moves
        <4> QED  BY <3>0, <4>1, <4>2, QuietCounting
      <3> QED  BY <2>6, <3>1, <3>2, <3>3, <3>4, <3>5 DEF FlushProceeds
    <2> QED  BY <1>2, <2>1, <2>2, <2>3, <2>4, <2>5, <2>6 DEF Next
  <1> QED  BY <1>1, <1>2

\* The books and the counter, together.
LEMMA CountKept == OneMode => (Spec => [](raced \/ (Base /\ Walks /\ Counting)))
  <1> SUFFICES ASSUME OneMode
               PROVE  Spec => [](raced \/ (Base /\ Walks /\ Counting))
    OBVIOUS
  <1>1. Init => raced \/ (Base /\ Walks /\ Counting)
    BY InitBase, InitWalks, InitCounting
  <1>2. (raced \/ (Base /\ Walks /\ Counting)) /\ [Next]_vars
           => (raced \/ (Base /\ Walks /\ Counting))'
    BY NextBooks, NextCounting, RacedStays
  <1> QED  BY <1>1, <1>2, PTL DEF Spec

\* The ghost is set, and never reset.
TypedRaced == raced \in BOOLEAN
LEMMA RacedTyped == Spec => []TypedRaced
  <1>1. Init => TypedRaced
    BY DEF Init, TypedRaced
  <1>2. TypedRaced /\ [Next]_vars => TypedRaced'
    <2>1. Framework => raced' = raced
      BY DEF Framework, close_camera_device, walking
    <2>2. RequestProceeds => raced' = raced
      BY DEF RequestProceeds, dynamicUpdateMetaStreamInfo, WalkBegins,
         EntryErased, EntryAnswered, WalkEnds, walking
    <2>3. Metadata \/ Buffers \/ Daemon => raced' = raced
      BY DEF Metadata, Buffers, Daemon, walking
    <2>4. ASSUME NEW t \in Thread, FlushProceeds(t)
          PROVE  UNCHANGED raced \/ raced' \in BOOLEAN
      <3>1. UNCHANGED raced \/ raced' = TRUE
        BY <2>4 DEF FlushProceeds, flush, walking
      <3>2. TRUE \in BOOLEAN
        OBVIOUS
      <3> QED  BY <3>1, <3>2, Zenon
    <2>5. UNCHANGED vars => raced' = raced
      BY DEF vars, walking
    <2> SUFFICES ASSUME raced \in BOOLEAN, [Next]_vars PROVE raced' \in BOOLEAN
      BY DEF TypedRaced
    <2>6. UNCHANGED raced \/ raced' \in BOOLEAN
      BY <2>1, <2>2, <2>3, <2>4, <2>5 DEF Next
    <2> QED  BY <2>6, Zenon
  <1> QED  BY <1>1, <1>2, PTL DEF Spec

\* The counter is no number below zero.
LEMMA BaseTypeOK == Base /\ Walks /\ Counting /\ raced \in BOOLEAN => TypeOK
  <1> SUFFICES ASSUME Base, Walks, Counting, raced \in BOOLEAN PROVE TypeOK
    OBVIOUS
  <1>1. mPendingLiveRequest \in Nat
    <2>1. /\ mPendingLiveRequest \in Int /\ Cardinality(InFlight) \in Nat
          /\ mPendingLiveRequest >= Cardinality(InFlight)
      BY InFlightFinite DEF Base, Typed, TypedState, Counting, Counted
    <2> QED  BY <2>1
  <1>2. /\ mPendingRequestsList \in Seq([fn : Frame, input : BOOLEAN,
                                         bufs : SUBSET Streams,
                                         cached : SUBSET Streams])
        /\ mPendingBuffersMap \in Seq([fn : Frame, bufs : SUBSET Streams])
        /\ mPendingFrameDropList \subseteq Frame \X Streams
    BY DEF Base, Typed, TypedLists, Request, Buffer
  <1>3. /\ mPendingBatchMap \subseteq Frame \X Nat
        /\ batch \in [size : Nat, queued : Nat, first : Nat]
    <2>1. /\ mPendingBatchMap \subseteq Frame \X Frame
          /\ batch \in [size : BatchSizes \cup {0}, queued : Nat,
                        first : Frame \cup {0}]
      BY DEF Base, Typed, TypedBatch
    <2>2. Frame \subseteq Nat /\ BatchSizes \subseteq Nat
      BY FrameNat, QCamera3HWIAssumption
    <2>3. /\ \A n \in BatchSizes \cup {0} : n \in Nat
          /\ \A n \in Frame \cup {0} : n \in Nat
      BY <2>2
    <2>4. batch \in [size : Nat, queued : Nat, first : Nat]
      BY <2>1, <2>3
    <2>5. mPendingBatchMap \subseteq Frame \X Nat
      BY <2>1, <2>2
    <2> QED  BY <2>4, <2>5
  <1>4. due.meta \in Seq(Frame) /\ metaCb \in Seq(Frame)
    BY DEF Base, Typed, TypedDue
  <1>5. /\ mState \in State /\ mFlush \in BOOLEAN
        /\ mWokenUpByDaemon \in BOOLEAN /\ streaming \in BOOLEAN
    BY DEF Base, Typed, TypedState
  <1>6. thread["request"].pc \in RequestPc /\ thread["flush"].pc \in FlushPc
    BY DEF Base, Typed, TypedThreads, Thread
  <1>7. /\ walk \in [on : BOOLEAN, first : Nat,
                      hand : SUBSET [fn : Frame, bufs : SUBSET Streams]]
        /\ raced \in BOOLEAN
    BY DEF Walks, Buffer
  <1> QED  BY <1>1, <1>2, <1>3, <1>4, <1>5, <1>6, <1>7
           DEF TypeOK, RequestPc, FlushPc

\* The list has one entry for each of its frames.
LEMMA CountingLive == Base /\ Counting => LiveCount
  <1> SUFFICES ASSUME Base, Counting PROVE LiveCount
    OBVIOUS
  <1> DEFINE entries == {i \in DOMAIN mPendingRequestsList :
                            mPendingRequestsList[i].fn \in sent}
  <1>1. /\ mPendingRequestsList \in Seq(Request)
        /\ Increasing(mPendingRequestsList) /\ Entries(Request)
    BY FrameNat DEF Base, Typed, TypedLists, Lists, Entries, Request
  <1>2. Cardinality(entries) = Cardinality(InFlight)
    BY <1>1, CountFrames DEF InFlight, Pending
  <1> HIDE DEF entries
  <1>3. mState = "STARTED" =>
           IF batch.size = 0 THEN mPendingLiveRequest = Cardinality(entries)
                             ELSE mPendingLiveRequest >= Cardinality(entries)
    BY <1>2 DEF Counting, Counted
  <1> QED  BY <1>3 DEF LiveCount, entries

(* Type correctness, until a flush walks the lists beside a sensor restart. *)
(* All but mPendingLiveRequest is typed by the books; that the counter is  *)
(* never decremented below zero needs that metadata is handled for live    *)
(* requests in flight only.                                                *)
THEOREM RequestsTypeCorrect == OneMode => (Spec => [](raced \/ TypeOK))
  <1>1. (raced \/ (Base /\ Walks /\ Counting)) /\ TypedRaced
           => raced \/ TypeOK
    BY BaseTypeOK DEF TypedRaced
  <1> QED  BY <1>1, CountKept, RacedTyped, PTL

(* The counter on which process_capture_request waits counts the live requests *)
(* in flight: exactly those where requests are single, at least those where *)
(* they go in batches.  LiveCount itself excepts the overlap of a flush with *)
(* the loop of a sensor restart.                                           *)
THEOREM LiveRequestsCounted == OneMode => (Spec => []LiveCount)
  <1>1. raced \/ (Base /\ Walks /\ Counting) => LiveCount
    BY CountingLive DEF LiveCount
  <1> QED  BY <1>1, CountKept, PTL
=============================================================================
