----------------------- MODULE MmCameraStream_proofs -----------------------
(***************************************************************************)
(* The buffers of the streams, for every set of streams and buffers, every *)
(* subset bundled or with a callback, and every number of starts and stops:*)
(* no buffer is written while somebody holds it, none is lost unseen, the  *)
(* library's count is the driver's, and STOP leaves the poll thread quiet. *)
(*                                                                         *)
(* The invariant has three parts.  Books follows each buffer of a stream   *)
(* that may run, from the driver to its holders and back: where it can be  *)
(* (Places) and what its counter then is (Book).  Dead says what late      *)
(* calls can still do to the counters of a stream that has given up its    *)
(* buffers.  Lined and Phase say which streams and threads there are at    *)
(* each point of the start and the stop; Kept, that a stream is in the     *)
(* poll set while the poll thread has a buffer of it.                      *)
(***************************************************************************)
EXTENDS MmCameraStream, TLAPS, FiniteSetTheorems, SequenceTheorems

(* The driver keeps a buffer of each stream, if the channel is ever stopped or
   a call of the driver fails.  Without it the theorems are false: the poll
   thread takes a stream whose driver has run dry out of the poll set by
   itself, and STOP then does not wait for it. *)
Reserved ==
    \A e \in Envs : e.stops \/ e.fails => \A s \in Streams : e.reserve[s] > 0

-----------------------------------------------------------------------------
(* Where a buffer is *)

One(p) == IF p THEN 1 ELSE 0

(* At most one of them. *)
Apart2(p, q) == ~ (p /\ q)
Apart3(p, q, r) == ~ (p /\ (q \/ r)) /\ Apart2(q, r)
Apart4(p, q, r, t) == ~ (p /\ (q \/ r \/ t)) /\ Apart3(q, r, t)
Apart5(p, q, r, t, u) == ~ (p /\ (q \/ r \/ t \/ u)) /\ Apart4(q, r, t, u)

Holds(s, w, b) == ret[s][w].step \in {"check", "dec"} /\ ret[s][w].buf = b
Passes(s, w, b) == ret[s][w].step \in {"queue", "ioctl"} /\ ret[s][w].buf = b
PollAt(s, b, at) == poll.stream = s /\ poll.buf = b /\ poll.at \in at

(* The channel, the callback thread and the HAL each count once.  P begins when
   the poll thread has counted, A when the callback thread has. *)
C(s, b) == b \in chan[s] \/ Holds(s, "chan", b) \/ PollAt(s, b, {"chan"})
P(s, b) == \/ b \in Range(nodes[s]) \/ disp[s] = b \/ Holds(s, "disp", b)
           \/ s \in HasCb /\ PollAt(s, b, {"chan", "node"})
A(s, b) == \/ disp[s] = b \/ b \in Range(halQ[s]) \/ b \in app[s]
           \/ Holds(s, "proc", b) \/ Holds(s, "app", b)
Passing(s, b) == \E w \in Returners : Passes(s, w, b)
(* The driver, or on the way from it or to it. *)
D(s, b) == \/ b \in driver[s].empty \/ b \in Range(driver[s].frames)
           \/ Passing(s, b) \/ PollAt(s, b, {"count", "ref"})
Taken(s, b) == C(s, b) \/ P(s, b) \/ A(s, b)
Waiting(s, b) == \/ b \in Range(nodes[s])
                 \/ s \in HasCb /\ PollAt(s, b, {"chan", "node"})

Places(s, b) ==
    /\ Apart3(b \in chan[s], Holds(s, "chan", b), PollAt(s, b, {"chan"}))
    /\ Apart4(b \in Range(nodes[s]), disp[s] = b, Holds(s, "disp", b),
              s \in HasCb /\ PollAt(s, b, {"chan", "node"}))
    /\ Apart5(disp[s] = b, b \in Range(halQ[s]), b \in app[s],
              Holds(s, "proc", b), Holds(s, "app", b))
    /\ Apart4(b \in driver[s].empty, b \in Range(driver[s].frames),
              Passing(s, b), PollAt(s, b, {"count", "ref"}))
    /\ \A v, w \in Returners : Passes(s, v, b) /\ Passes(s, w, b) => v = w

T(s, b) == One(C(s, b)) + One(P(s, b)) + One(A(s, b))

(* The counter is the number of the holders; one more, for ever, if the HAL's
   closed queue has swallowed the buffer. *)
Book(s, b) ==
    /\ D(s, b) => ~ Taken(s, b) /\ b \notin gone[s]
    /\ Waiting(s, b) => ~ A(s, b) /\ b \notin gone[s]
    /\ b \notin gone[s] => refcnt[s][b] = T(s, b)
    /\ b \in gone[s] => /\ ~ A(s, b)
                        /\ \/ refcnt[s][b] = T(s, b) + 1
                           \/ refcnt[s][b] = 0 /\ ~ Taken(s, b)

Once(q) == \A i, j \in DOMAIN q : q[i] = q[j] => i = j

AtQueue(s, b) ==
    \E w \in Returners : ret[s][w].step = "queue" /\ ret[s][w].buf = b
(* What queued_buffer_count counts. *)
In(s, b) ==
    /\ ~ Taken(s, b) /\ b \notin gone[s]
    /\ ~ AtQueue(s, b) /\ ~ PollAt(s, b, {"ref"})
Counted(s) == {b \in Bufs : In(s, b)}

Whole(s) == \A b \in Bufs : D(s, b) \/ Taken(s, b) \/ b \in gone[s]

Books(s) ==
    /\ \A b \in Bufs : Places(s, b) /\ Book(s, b)
    /\ Once(driver[s].frames) /\ Once(nodes[s]) /\ Once(halQ[s])
    /\ queued[s] = Cardinality(Counted(s))

-----------------------------------------------------------------------------
(* What is true of a stream *)

NoBufs == [empty |-> {}, frames |-> <<>>]

(* No thread but the application's has a buffer of the stream. *)
Still(s) ==
    /\ chan[s] = {} /\ halQ[s] = <<>> /\ nodes[s] = <<>> /\ disp[s] = None
    /\ driver[s].frames = <<>> /\ poll.stream # s
    /\ \A w \in {"chan", "disp", "proc"} : Idle(s, w)

Decs(s, b) == One(ret[s]["chan"].step = "dec" /\ ret[s]["chan"].buf = b)
              + One(ret[s]["proc"].step = "dec" /\ ret[s]["proc"].buf = b)
AtStep(s, step) == One(ret[s]["chan"].step = step) + One(ret[s]["proc"].step = step)

(* The counters of a stream that gave up its buffers are zero, or a call that
   had checked one before takes it below. *)
Dead(s) ==
    /\ driver[s].empty # {} => Still(s) /\ app[s] = {}
    /\ \A b \in Bufs : \/ refcnt[s][b] = 0
                       \/ refcnt[s][b] = 255 /\ Decs(s, b) <= 1
                       \/ refcnt[s][b] = 254 /\ Decs(s, b) = 0
    /\ AtStep(s, "ioctl") <= queued[s]
    /\ queued[s] + AtStep(s, "queue") <= Cardinality(Bufs)

Live(s) == state[s] \in {"REG", "ACTIVE"}

(* The streams, the threads and the HAL *)
Lined(s) ==
    /\ state[s] = "REG" => s \notin streaming /\ Still(s)
    /\ s \in streaming => state[s] = "ACTIVE"
    /\ s \notin streaming => driver[s].frames = <<>> /\ poll.stream # s
    /\ s \notin alive => nodes[s] = <<>> /\ disp[s] = None /\ Idle(s, "disp")
    /\ s \in alive => state[s] = "ACTIVE"
    /\ disp[s] # None => Idle(s, "disp")
    /\ state[s] = "ACTIVE" /\ s \in HasCb => s \in alive
    /\ proc[s] = "gone" => halQ[s] = <<>> /\ Idle(s, "proc")
    /\ proc[s] = "idle" <=> s \in halOpen

StreamInv(s) ==
    /\ Live(s) => Books(s)
    /\ ~ Live(s) => Dead(s)
    /\ s \in streaming \/ state[s] = "REG" => Whole(s)
    /\ Lined(s)

-----------------------------------------------------------------------------
(* The thread that starts and stops the channel *)

Fresh(s) == state[s] = "CFG" /\ driver[s] = NoBufs /\ Still(s)
Undone(s) == state[s] = "CFG" /\ driver[s] = NoBufs /\ chan[s] = {} /\ Idle(s, "chan")

StopPhase == {"stop", "wait", "off", "join"}
AllGone == \A s \in Streams : proc[s] = "gone"

Phase ==
    /\ ctl.at = "down" => (\A s \in Streams : Fresh(s)) /\ AllGone
    /\ ctl.at \in {"reg", "on", "onwait", "onfail"} =>
         \A j \in 1..Count :
            /\ j < ctl.i => state[StartOrder[j]] = "ACTIVE"
            /\ j > ctl.i => Fresh(StartOrder[j])
            /\ j = ctl.i => IF ctl.at = "reg" THEN Fresh(StartOrder[j])
                            ELSE state[StartOrder[j]] = "REG"
    /\ ctl.at = "up" \/ (ctl.at \in {"halstop", "haljoin"} /\ ~ctl.undo) =>
         \A s \in Streams : state[s] = "ACTIVE"
    /\ ctl.at \in {"reg", "on", "onwait", "onfail", "up"} => ~ctl.undo
    /\ ctl.at \in {"halstop", "haljoin"} => \A j \in 1..ctl.i - 1 : proc[Slots[j]] = "gone"
    /\ ctl.at \in StopPhase /\ ~ctl.undo =>
         /\ AllGone
         /\ \A j \in 1..Count : state[StopOrder[j]] = IF j < ctl.i THEN "BUFFED" ELSE "ACTIVE"
    /\ ~ctl.undo => ctl.top = Count
    /\ ctl.at \in StopPhase => ctl.i <= ctl.top
    /\ ctl.at \in StopPhase /\ ctl.undo =>
         \A j \in 1..Count :
            /\ j < ctl.i => state[StartOrder[j]] = "BUFFED"
            /\ ctl.i <= j /\ j < ctl.top => state[StartOrder[j]] = "ACTIVE"
            /\ ctl.i <= j /\ j = ctl.top => state[StartOrder[j]] \in {"REG", "BUFFED"}
            /\ j > ctl.top => Fresh(StartOrder[j])
    /\ ctl.at \in {"wait", "off", "join"} => state[Stopping] = "ACTIVE"
    /\ ctl.at = "release" => /\ \A s \in Streams : state[s] = "BUFFED" \/ Fresh(s)
                             /\ ~ctl.undo => AllGone
    /\ ctl.at \in {"halstop", "haljoin"} /\ ctl.undo => \A s \in Streams : Undone(s)
    /\ ctl.at = "join" => Stopping \notin streaming

(* A stream that runs is in the poll set whenever the poll thread has a buffer
   of it: STOP finds it there and waits. *)
Kept ==
    env.stops \/ env.fails =>
      \A s \in streaming :
         /\ driver[s].empty = {} => Still(s)
         /\ poll.stream = s => s \in entries \/ (ctl.at = "wait" /\ Stopping = s /\ ~status)
         /\ ctl.at \in {"wait", "off"} /\ Stopping = s => s \notin entries

Steady == ~env.stops /\ ~env.fails => ctl.at \in {"down", "reg", "on", "up"}

PollInv ==
    /\ poll.at = "poll" <=> poll.stream = None
    /\ poll.stream = None <=> poll.buf = None
    /\ poll.at = "chan" => poll.stream \in Bundled
RetInv ==
    \A s \in Streams, w \in Returners :
       /\ ret[s][w].step = None <=> ret[s][w].buf = None
       /\ w = "app" /\ ctl.at # "up" => ret[s][w].step = None

IInv == /\ TypeOK /\ PollInv /\ RetInv
        /\ \A s \in Streams : StreamInv(s)
        /\ Phase /\ Kept /\ Steady

-----------------------------------------------------------------------------
(* Sequences, calls and types *)

LEMMA PollFramed ==
    ASSUME PollInv, poll' = poll
    PROVE  PollInv'
  BY DEF PollInv

LEMMA RetFramed ==
    ASSUME RetInv, ret' = ret, ctl' = ctl
    PROVE  RetInv'
  BY DEF RetInv

LEMMA TailFacts ==
    ASSUME NEW S, NEW q \in Seq(S), q # <<>>
    PROVE  /\ Head(q) \in S /\ Tail(q) \in Seq(S)
           /\ \A x : x \in Range(q) <=> x = Head(q) \/ x \in Range(Tail(q))
           /\ Once(q) => Once(Tail(q)) /\ Head(q) \notin Range(Tail(q))
  <1>1. /\ Head(q) \in S /\ Tail(q) \in Seq(S)
        /\ Len(Tail(q)) = Len(q) - 1
        /\ \A i \in 1..Len(Tail(q)) : Tail(q)[i] = q[i + 1]
    BY HeadTailProperties
  <1>2. /\ Len(q) \in Nat /\ Len(q) > 0 /\ DOMAIN q = 1..Len(q)
        /\ DOMAIN Tail(q) = 1..Len(Tail(q)) /\ Head(q) = q[1]
    BY <1>1, EmptySeq, LenProperties
  <1>3. ASSUME NEW x
        PROVE  x \in Range(q) <=> x = Head(q) \/ x \in Range(Tail(q))
    <2>1. ASSUME NEW i \in DOMAIN q, x = q[i], x # Head(q)
          PROVE  x \in Range(Tail(q))
      <3>1. i - 1 \in DOMAIN Tail(q) /\ Tail(q)[i - 1] = q[i]
        BY <1>1, <1>2, <2>1
      <3> QED
        BY <2>1, <3>1 DEF Range
    <2>2. ASSUME NEW i \in DOMAIN Tail(q), x = Tail(q)[i]
          PROVE  x \in Range(q)
      <3>1. i + 1 \in DOMAIN q /\ Tail(q)[i] = q[i + 1]
        BY <1>1, <1>2
      <3> QED
        BY <2>2, <3>1 DEF Range
    <2> QED
      BY <1>2, <2>1, <2>2 DEF Range
  <1>4. ASSUME Once(q)
        PROVE  Once(Tail(q)) /\ Head(q) \notin Range(Tail(q))
    BY <1>1, <1>2, <1>4 DEF Once, Range
  <1> QED
    BY <1>1, <1>3, <1>4

LEMMA AppendFacts ==
    ASSUME NEW S, NEW q \in Seq(S), NEW e \in S
    PROVE  /\ Append(q, e) \in Seq(S)
           /\ \A x : x \in Range(Append(q, e)) <=> x = e \/ x \in Range(q)
           /\ Once(q) /\ e \notin Range(q) => Once(Append(q, e))
  <1>1. /\ Append(q, e) \in Seq(S) /\ Len(Append(q, e)) = Len(q) + 1
        /\ \A i \in 1..Len(q) : Append(q, e)[i] = q[i]
        /\ Append(q, e)[Len(q) + 1] = e
    BY AppendProperties
  <1>2. /\ Len(q) \in Nat /\ DOMAIN q = 1..Len(q)
        /\ DOMAIN Append(q, e) = 1..Len(q) + 1
    BY <1>1, LenProperties
  <1>3. ASSUME NEW x
        PROVE  x \in Range(Append(q, e)) <=> x = e \/ x \in Range(q)
    <2>1. ASSUME NEW i \in DOMAIN q, x = q[i]
          PROVE  x \in Range(Append(q, e))
      <3>1. i \in DOMAIN Append(q, e) /\ Append(q, e)[i] = q[i]
        BY <1>1, <1>2
      <3> QED
        BY <2>1, <3>1 DEF Range
    <2>2. ASSUME NEW i \in DOMAIN Append(q, e), x = Append(q, e)[i], x # e
          PROVE  x \in Range(q)
      <3>1. i \in DOMAIN q /\ Append(q, e)[i] = q[i]
        BY <1>1, <1>2, <2>2
      <3> QED
        BY <2>2, <3>1 DEF Range
    <2>3. e \in Range(Append(q, e))
      <3>1. Len(q) + 1 \in DOMAIN Append(q, e)
        BY <1>2
      <3> QED
        BY <1>1, <3>1 DEF Range
    <2> QED
      BY <2>1, <2>2, <2>3 DEF Range
  <1>4. ASSUME Once(q), e \notin Range(q)
        PROVE  Once(Append(q, e))
    <2>1. \A i \in 1..Len(q) : q[i] # e
      BY <1>2, <1>4 DEF Range
    <2> QED
      BY <1>1, <1>2, <1>4, <2>1 DEF Once
  <1> QED
    BY <1>1, <1>3, <1>4

LEMMA EmptyFacts == Range(<<>>) = {} /\ Once(<<>>)
  BY DEF Range, Once

RetType == [Streams -> [Returners -> [step : Steps \cup {None},
                                      buf : Bufs \cup {None}]]]

LEMMA GoFacts ==
    ASSUME ret \in RetType, NEW s \in Streams, NEW w \in Returners,
           NEW k \in Steps, Go(s, w, k)
    PROVE  /\ ret' \in RetType
           /\ \A t \in Streams, v \in Returners :
                t # s \/ v # w => ret'[t][v] = ret[t][v]
           /\ ret'[s][w].step = k /\ ret'[s][w].buf = ret[s][w].buf
  BY DEF Go, RetType

LEMMA FinishFacts ==
    ASSUME ret \in RetType, NEW s \in Streams, NEW w \in Returners,
           Finish(s, w)
    PROVE  /\ ret' \in RetType
           /\ \A t \in Streams, v \in Returners :
                t # s \/ v # w => ret'[t][v] = ret[t][v]
           /\ ret'[s][w].step = None /\ ret'[s][w].buf = None
  BY DEF Finish, RetType, NoReturn

LEMMA StartFacts ==
    ASSUME ret \in RetType, NEW s \in Streams, NEW w \in Returners,
           NEW b \in Bufs, Start(s, w, b)
    PROVE  /\ ret' \in RetType
           /\ \A t \in Streams, v \in Returners :
                t # s \/ v # w => ret'[t][v] = ret[t][v]
           /\ ret'[s][w].step = "check" /\ ret'[s][w].buf = b
  BY DEF Start, RetType, Steps

LEMMA TypeFacts ==
    ASSUME TypeOK, NEW s \in Streams
    PROVE  /\ ret \in RetType
           /\ \A b \in Bufs : refcnt[s][b] \in 0..255
           /\ driver[s] \in [empty : SUBSET Bufs, frames : Seq(Bufs)]
           /\ nodes[s] \in Seq(Bufs) /\ halQ[s] \in Seq(Bufs)
           /\ queued[s] \in Nat
  <1>1. refcnt \in [Streams -> [Bufs -> 0..255]] /\ ret \in RetType
    BY DEF TypeOK, RetType
  <1>2. /\ driver \in [Streams -> [empty : SUBSET Bufs, frames : Seq(Bufs)]]
        /\ nodes \in [Streams -> Seq(Bufs)] /\ halQ \in [Streams -> Seq(Bufs)]
        /\ queued \in [Streams -> 0..Cardinality(Bufs)]
    BY DEF TypeOK
  <1>3. \A b \in Bufs : refcnt[s][b] \in 0..255
    BY <1>1
  <1>4. queued[s] \in 0..Cardinality(Bufs)
    BY <1>2
  <1>5. queued[s] \in Nat
    BY <1>4, FS_CardinalityType, BufsAssumption
  <1> QED
    BY <1>1, <1>2, <1>3, <1>5

-----------------------------------------------------------------------------
(* A step that leaves a buffer, or a stream, where it is *)

Unmoved(s, b) ==
    /\ (b \in driver'[s].empty <=> b \in driver[s].empty)
    /\ (b \in Range(driver'[s].frames) <=> b \in Range(driver[s].frames))
    /\ (b \in Range(nodes'[s]) <=> b \in Range(nodes[s]))
    /\ (disp'[s] = b <=> disp[s] = b)
    /\ (b \in Range(halQ'[s]) <=> b \in Range(halQ[s]))
    /\ (b \in app'[s] <=> b \in app[s]) /\ (b \in chan'[s] <=> b \in chan[s])
    /\ \A w \in Returners : /\ Holds(s, w, b)' <=> Holds(s, w, b)
                            /\ Passes(s, w, b)' <=> Passes(s, w, b)
    /\ \A at \in {{"chan"}, {"chan", "node"}, {"count", "ref"}} :
          PollAt(s, b, at)' <=> PollAt(s, b, at)

LEMMA UnmovedPlaces ==
    ASSUME NEW s, NEW b, Unmoved(s, b)
    PROVE  /\ C(s, b)' <=> C(s, b)
           /\ P(s, b)' <=> P(s, b)
           /\ A(s, b)' <=> A(s, b)
           /\ D(s, b)' <=> D(s, b)
           /\ Passing(s, b)' <=> Passing(s, b)
           /\ Taken(s, b)' <=> Taken(s, b)
           /\ T(s, b)' = T(s, b)
           /\ Waiting(s, b)' <=> Waiting(s, b)
           /\ Places(s, b) => Places(s, b)'
  <1>1. /\ Holds(s, "chan", b)' <=> Holds(s, "chan", b)
        /\ Holds(s, "disp", b)' <=> Holds(s, "disp", b)
        /\ Holds(s, "proc", b)' <=> Holds(s, "proc", b)
        /\ Holds(s, "app", b)' <=> Holds(s, "app", b)
        /\ PollAt(s, b, {"chan"})' <=> PollAt(s, b, {"chan"})
        /\ PollAt(s, b, {"count", "ref"})' <=> PollAt(s, b, {"count", "ref"})
        /\ PollAt(s, b, {"chan", "node"})' <=> PollAt(s, b, {"chan", "node"})
    BY DEF Unmoved, Returners
  <1>2. Passing(s, b)' <=> Passing(s, b)
    BY DEF Passing, Unmoved
  <1>3. /\ C(s, b)' <=> C(s, b)
        /\ P(s, b)' <=> P(s, b)
        /\ A(s, b)' <=> A(s, b)
        /\ D(s, b)' <=> D(s, b)
        /\ Waiting(s, b)' <=> Waiting(s, b)
    BY <1>1, <1>2 DEF C, P, A, D, Waiting, Unmoved
  <1>4. /\ Taken(s, b)' <=> Taken(s, b)
        /\ T(s, b)' = T(s, b)
    BY <1>3 DEF Taken, T, One
  <1>5. ASSUME Places(s, b)
        PROVE  Places(s, b)'
    <2>1. \A v, w \in Returners : (Passes(s, v, b) /\ Passes(s, w, b) => v = w)'
      BY <1>5 DEF Places, Unmoved
    <2> QED
      BY <1>1, <1>2, <1>5, <2>1
         DEF Places, Unmoved, Apart2, Apart3, Apart4, Apart5
  <1> QED
    BY <1>2, <1>3, <1>4, <1>5

LEMMA UnmovedBook ==
    ASSUME NEW s, NEW b, Unmoved(s, b), Places(s, b), Book(s, b),
           refcnt'[s][b] = refcnt[s][b], b \in gone'[s] <=> b \in gone[s]
    PROVE  Places(s, b)' /\ Book(s, b)'
  BY UnmovedPlaces DEF Book

Untouched(t) ==
    /\ state'[t] = state[t] /\ refcnt'[t] = refcnt[t] /\ queued'[t] = queued[t]
    /\ driver'[t] = driver[t] /\ (t \in streaming' <=> t \in streaming)
    /\ (t \in alive' <=> t \in alive)
    /\ nodes'[t] = nodes[t] /\ disp'[t] = disp[t]
    /\ (t \in halOpen' <=> t \in halOpen) /\ halQ'[t] = halQ[t]
    /\ proc'[t] = proc[t] /\ app'[t] = app[t] /\ chan'[t] = chan[t]
    /\ ret'[t] = ret[t] /\ gone'[t] = gone[t]
    /\ (poll'.stream = t <=> poll.stream = t)
    /\ poll.stream = t => poll'.buf = poll.buf /\ poll'.at = poll.at

LEMMA UntouchedUnmoved ==
    ASSUME NEW t, Untouched(t)
    PROVE  /\ \A b : Unmoved(t, b)
           /\ \A b : In(t, b)' <=> In(t, b)
           /\ Still(t)' <=> Still(t)
  <1>1. \A b : \A w \in Returners :
          /\ Holds(t, w, b)' <=> Holds(t, w, b)
          /\ Passes(t, w, b)' <=> Passes(t, w, b)
    BY DEF Untouched, Holds, Passes
  <1>2. \A b : AtQueue(t, b)' <=> AtQueue(t, b)
    BY DEF Untouched, AtQueue
  <1>3. \A b, at : PollAt(t, b, at)' <=> PollAt(t, b, at)
    BY DEF Untouched, PollAt
  <1>4. \A b : Unmoved(t, b)
    BY <1>1, <1>3 DEF Unmoved, Untouched
  <1>5. \A b : In(t, b)' <=> In(t, b)
    BY <1>2, <1>3, <1>4, UnmovedPlaces DEF In, Untouched
  <1>6. Still(t)' <=> Still(t)
    BY DEF Still, Idle, Untouched
  <1> QED
    BY <1>4, <1>5, <1>6

LEMMA UntouchedInv ==
    ASSUME NEW t, Untouched(t), StreamInv(t)
    PROVE  StreamInv(t)'
  <1>1. ASSUME NEW b \in Bufs, Places(t, b), Book(t, b)
        PROVE  Places(t, b)' /\ Book(t, b)'
    BY <1>1, UntouchedUnmoved, UnmovedBook DEF Untouched
  <1>2. Books(t) => Books(t)'
    <2>1. Counted(t)' = Counted(t)
      BY UntouchedUnmoved DEF Counted
    <2> QED
      BY <1>1, <2>1 DEF Books, Untouched
  <1>3. Dead(t) => Dead(t)'
    <2>1. \A b : Decs(t, b)' = Decs(t, b)
      BY DEF Decs, One, Untouched
    <2>2. \A step : AtStep(t, step)' = AtStep(t, step)
      BY DEF AtStep, One, Untouched
    <2> QED
      BY <2>1, <2>2, UntouchedUnmoved DEF Dead, Untouched
  <1>4. Whole(t) => Whole(t)'
    BY UntouchedUnmoved, UnmovedPlaces DEF Whole, Untouched
  <1>5. Lined(t) => Lined(t)'
    BY UntouchedUnmoved DEF Lined, Idle, Untouched
  <1>6. Live(t)' <=> Live(t)
    BY DEF Live, Untouched
  <1> QED
    BY <1>2, <1>3, <1>4, <1>5, <1>6 DEF StreamInv, Untouched

LEMMA TakenFacts ==
    ASSUME NEW s, NEW b
    PROVE  /\ T(s, b) \in 0..3 /\ T(s, b)' \in 0..3
           /\ Taken(s, b) <=> T(s, b) # 0
           /\ Taken(s, b)' <=> T(s, b)' # 0
  BY DEF T, One, Taken

(* The number of buffers queued_buffer_count should count, when one of them
   moves. *)
LEMMA CountedFacts ==
    ASSUME NEW s
    PROVE  /\ IsFiniteSet(Counted(s)) /\ IsFiniteSet(Counted(s)')
           /\ Cardinality(Counted(s)) \in 0..Cardinality(Bufs)
           /\ Cardinality(Counted(s)') \in 0..Cardinality(Bufs)
           /\ Cardinality(Counted(s)) \in Nat /\ Cardinality(Counted(s)') \in Nat
  <1>1. Counted(s) \subseteq Bufs /\ Counted(s)' \subseteq Bufs
    BY DEF Counted
  <1> QED
    BY <1>1, FS_Subset, FS_CardinalityType, BufsAssumption

LEMMA CountedMove ==
    ASSUME NEW s, NEW c \in Bufs,
           \A b \in Bufs \ {c} : In(s, b)' <=> In(s, b)
    PROVE  Cardinality(Counted(s)')
             = IF In(s, c)' THEN IF In(s, c) THEN Cardinality(Counted(s))
                                             ELSE Cardinality(Counted(s)) + 1
                            ELSE IF In(s, c) THEN Cardinality(Counted(s)) - 1
                                             ELSE Cardinality(Counted(s))
  <1>1. CASE In(s, c)' <=> In(s, c)
    <2>1. Counted(s)' = Counted(s)
      BY <1>1 DEF Counted
    <2> QED
      BY <1>1, <2>1
  <1>2. CASE In(s, c)' /\ ~ In(s, c)
    <2>1. Counted(s)' = Counted(s) \cup {c} /\ c \notin Counted(s)
      BY <1>2 DEF Counted
    <2> QED
      BY <1>2, <2>1, CountedFacts, FS_AddElement
  <1>3. CASE ~ In(s, c)' /\ In(s, c)
    <2>1. Counted(s)' = Counted(s) \ {c} /\ c \in Counted(s)
      BY <1>3 DEF Counted
    <2> QED
      BY <1>3, <2>1, CountedFacts, FS_RemoveElement
  <1> QED
    BY <1>1, <1>2, <1>3

-----------------------------------------------------------------------------
(* mm_stream_buf_done *)

LEMMA ReturnOthers ==
    ASSUME TypeOK, NEW s \in Streams, NEW w \in Returners, Return(s, w),
           NEW t \in Streams \ {s}
    PROVE  Untouched(t)
  <1>1. /\ refcnt \in [Streams -> [Bufs -> 0..255]] /\ ret \in RetType
        /\ driver \in [Streams -> [empty : SUBSET Bufs, frames : Seq(Bufs)]]
        /\ queued \in [Streams -> 0..Cardinality(Bufs)]
        /\ gone \in [Streams -> SUBSET Bufs]
    BY DEF TypeOK, RetType
  <1>2. ret'[t] = ret[t]
    BY <1>1 DEF Return, BufDoneCheck, BufDoneDec, QbufCount, QbufIoctl, QbufFails,
                Go, Finish, RetType
  <1>3. /\ refcnt'[t] = refcnt[t] /\ queued'[t] = queued[t]
        /\ driver'[t] = driver[t] /\ gone'[t] = gone[t]
    BY <1>1 DEF Return, BufDoneCheck, BufDoneDec, QbufCount, QbufIoctl, QbufFails,
                libVars, drvVars
  <1>4. UNCHANGED <<state, streaming, alive, nodes, disp, halOpen, halQ, proc, app,
                    chan, poll>>
    BY DEF Return, BufDoneCheck, BufDoneDec, QbufCount, QbufIoctl, QbufFails,
           libVars, drvVars, cbVars, halVars, pollVars
  <1> QED
    BY <1>2, <1>3, <1>4 DEF Untouched

(* The buffer of a call, and what becomes of the call. *)
LEMMA CallFacts ==
    ASSUME TypeOK, RetInv, NEW s \in Streams, NEW w \in Returners,
           Return(s, w)
    PROVE  /\ ret[s][w].buf \in Bufs /\ ret[s][w].step \in Steps
           /\ ret \in RetType /\ ret' \in RetType
           /\ \A v \in Returners \ {w} : ret'[s][v] = ret[s][v]
           /\ \/ ret'[s][w] = NoReturn
              \/ ret'[s][w].buf = ret[s][w].buf /\ ret'[s][w].step \in Steps
           /\ RetInv'
           /\ \A b \in Bufs \ {ret[s][w].buf}, v \in Returners :
                /\ Holds(s, v, b)' <=> Holds(s, v, b)
                /\ Passes(s, v, b)' <=> Passes(s, v, b)
                /\ AtQueue(s, b)' <=> AtQueue(s, b)
  <1>1. ret \in RetType /\ ret[s][w].step \in Steps
    BY DEF TypeOK, RetType, Return, BufDoneCheck, BufDoneDec, QbufCount, QbufIoctl,
           QbufFails, Steps
  <1>2. ret[s][w].buf \in Bufs
    BY <1>1 DEF RetInv, RetType, Steps, None
  <1>3. \/ Finish(s, w)
        \/ \E k \in Steps : Go(s, w, k)
    BY DEF Return, BufDoneCheck, BufDoneDec, QbufCount, QbufIoctl, QbufFails, Steps
  <1>4. /\ ret' \in RetType
        /\ \A t \in Streams, v \in Returners : t # s \/ v # w => ret'[t][v] = ret[t][v]
        /\ \/ ret'[s][w].step = None /\ ret'[s][w].buf = None
           \/ ret'[s][w].step \in Steps /\ ret'[s][w].buf = ret[s][w].buf
    BY <1>1, <1>3, GoFacts, FinishFacts
  <1>5. ret'[s][w].step = None /\ ret'[s][w].buf = None => ret'[s][w] = NoReturn
    BY <1>4 DEF RetType, NoReturn
  <1>6. ctl' = ctl
    BY DEF Return, BufDoneCheck, BufDoneDec, QbufCount, QbufIoctl, QbufFails
  <1>7. RetInv'
    <2>1. ASSUME NEW t \in Streams, NEW v \in Returners
          PROVE  /\ ret'[t][v].step = None <=> ret'[t][v].buf = None
                 /\ v = "app" /\ ctl.at # "up" => ret'[t][v].step = None
      <3>1. CASE t # s \/ v # w
        BY <1>4, <3>1 DEF RetInv
      <3>2. CASE t = s /\ v = w
        BY <1>1, <1>2, <1>4, <3>2, BufsAssumption DEF RetInv, Steps, None
      <3> QED
        BY <3>1, <3>2
    <2> QED
      BY <1>6, <2>1 DEF RetInv
  <1>8. \A b \in Bufs \ {ret[s][w].buf}, v \in Returners :
          /\ ret'[s][v].buf = b <=> ret[s][v].buf = b
          /\ ret[s][v].buf = b => ret'[s][v] = ret[s][v]
    BY <1>4, BufsAssumption
  <1>9. \A b \in Bufs \ {ret[s][w].buf}, v \in Returners :
          /\ Holds(s, v, b)' <=> Holds(s, v, b)
          /\ Passes(s, v, b)' <=> Passes(s, v, b)
    BY <1>8 DEF Holds, Passes
  <1>10. \A b \in Bufs \ {ret[s][w].buf} : AtQueue(s, b)' <=> AtQueue(s, b)
    BY <1>8 DEF AtQueue
  <1> QED
    BY <1>1, <1>2, <1>4, <1>5, <1>7, <1>9, <1>10

(* Every other buffer of the stream stays where it is. *)
LEMMA ReturnUnmoved ==
    ASSUME TypeOK, RetInv, NEW s \in Streams, NEW w \in Returners, Return(s, w),
           NEW b \in Bufs \ {ret[s][w].buf}
    PROVE  /\ Unmoved(s, b) /\ (In(s, b)' <=> In(s, b))
           /\ refcnt'[s][b] = refcnt[s][b] /\ (b \in gone'[s] <=> b \in gone[s])
  <1>1. /\ refcnt \in [Streams -> [Bufs -> 0..255]]
        /\ driver \in [Streams -> [empty : SUBSET Bufs, frames : Seq(Bufs)]]
        /\ gone \in [Streams -> SUBSET Bufs]
    BY DEF TypeOK
  <1>2. refcnt'[s][b] = refcnt[s][b]
    BY <1>1 DEF Return, BufDoneCheck, BufDoneDec, QbufCount, QbufIoctl, QbufFails,
                libVars
  <1>3. /\ b \in driver'[s].empty <=> b \in driver[s].empty
        /\ driver'[s].frames = driver[s].frames
    BY <1>1 DEF Return, BufDoneCheck, BufDoneDec, QbufCount, QbufIoctl, QbufFails,
                drvVars
  <1>4. b \in gone'[s] <=> b \in gone[s]
    BY <1>1 DEF Return, BufDoneCheck, BufDoneDec, QbufCount, QbufIoctl, QbufFails
  <1>5. UNCHANGED <<nodes, disp, halQ, app, chan, poll>>
    BY DEF Return, BufDoneCheck, BufDoneDec, QbufCount, QbufIoctl, QbufFails,
           cbVars, halVars, pollVars
  <1>6. \A at : PollAt(s, b, at)' <=> PollAt(s, b, at)
    BY <1>5 DEF PollAt
  <1>7. Unmoved(s, b)
    BY <1>3, <1>5, <1>6, CallFacts DEF Unmoved
  <1>8. In(s, b)' <=> In(s, b)
    BY <1>4, <1>6, <1>7, CallFacts, UnmovedPlaces DEF In, Returners
  <1> QED
    BY <1>2, <1>4, <1>7, <1>8

(* What the calls know of the buffer itself. *)
LEMMA CallPlaces ==
    ASSUME TypeOK, RetInv, NEW s \in Streams, NEW w \in Returners, Return(s, w),
           NEW c, c = ret[s][w].buf
    PROVE  /\ Holds(s, w, c) <=> ret[s][w].step \in {"check", "dec"}
           /\ Passes(s, w, c) <=> ret[s][w].step \in {"queue", "ioctl"}
           /\ Holds(s, w, c)' <=> ret'[s][w].step \in {"check", "dec"}
           /\ Passes(s, w, c)' <=> ret'[s][w].step \in {"queue", "ioctl"}
           /\ \A v \in Returners \ {w} : /\ Holds(s, v, c)' <=> Holds(s, v, c)
                                         /\ Passes(s, v, c)' <=> Passes(s, v, c)
           /\ \A b, at : PollAt(s, b, at)' <=> PollAt(s, b, at)
           /\ UNCHANGED <<nodes, disp, halQ, app, chan, poll, state>>
  <1>1. UNCHANGED <<nodes, disp, halQ, app, chan, poll, state>>
    BY DEF Return, BufDoneCheck, BufDoneDec, QbufCount, QbufIoctl, QbufFails,
           cbVars, halVars, pollVars, libVars
  <1>2. \A v \in Returners \ {w} : /\ Holds(s, v, c)' <=> Holds(s, v, c)
                                   /\ Passes(s, v, c)' <=> Passes(s, v, c)
    BY CallFacts DEF Holds, Passes
  <1>3. /\ Holds(s, w, c)' <=> ret'[s][w].step \in {"check", "dec"}
        /\ Passes(s, w, c)' <=> ret'[s][w].step \in {"queue", "ioctl"}
    BY CallFacts DEF Holds, Passes, Steps, NoReturn, None
  <1>4. \A b, at : PollAt(s, b, at)' <=> PollAt(s, b, at)
    BY <1>1 DEF PollAt
  <1> QED
    BY <1>1, <1>2, <1>3, <1>4 DEF Holds, Passes

LEMMA CheckBook ==
    ASSUME IInv, NEW s \in Streams, NEW w \in Returners, BufDoneCheck(s, w),
           Live(s), NEW c, c = ret[s][w].buf
    PROVE  /\ Places(s, c)' /\ Book(s, c)' /\ (In(s, c)' <=> In(s, c))
           /\ D(s, c)' \/ Taken(s, c)'
  <1>1. /\ Return(s, w) /\ TypeOK /\ RetInv /\ StreamInv(s) /\ Phase
        /\ ret[s][w].step = "check"
    BY DEF Return, IInv, BufDoneCheck
  <1>2. c \in Bufs /\ Places(s, c) /\ Book(s, c) /\ Books(s)
    BY <1>1, CallFacts DEF StreamInv, Books
  <1>3. Holds(s, w, c)
    BY <1>1, CallPlaces
  <1>4. Taken(s, c)
    BY <1>3 DEF Taken, C, P, A, Returners
  <1>5. refcnt[s][c] # 0
    <2>1. T(s, c) \in 0..3 /\ T(s, c) # 0
      BY <1>4, TakenFacts
    <2>2. refcnt[s][c] = T(s, c) \/ refcnt[s][c] = T(s, c) + 1
      BY <1>2, <1>4 DEF Book
    <2> QED
      BY <2>1, <2>2
  <1>6. state[s] = "ACTIVE"
    <2>1. CASE w = "app"
      <3>1. ctl.at = "up"
        BY <1>1, <2>1 DEF RetInv, None
      <3> QED
        BY <1>1, <3>1 DEF Phase
    <2>2. CASE w # "app"
      BY <1>1, <2>2 DEF StreamInv, Lined, Live, Still, Idle, Returners, None
    <2> QED
      BY <2>1, <2>2
  <1>7. Go(s, w, "dec") /\ refcnt' = refcnt /\ driver' = driver /\ gone' = gone
    BY <1>5, <1>6 DEF BufDoneCheck, Accepts, libVars, drvVars
  <1>8. ret'[s][w].step = "dec"
    BY <1>1, <1>7, CallFacts, GoFacts DEF Steps
  <1>9. /\ \A v \in Returners : /\ Holds(s, v, c)' <=> Holds(s, v, c)
                                /\ Passes(s, v, c)' <=> Passes(s, v, c)
        /\ \A v \in Returners : ~ (ret[s][v].step = "queue" /\ ret[s][v].buf = c)
                                => ~ (ret'[s][v].step = "queue" /\ ret'[s][v].buf = c)
        /\ \A v \in Returners : ~ (ret'[s][v].step = "queue" /\ ret'[s][v].buf = c)
                                => ~ (ret[s][v].step = "queue" /\ ret[s][v].buf = c)
    BY <1>1, <1>8, CallPlaces, CallFacts
  <1>10. Unmoved(s, c)
    BY <1>1, <1>7, <1>9, CallPlaces DEF Unmoved
  <1>11. Places(s, c)' /\ Book(s, c)'
    BY <1>2, <1>7, <1>10, UnmovedBook
  <1>12. AtQueue(s, c)' <=> AtQueue(s, c)
    BY <1>9 DEF AtQueue
  <1> QED
    BY <1>1, <1>4, <1>7, <1>10, <1>11, <1>12, UnmovedPlaces, CallPlaces DEF In

LEMMA DecBook ==
    ASSUME IInv, NEW s \in Streams, NEW w \in Returners, BufDoneDec(s, w),
           Live(s), NEW c, c = ret[s][w].buf
    PROVE  /\ Places(s, c)' /\ Book(s, c)' /\ (In(s, c)' <=> In(s, c))
           /\ D(s, c)' \/ Taken(s, c)' \/ c \in gone'[s]
  <1>1. /\ Return(s, w) /\ TypeOK /\ RetInv /\ StreamInv(s)
        /\ ret[s][w].step = "dec"
    BY DEF Return, IInv, BufDoneDec
  <1>0. refcnt \in [Streams -> [Bufs -> 0..255]] /\ ret \in RetType
    BY <1>1 DEF TypeOK, RetType
  <1>2. c \in Bufs /\ Places(s, c) /\ Book(s, c) /\ refcnt[s][c] \in 0..255
    <2>1. c \in Bufs
      BY <1>1, CallFacts
    <2>2. Places(s, c) /\ Book(s, c)
      BY <1>1, <2>1 DEF StreamInv, Books
    <2>3. refcnt[s][c] \in 0..255
      BY <1>0, <2>1
    <2> QED
      BY <2>1, <2>2, <2>3
  <1>3. /\ Holds(s, w, c) /\ ~ Passes(s, w, c)
    BY <1>1, CallPlaces
  <1>4. Taken(s, c) /\ ~ D(s, c)
    <2>1. Taken(s, c)
      BY <1>3 DEF Taken, C, P, A, Returners
    <2> QED
      BY <1>2, <2>1 DEF Book
  <1>5. refcnt[s][c] # 0
    <2> DEFINE n == refcnt[s][c]
               k == T(s, c)
    <2>1. k \in 0..3 /\ k # 0
      BY <1>4, TakenFacts
    <2>2. Book(s, c) => n = k \/ n = k + 1 \/ ~ Taken(s, c)
      BY DEF Book
    <2>3. n = k \/ n = k + 1
      BY <1>2, <1>4, <2>2
    <2> HIDE DEF n, k
    <2>4. n # 0
      BY <2>1, <2>3
    <2> QED
      BY <2>4 DEF n
  <1>6. /\ refcnt'[s][c] = refcnt[s][c] - 1 /\ refcnt'[s][c] \in 0..255
    <2> DEFINE n == refcnt[s][c]
    <2>1. n \in 0..255 /\ n # 0
      BY <1>2, <1>5
    <2>2. refcnt'[s][c] = Less(n)
      BY <1>0, <1>2 DEF BufDoneDec
    <2> HIDE DEF n
    <2>3. Less(n) = n - 1
      BY <2>1 DEF Less
    <2>4. refcnt'[s][c] = n - 1 /\ n - 1 \in 0..255
      BY <2>1, <2>2, <2>3
    <2> QED
      BY <2>4 DEF n
  <1>7. driver' = driver /\ gone' = gone
    BY DEF BufDoneDec, drvVars
  <1>8. ret'[s][w].step = IF refcnt'[s][c] = 0 THEN "queue" ELSE None
    <2>1. IF refcnt'[s][c] = 0 THEN Go(s, w, "queue") ELSE Finish(s, w)
      BY DEF BufDoneDec
    <2>2. "queue" \in Steps
      BY DEF Steps
    <2>3. Go(s, w, "queue") => ret'[s][w].step = "queue"
      BY <1>0, <2>2, GoFacts
    <2>4. Finish(s, w) => ret'[s][w].step = None
      BY <1>0, FinishFacts
    <2> QED
      BY <2>1, <2>3, <2>4
  <1>9. /\ Holds(s, "chan", c)' <=> Holds(s, "chan", c) /\ w # "chan"
        /\ Holds(s, "disp", c)' <=> Holds(s, "disp", c) /\ w # "disp"
        /\ Holds(s, "proc", c)' <=> Holds(s, "proc", c) /\ w # "proc"
        /\ Holds(s, "app", c)' <=> Holds(s, "app", c) /\ w # "app"
        /\ \A v \in Returners : Passes(s, v, c)' <=> Passes(s, v, c) \/ (v = w /\ refcnt'[s][c] = 0)
    BY <1>1, <1>3, <1>8, CallPlaces DEF Returners, None
  <1>10. /\ Passing(s, c)' <=> Passing(s, c) \/ refcnt'[s][c] = 0
    BY <1>9 DEF Passing
  <1>11. UNCHANGED <<nodes, disp, halQ, app, chan>>
    BY <1>1, CallPlaces
  <1>12. /\ PollAt(s, c, {"chan"})' <=> PollAt(s, c, {"chan"})
         /\ PollAt(s, c, {"ref"})' <=> PollAt(s, c, {"ref"})
         /\ PollAt(s, c, {"count", "ref"})' <=> PollAt(s, c, {"count", "ref"})
         /\ PollAt(s, c, {"chan", "node"})' <=> PollAt(s, c, {"chan", "node"})
    BY <1>1, CallPlaces
  <1>13. Places(s, c)'
    <2>1. \A v, u \in Returners : Passes(s, v, c)' /\ Passes(s, u, c)' => v = u
      BY <1>2, <1>4, <1>9 DEF Places, D, Passing
    <2> QED
      BY <1>2, <1>4, <1>7, <1>9, <1>10, <1>11, <1>12, <2>1
         DEF Places, D, Apart2, Apart3, Apart4, Apart5
  <1>14. w \in {"chan", "disp", "proc", "app"}
    BY DEF Returners
  <1>15. /\ T(s, c)' = T(s, c) - 1
         /\ A(s, c)' => A(s, c)
         /\ D(s, c)' <=> refcnt'[s][c] = 0
         /\ Waiting(s, c)' <=> Waiting(s, c)
    <2>1. /\ C(s, c)' <=> C(s, c) /\ w # "chan"
          /\ P(s, c)' <=> P(s, c) /\ w # "disp"
          /\ A(s, c)' <=> A(s, c) /\ w \notin {"proc", "app"}
          /\ w = "chan" => C(s, c)
          /\ w = "disp" => P(s, c)
          /\ w \in {"proc", "app"} => A(s, c)
      BY <1>2, <1>3, <1>9, <1>11, <1>12, <1>14
         DEF C, P, A, Places, Apart2, Apart3, Apart4, Apart5
    <2> QED
      BY <1>4, <1>7, <1>10, <1>11, <1>12, <1>14, <2>1 DEF D, T, One, Waiting
  <1>16. Book(s, c)'
    <2>1. c \notin gone'[s] => refcnt'[s][c] = T(s, c)'
      BY <1>2, <1>6, <1>7, <1>15 DEF Book
    <2>2. c \in gone'[s] => refcnt'[s][c] = T(s, c)' + 1
      <3>1. c \in gone[s] => refcnt[s][c] = T(s, c) + 1
        BY <1>2, <1>4 DEF Book
      <3>2. T(s, c) \in 0..3 /\ T(s, c)' = T(s, c) - 1
        BY <1>15, TakenFacts
      <3>3. refcnt'[s][c] = refcnt[s][c] - 1 /\ (c \in gone'[s] <=> c \in gone[s])
        BY <1>6, <1>7
      <3>4. c \in gone[s] => refcnt'[s][c] = (T(s, c) - 1) + 1
        BY <3>1, <3>2, <3>3
      <3> QED
        BY <3>2, <3>3, <3>4
    <2>3. D(s, c)' => ~ Taken(s, c)' /\ c \notin gone'[s]
      BY <1>15, <2>1, <2>2, TakenFacts
    <2> QED
      BY <1>2, <1>7, <1>15, <2>1, <2>2, <2>3 DEF Book
  <1>17. D(s, c)' \/ Taken(s, c)' \/ c \in gone'[s]
    BY <1>15, <1>16, TakenFacts DEF Book
  <1>18. In(s, c)' <=> In(s, c)
    <2>1. D(s, c)' => AtQueue(s, c)'
      <3>1. refcnt'[s][c] = 0 => ret'[s][w].step = "queue" /\ ret'[s][w].buf = c
        BY <1>1, <1>8, CallFacts DEF NoReturn, None
      <3> QED
        BY <1>15, <3>1 DEF AtQueue
    <2> QED
      BY <1>4, <1>7, <1>17, <2>1 DEF In
  <1> QED
    BY <1>13, <1>16, <1>17, <1>18

LEMMA CountBook ==
    ASSUME IInv, NEW s \in Streams, NEW w \in Returners, QbufCount(s, w),
           Live(s), NEW c, c = ret[s][w].buf
    PROVE  /\ Places(s, c)' /\ Book(s, c)' /\ In(s, c)' /\ ~ In(s, c)
           /\ D(s, c)'
  <1>1. /\ Return(s, w) /\ TypeOK /\ RetInv /\ StreamInv(s)
        /\ ret[s][w].step = "queue"
    BY DEF Return, IInv, QbufCount
  <1>2. c \in Bufs /\ Places(s, c) /\ Book(s, c) /\ ret \in RetType
    BY <1>1, CallFacts DEF StreamInv, Books
  <1>3. Passes(s, w, c)
    BY <1>1, CallPlaces
  <1>4. D(s, c) /\ ~ Taken(s, c) /\ c \notin gone[s]
    BY <1>2, <1>3 DEF D, Passing, Book
  <1>5. refcnt' = refcnt /\ driver' = driver /\ gone' = gone
    BY DEF QbufCount, drvVars
  <1>6. ret'[s][w].step = "ioctl"
    BY <1>2, GoFacts DEF QbufCount, Steps
  <1>7. \A v \in Returners : /\ Holds(s, v, c)' <=> Holds(s, v, c)
                             /\ Passes(s, v, c)' <=> Passes(s, v, c)
    BY <1>1, <1>6, CallPlaces
  <1>8. Unmoved(s, c)
    BY <1>1, <1>5, <1>7, CallPlaces DEF Unmoved
  <1>9. Places(s, c)' /\ Book(s, c)'
    BY <1>2, <1>5, <1>8, UnmovedBook
  <1>10. ~ AtQueue(s, c)' /\ AtQueue(s, c)
    <2>1. \A v \in Returners \ {w} : ~ Passes(s, v, c)
      BY <1>2, <1>3 DEF Places
    <2>2. \A v \in Returners \ {w} : ~ (ret[s][v].step = "queue" /\ ret[s][v].buf = c)
      BY <2>1 DEF Passes
    <2>3. \A v \in Returners : ~ (ret'[s][v].step = "queue" /\ ret'[s][v].buf = c)
      BY <1>1, <1>6, <2>2, CallFacts
    <2> QED
      BY <1>1, <2>3 DEF AtQueue
  <1>11. ~ PollAt(s, c, {"ref"})'
    <2>1. ~ PollAt(s, c, {"count", "ref"})
      BY <1>2, <1>3 DEF Places, Passing, Apart4, Apart3, Apart2
    <2>2. ~ PollAt(s, c, {"ref"})
      BY <2>1 DEF PollAt
    <2> QED
      BY <1>1, <2>2, CallPlaces
  <1> QED
    BY <1>4, <1>5, <1>8, <1>9, <1>10, <1>11, UnmovedPlaces DEF In

LEMMA IoctlBook ==
    ASSUME IInv, NEW s \in Streams, NEW w \in Returners, QbufIoctl(s, w),
           Live(s), NEW c, c = ret[s][w].buf
    PROVE  /\ Places(s, c)' /\ Book(s, c)' /\ (In(s, c)' <=> In(s, c))
           /\ D(s, c)'
  <1>1. /\ Return(s, w) /\ TypeOK /\ RetInv /\ StreamInv(s)
        /\ ret[s][w].step = "ioctl"
    BY DEF Return, IInv, QbufIoctl
  <1>2. /\ c \in Bufs /\ Places(s, c) /\ Book(s, c) /\ ret \in RetType
    BY <1>1, CallFacts DEF StreamInv, Books
  <1>3. Passes(s, w, c)
    BY <1>1, CallPlaces
  <1>4. D(s, c) /\ ~ Taken(s, c) /\ c \notin gone[s]
    BY <1>2, <1>3 DEF D, Passing, Book
  <1>5. refcnt' = refcnt /\ gone' = gone
    BY DEF QbufIoctl, libVars
  <1>6. c \in driver'[s].empty /\ driver'[s].frames = driver[s].frames
    <2>1. driver \in [Streams -> [empty : SUBSET Bufs, frames : Seq(Bufs)]]
      BY <1>1 DEF TypeOK
    <2> QED
      BY <2>1 DEF QbufIoctl
  <1>7. ret'[s][w].step = None /\ ret'[s][w].buf = None
    BY <1>2, FinishFacts DEF QbufIoctl
  <1>8. /\ \A v \in Returners : Holds(s, v, c)' <=> Holds(s, v, c)
        /\ \A v \in Returners : ~ Passes(s, v, c)'
    <2>1. \A v \in Returners \ {w} : ~ Passes(s, v, c)
      BY <1>2, <1>3 DEF Places
    <2> QED
      BY <1>1, <1>7, <2>1, CallPlaces DEF None
  <1>9. /\ Holds(s, "chan", c)' <=> Holds(s, "chan", c)
        /\ Holds(s, "disp", c)' <=> Holds(s, "disp", c)
        /\ Holds(s, "proc", c)' <=> Holds(s, "proc", c)
        /\ Holds(s, "app", c)' <=> Holds(s, "app", c)
        /\ ~ Passing(s, c)' /\ Passing(s, c)
    BY <1>3, <1>8 DEF Passing, Returners
  <1>10. UNCHANGED <<nodes, disp, halQ, app, chan>>
    BY <1>1, CallPlaces
  <1>11. /\ PollAt(s, c, {"chan"})' <=> PollAt(s, c, {"chan"})
         /\ PollAt(s, c, {"ref"})' <=> PollAt(s, c, {"ref"})
         /\ PollAt(s, c, {"count", "ref"})' <=> PollAt(s, c, {"count", "ref"})
         /\ PollAt(s, c, {"chan", "node"})' <=> PollAt(s, c, {"chan", "node"})
    BY <1>1, CallPlaces
  <1>12. Places(s, c)'
    BY <1>2, <1>6, <1>8, <1>9, <1>10, <1>11
       DEF Places, Apart2, Apart3, Apart4, Apart5
  <1>13. /\ C(s, c)' <=> C(s, c)
         /\ P(s, c)' <=> P(s, c)
         /\ A(s, c)' <=> A(s, c)
         /\ D(s, c)'
         /\ Waiting(s, c)' <=> Waiting(s, c)
    BY <1>6, <1>9, <1>10, <1>11 DEF C, P, A, D, Waiting
  <1>14. (Taken(s, c)' <=> Taken(s, c)) /\ T(s, c)' = T(s, c)
    BY <1>13 DEF Taken, T, One
  <1>15. Book(s, c)'
    BY <1>2, <1>4, <1>5, <1>13, <1>14 DEF Book
  <1>16. AtQueue(s, c)' <=> AtQueue(s, c)
    <2>1. ~ AtQueue(s, c)'
      BY <1>8 DEF AtQueue, Passes
    <2>2. ~ AtQueue(s, c)
      <3>1. \A v \in Returners \ {w} : ~ Passes(s, v, c)
        BY <1>2, <1>3 DEF Places
      <3> QED
        BY <1>1, <3>1 DEF AtQueue, Passes
    <2> QED
      BY <2>1, <2>2
  <1> QED
    BY <1>5, <1>11, <1>12, <1>13, <1>14, <1>15, <1>16 DEF In

LEMMA FailsBook ==
    ASSUME IInv, NEW s \in Streams, NEW w \in Returners, QbufFails(s, w),
           Live(s), NEW c, c = ret[s][w].buf
    PROVE  /\ Places(s, c)' /\ Book(s, c)' /\ ~ In(s, c)' /\ In(s, c)
           /\ c \in gone'[s]
  <1>1. /\ Return(s, w) /\ TypeOK /\ RetInv /\ StreamInv(s)
        /\ ret[s][w].step = "ioctl"
    BY DEF Return, IInv, QbufFails
  <1>2. /\ c \in Bufs /\ Places(s, c) /\ Book(s, c) /\ ret \in RetType
    BY <1>1, CallFacts DEF StreamInv, Books
  <1>3. Passes(s, w, c)
    BY <1>1, CallPlaces
  <1>4. D(s, c) /\ ~ Taken(s, c) /\ c \notin gone[s]
    BY <1>2, <1>3 DEF D, Passing, Book
  <1>5. refcnt' = refcnt /\ driver' = driver
    BY DEF QbufFails, drvVars
  <1>6. c \in gone'[s]
    <2>1. gone \in [Streams -> SUBSET Bufs]
      BY <1>1 DEF TypeOK
    <2> QED
      BY <2>1 DEF QbufFails
  <1>7. ret'[s][w].step = None /\ ret'[s][w].buf = None
    BY <1>2, FinishFacts DEF QbufFails
  <1>8. /\ \A v \in Returners : Holds(s, v, c)' <=> Holds(s, v, c)
        /\ \A v \in Returners : ~ Passes(s, v, c)'
    <2>1. \A v \in Returners \ {w} : ~ Passes(s, v, c)
      BY <1>2, <1>3 DEF Places
    <2> QED
      BY <1>1, <1>7, <2>1, CallPlaces DEF None
  <1>9. /\ Holds(s, "chan", c)' <=> Holds(s, "chan", c)
        /\ Holds(s, "disp", c)' <=> Holds(s, "disp", c)
        /\ Holds(s, "proc", c)' <=> Holds(s, "proc", c)
        /\ Holds(s, "app", c)' <=> Holds(s, "app", c)
        /\ ~ Passing(s, c)' /\ Passing(s, c)
    BY <1>3, <1>8 DEF Passing, Returners
  <1>10. UNCHANGED <<nodes, disp, halQ, app, chan>>
    BY <1>1, CallPlaces
  <1>11. /\ PollAt(s, c, {"chan"})' <=> PollAt(s, c, {"chan"})
         /\ PollAt(s, c, {"count", "ref"})' <=> PollAt(s, c, {"count", "ref"})
         /\ PollAt(s, c, {"chan", "node"})' <=> PollAt(s, c, {"chan", "node"})
    BY <1>1, CallPlaces
  <1>12. Places(s, c)'
    BY <1>2, <1>5, <1>8, <1>9, <1>10, <1>11
       DEF Places, Apart2, Apart3, Apart4, Apart5
  <1>13. ~ D(s, c)' /\ ~ Waiting(s, c)' /\ ~ Taken(s, c)' /\ ~ A(s, c)'
    <2>1. ~ Waiting(s, c)
      BY <1>4 DEF Waiting, Taken, P
    <2> QED
      BY <1>2, <1>4, <1>5, <1>9, <1>10, <1>11, <2>1
         DEF C, P, A, D, Taken, Waiting, Places, Apart2, Apart3, Apart4
  <1>14. Book(s, c)'
    <2>1. refcnt[s][c] = 0
      BY <1>2, <1>4, TakenFacts DEF Book
    <2> QED
      BY <1>5, <1>6, <1>13, <2>1 DEF Book
  <1>15. ~ AtQueue(s, c) /\ ~ PollAt(s, c, {"ref"})
    <2>1. \A v \in Returners \ {w} : ~ Passes(s, v, c)
      BY <1>2, <1>3 DEF Places
    <2>2. ~ AtQueue(s, c)
      BY <1>1, <2>1 DEF AtQueue, Passes
    <2>3. ~ PollAt(s, c, {"count", "ref"})
      BY <1>2, <1>9 DEF Places, Apart4, Apart3, Apart2
    <2> QED
      BY <2>2, <2>3 DEF PollAt
  <1> QED
    BY <1>4, <1>6, <1>12, <1>13, <1>14, <1>15 DEF In

LEMMA ReturnBooks ==
    ASSUME IInv, NEW s \in Streams, NEW w \in Returners, Return(s, w), Live(s)
    PROVE  Books(s)' /\ (Whole(s) => Whole(s)')
  <1>1. PICK c : c = ret[s][w].buf
    OBVIOUS
  <1>2. /\ TypeOK /\ RetInv /\ Books(s) /\ c \in Bufs
    BY <1>1, CallFacts DEF IInv, StreamInv
  <1>3. ASSUME NEW b \in Bufs \ {c}
        PROVE  /\ Places(s, b)' /\ Book(s, b)' /\ (In(s, b)' <=> In(s, b))
               /\ (D(s, b)' <=> D(s, b)) /\ (Taken(s, b)' <=> Taken(s, b))
               /\ (b \in gone'[s] <=> b \in gone[s])
    <2>1. /\ Unmoved(s, b) /\ (In(s, b)' <=> In(s, b))
          /\ refcnt'[s][b] = refcnt[s][b] /\ (b \in gone'[s] <=> b \in gone[s])
      BY <1>1, <1>2, ReturnUnmoved
    <2>2. Places(s, b) /\ Book(s, b)
      BY <1>2 DEF Books
    <2>3. Places(s, b)' /\ Book(s, b)'
      BY <2>1, <2>2, UnmovedBook
    <2>4. (D(s, b)' <=> D(s, b)) /\ (Taken(s, b)' <=> Taken(s, b))
      BY <2>1, UnmovedPlaces
    <2> QED
      BY <2>1, <2>3, <2>4
  <1>4. /\ Places(s, c)' /\ Book(s, c)'
        /\ D(s, c)' \/ Taken(s, c)' \/ c \in gone'[s]
        /\ queued'[s] = queued[s] + (IF In(s, c)' THEN 1 ELSE 0)
                                  - (IF In(s, c) THEN 1 ELSE 0)
    <2>1. queued \in [Streams -> 0..Cardinality(Bufs)] /\ queued[s] \in Nat
      BY <1>2, TypeFacts DEF TypeOK
    <2>2. CASE BufDoneCheck(s, w)
      BY <1>1, <2>1, <2>2, CheckBook DEF BufDoneCheck, libVars
    <2>3. CASE BufDoneDec(s, w)
      <3>1. queued' = queued
        BY <2>3 DEF BufDoneDec
      <3>2. /\ Places(s, c)' /\ Book(s, c)' /\ (In(s, c)' <=> In(s, c))
            /\ D(s, c)' \/ Taken(s, c)' \/ c \in gone'[s]
        BY <1>1, <2>3, DecBook
      <3> QED
        BY <2>1, <3>1, <3>2
    <2>4. CASE QbufCount(s, w)
      <3>1. queued'[s] = queued[s] + 1
        BY <2>1, <2>4 DEF QbufCount
      <3> QED
        BY <1>1, <2>1, <2>4, <3>1, CountBook
    <2>5. CASE QbufIoctl(s, w)
      <3>1. queued' = queued
        BY <2>5 DEF QbufIoctl, libVars
      <3>2. /\ Places(s, c)' /\ Book(s, c)' /\ (In(s, c)' <=> In(s, c))
            /\ D(s, c)'
        BY <1>1, <2>5, IoctlBook
      <3> QED
        BY <2>1, <3>1, <3>2
    <2>6. CASE QbufFails(s, w)
      <3>1. queued'[s] = queued[s] - 1
        BY <2>1, <2>6 DEF QbufFails
      <3> QED
        BY <1>1, <2>1, <2>6, <3>1, FailsBook
    <2> QED
      BY <2>2, <2>3, <2>4, <2>5, <2>6 DEF Return
  <1>5. \A b \in Bufs : Places(s, b)' /\ Book(s, b)'
    BY <1>3, <1>4
  <1>6. (Once(driver[s].frames) /\ Once(nodes[s]) /\ Once(halQ[s]))'
    <2>1. driver \in [Streams -> [empty : SUBSET Bufs, frames : Seq(Bufs)]]
      BY <1>2 DEF TypeOK
    <2>2. driver'[s].frames = driver[s].frames
      BY <2>1 DEF Return, BufDoneCheck, BufDoneDec, QbufCount, QbufIoctl, QbufFails,
                  drvVars
    <2> QED
      BY <1>2, <2>2, CallPlaces DEF Books
  <1>7. queued'[s] = Cardinality(Counted(s)')
    <2>1. \A b \in Bufs \ {c} : In(s, b)' <=> In(s, b)
      BY <1>3
    <2> QED
      BY <1>2, <1>4, <2>1, CountedMove, CountedFacts DEF Books
  <1>8. Whole(s) => Whole(s)'
    BY <1>3, <1>4 DEF Whole
  <1> QED
    BY <1>5, <1>6, <1>7, <1>8 DEF Books

LEMMA ReturnDead ==
    ASSUME IInv, NEW s \in Streams, NEW w \in Returners, Return(s, w), ~ Live(s)
    PROVE  Dead(s)' /\ driver'[s] = driver[s] /\ driver[s].empty = {}
           /\ queued'[s] \in 0..Cardinality(Bufs)
  <1>1. PICK c : c = ret[s][w].buf
    OBVIOUS
  <1>2. /\ TypeOK /\ RetInv /\ Dead(s) /\ Lined(s) /\ Phase
        /\ c \in Bufs /\ ret[s][w].step \in Steps /\ ret \in RetType
        /\ ret'[s][w] = NoReturn \/ (ret'[s][w].buf = c /\ ret'[s][w].step \in Steps)
    <2>1. TypeOK /\ RetInv /\ Dead(s) /\ Lined(s) /\ Phase
      BY DEF IInv, StreamInv
    <2> QED
      BY <1>1, <2>1, CallFacts
  <1>3. /\ refcnt \in [Streams -> [Bufs -> 0..255]]
        /\ driver \in [Streams -> [empty : SUBSET Bufs, frames : Seq(Bufs)]]
        /\ queued \in [Streams -> 0..Cardinality(Bufs)]
        /\ gone \in [Streams -> SUBSET Bufs] /\ Cardinality(Bufs) \in Nat
    BY <1>2, FS_CardinalityType, BufsAssumption DEF TypeOK
  <1>4. state[s] # "ACTIVE" /\ state[s] # "REG"
    BY DEF Live
  <1>5. w \in {"chan", "proc"}
    <2>1. w # "disp"
      BY <1>2, <1>4 DEF Lined, Idle, Steps, None
    <2>2. w # "app"
      <3>1. ctl.at # "up"
        BY <1>2, <1>4 DEF Phase
      <3> QED
        BY <1>2, <3>1 DEF RetInv, Steps, None
    <2> QED
      BY <2>1, <2>2 DEF Returners
  <1>6. driver[s].empty = {}
    BY <1>2, <1>5 DEF Dead, Still, Idle, Steps, None
  <1>7. \A v \in Returners \ {w} : ret'[s][v] = ret[s][v]
    BY <1>2, CallFacts
  <1>8. queued[s] \in Nat /\ queued[s] <= Cardinality(Bufs)
        /\ AtStep(s, "ioctl") <= queued[s]
        /\ queued[s] + AtStep(s, "queue") <= Cardinality(Bufs)
    BY <1>2, <1>3 DEF Dead
  <1>9. ~ QbufIoctl(s, w)
    BY <1>4 DEF QbufIoctl
  <1>10. driver' = driver
    BY <1>9 DEF Return, BufDoneCheck, BufDoneDec, QbufCount, QbufFails, drvVars
  <1>11. CASE BufDoneCheck(s, w)
    <2>1. Finish(s, w) /\ refcnt' = refcnt /\ queued' = queued
      BY <1>4, <1>5, <1>11 DEF BufDoneCheck, Accepts, libVars
    <2>2. ret'[s][w].step = None /\ ret[s][w].step = "check"
      BY <1>2, <1>11, <2>1, FinishFacts DEF BufDoneCheck
    <2>3. /\ AtStep(s, "ioctl")' = AtStep(s, "ioctl")
          /\ AtStep(s, "queue")' = AtStep(s, "queue")
          /\ \A b : Decs(s, b)' = Decs(s, b)
      BY <1>5, <1>7, <2>2 DEF AtStep, Decs, One, None, Returners
    <2> QED
      BY <1>2, <1>6, <1>8, <1>10, <2>1, <2>3 DEF Dead
  <1>12. CASE BufDoneDec(s, w)
    <2>1. ret[s][w].step = "dec" /\ queued' = queued
      BY <1>12 DEF BufDoneDec
    <2>2. Decs(s, c) = 1 \/ Decs(s, c) = 2
      BY <1>1, <1>5, <2>1 DEF Decs, One
    <2>3. \/ refcnt[s][c] = 0 /\ refcnt'[s][c] = 255
          \/ refcnt[s][c] = 255 /\ refcnt'[s][c] = 254 /\ Decs(s, c) = 1
      <3>1. refcnt'[s][c] = Less(refcnt[s][c])
        BY <1>1, <1>2, <1>3, <1>12 DEF BufDoneDec
      <3>2. refcnt[s][c] = 0 \/ (refcnt[s][c] = 255 /\ Decs(s, c) = 1)
        <4>1. \/ refcnt[s][c] = 0
              \/ refcnt[s][c] = 255 /\ Decs(s, c) <= 1
              \/ refcnt[s][c] = 254 /\ Decs(s, c) = 0
          BY <1>2 DEF Dead
        <4> QED
          BY <2>2, <4>1
      <3>3. Less(0) = 255 /\ Less(255) = 254
        BY DEF Less
      <3> QED
        BY <3>1, <3>2, <3>3
    <2>4. \A b \in Bufs \ {c} : refcnt'[s][b] = refcnt[s][b]
      BY <1>1, <1>2, <1>3, <1>12 DEF BufDoneDec
    <2>5. ret'[s][w].step = None
      BY <1>1, <1>2, <1>12, <2>3, FinishFacts DEF BufDoneDec
    <2>6. /\ AtStep(s, "ioctl")' = AtStep(s, "ioctl")
          /\ AtStep(s, "queue")' = AtStep(s, "queue")
          /\ Decs(s, c)' = Decs(s, c) - 1
          /\ \A b \in Bufs \ {c} : Decs(s, b)' = Decs(s, b)
      BY <1>1, <1>5, <1>7, <2>1, <2>5 DEF AtStep, Decs, One, None, Returners
    <2>7. \A b \in Bufs : (\/ refcnt[s][b] = 0
                           \/ refcnt[s][b] = 255 /\ Decs(s, b) <= 1
                           \/ refcnt[s][b] = 254 /\ Decs(s, b) = 0)'
      <3>1. ASSUME NEW b \in Bufs \ {c}
            PROVE  (\/ refcnt[s][b] = 0
                    \/ refcnt[s][b] = 255 /\ Decs(s, b) <= 1
                    \/ refcnt[s][b] = 254 /\ Decs(s, b) = 0)'
        BY <1>2, <2>4, <2>6 DEF Dead
      <3>2. (\/ refcnt[s][c] = 0
             \/ refcnt[s][c] = 255 /\ Decs(s, c) <= 1
             \/ refcnt[s][c] = 254 /\ Decs(s, c) = 0)'
        BY <2>2, <2>3, <2>6
      <3> QED
        BY <3>1, <3>2
    <2> QED
      BY <1>2, <1>6, <1>8, <1>10, <2>1, <2>6, <2>7 DEF Dead
  <1>13. CASE QbufCount(s, w)
    <2>1. ret[s][w].step = "queue" /\ ret'[s][w].step = "ioctl"
          /\ refcnt' = refcnt /\ queued'[s] = queued[s] + 1
      BY <1>2, <1>3, <1>13, GoFacts DEF QbufCount, Steps
    <2>2. /\ AtStep(s, "ioctl")' = AtStep(s, "ioctl") + 1
          /\ AtStep(s, "queue") = AtStep(s, "queue")' + 1
          /\ AtStep(s, "queue")' \in Nat
          /\ \A b : Decs(s, b)' = Decs(s, b)
      BY <1>5, <1>7, <2>1 DEF AtStep, Decs, One, Returners
    <2>3. /\ AtStep(s, "ioctl")' <= queued'[s]
          /\ queued'[s] + AtStep(s, "queue")' <= Cardinality(Bufs)
          /\ queued'[s] \in 0..Cardinality(Bufs)
      <3>1. AtStep(s, "ioctl") \in Nat
        BY DEF AtStep, One
      <3> QED
        BY <1>3, <1>8, <2>1, <2>2, <3>1
    <2> QED
      BY <1>2, <1>6, <1>10, <2>1, <2>2, <2>3 DEF Dead
  <1>14. CASE QbufFails(s, w)
    <2>1. ret[s][w].step = "ioctl" /\ ret'[s][w].step = None
          /\ refcnt' = refcnt /\ queued'[s] = queued[s] - 1
      BY <1>2, <1>3, <1>14, FinishFacts DEF QbufFails
    <2>2. /\ AtStep(s, "ioctl") = AtStep(s, "ioctl")' + 1
          /\ AtStep(s, "queue")' = AtStep(s, "queue")
          /\ AtStep(s, "ioctl")' \in Nat
          /\ \A b : Decs(s, b)' = Decs(s, b)
      BY <1>5, <1>7, <2>1 DEF AtStep, Decs, One, Returners, None
    <2>3. /\ AtStep(s, "ioctl")' <= queued'[s]
          /\ queued'[s] + AtStep(s, "queue")' <= Cardinality(Bufs)
          /\ queued'[s] \in 0..Cardinality(Bufs)
      <3>1. AtStep(s, "queue") \in Nat
        BY DEF AtStep, One
      <3> QED
        BY <1>3, <1>8, <2>1, <2>2, <3>1
    <2> QED
      BY <1>2, <1>6, <1>10, <2>1, <2>2, <2>3 DEF Dead
  <1> QED
    BY <1>9, <1>11, <1>12, <1>13, <1>14 DEF Return

(* The buffers the driver has are counted; two of them are counted twice. *)
LEMMA EmptyCounted ==
    ASSUME NEW s, Books(s), NEW e \in Bufs, e \in driver[s].empty
    PROVE  In(s, e) /\ ~ Passing(s, e) /\ ~ PollAt(s, e, {"count", "ref"})
  <1>1. Places(s, e) /\ Book(s, e)
    BY DEF Books
  <1>2. ~ Taken(s, e) /\ e \notin gone[s]
    BY <1>1 DEF Book, D
  <1>3. ~ Passing(s, e) /\ ~ PollAt(s, e, {"count", "ref"})
    BY <1>1 DEF Places, Apart4, Apart3, Apart2
  <1>4. ~ AtQueue(s, e)
    BY <1>3 DEF Passing, Passes, AtQueue
  <1>5. ~ PollAt(s, e, {"ref"})
    BY <1>3 DEF PollAt
  <1> QED
    BY <1>2, <1>3, <1>4, <1>5 DEF In

LEMMA CountedOne ==
    ASSUME NEW s, Books(s), NEW c \in Bufs, In(s, c)
    PROVE  queued[s] \in Nat /\ queued[s] >= 1
  <1>1. Counted(s) # {} /\ Cardinality(Counted(s)) = queued[s]
    BY DEF Counted, Books
  <1> QED
    BY <1>1, CountedFacts, FS_EmptySet

LEMMA CountedTwo ==
    ASSUME NEW s, Books(s), NEW c \in Bufs, In(s, c), NEW e \in Bufs, In(s, e),
           c # e
    PROVE  queued[s] \in Nat /\ queued[s] >= 2
  <1>1. c \in Counted(s) /\ e \in Counted(s) \ {c} /\ Cardinality(Counted(s)) = queued[s]
    BY DEF Counted, Books
  <1>2. /\ IsFiniteSet(Counted(s) \ {c})
        /\ Cardinality(Counted(s) \ {c}) = Cardinality(Counted(s)) - 1
    BY <1>1, CountedFacts, FS_RemoveElement
  <1>3. Cardinality(Counted(s) \ {c}) # 0 /\ Cardinality(Counted(s) \ {c}) \in Nat
    BY <1>1, <1>2, FS_EmptySet, FS_CardinalityType
  <1> QED
    BY <1>1, <1>2, <1>3, CountedFacts

(* What every thread but that of the start and the stop leaves alone. *)
Framed ==
    /\ UNCHANGED <<env, state, streaming, ctl>>
    /\ \A t \in Streams : /\ Fresh(t) => Fresh(t)'
                          /\ Undone(t) => Undone(t)'
                          /\ proc[t] = "gone" => proc'[t] = "gone"

Kept1(s) ==
    s \in streaming =>
         /\ driver[s].empty = {} => Still(s)
         /\ poll.stream = s => s \in entries \/ (ctl.at = "wait" /\ Stopping = s /\ ~status)
         /\ ctl.at \in {"wait", "off"} /\ Stopping = s => s \notin entries

LEMMA KeptPart ==
    /\ TypeOK => (Kept <=> (env.stops \/ env.fails => \A s \in Streams : Kept1(s)))
    /\ TypeOK' => (Kept' <=> ((env.stops \/ env.fails => \A s \in Streams : Kept1(s))'))
  <1>1. TypeOK => streaming \subseteq Streams
    BY DEF TypeOK
  <1>2. TypeOK' => streaming' \subseteq Streams
    BY DEF TypeOK
  <1> QED
    BY <1>1, <1>2 DEF Kept, Kept1

LEMMA UntouchedFramed ==
    ASSUME NEW t, Untouched(t)
    PROVE  /\ Fresh(t) => Fresh(t)'
           /\ Undone(t) => Undone(t)'
           /\ proc[t] = "gone" => proc'[t] = "gone"
  <1>1. Still(t)' <=> Still(t)
    BY UntouchedUnmoved
  <1> QED
    BY <1>1 DEF Fresh, Undone, Idle, Untouched

LEMMA ReturnFramed ==
    ASSUME IInv, NEW s \in Streams, NEW w \in Returners, Return(s, w)
    PROVE  Framed
  <1>1. TypeOK /\ RetInv /\ Phase
    BY DEF IInv
  <1>2. UNCHANGED <<env, state, streaming, ctl, proc>>
    BY DEF Return, BufDoneCheck, BufDoneDec, QbufCount, QbufIoctl, QbufFails,
           libVars, drvVars, halVars
  <1>3. \A t \in Streams \ {s} : /\ Fresh(t) => Fresh(t)'
                                 /\ Undone(t) => Undone(t)'
    BY <1>1, ReturnOthers, UntouchedFramed
  <1>4. ASSUME state[s] = "CFG"
        PROVE  w # "app" /\ driver' = driver
    <2>1. ctl.at # "up"
      BY <1>1, <1>4 DEF Phase
    <2>2. w # "app"
      BY <1>1, <2>1, CallFacts DEF RetInv, Steps, None
    <2>3. driver' = driver
      BY <1>4 DEF Return, BufDoneCheck, BufDoneDec, QbufCount, QbufIoctl,
                  QbufFails, drvVars
    <2> QED
      BY <2>2, <2>3
  <1>5. ret[s][w].step # None
    BY <1>1, CallFacts DEF Steps, None
  <1>6. ~ Fresh(s)
    BY <1>4, <1>5 DEF Fresh, Still, Idle, Returners
  <1>7. Undone(s) => Undone(s)'
    <2>1. ASSUME Undone(s)
          PROVE  Undone(s)'
      <3>1. driver' = driver /\ w # "chan"
        BY <1>4, <1>5, <2>1 DEF Undone, Idle
      <3>2. ret'[s]["chan"] = ret[s]["chan"]
        BY <1>1, <3>1, CallFacts DEF Returners
      <3>3. chan' = chan
        BY <1>1, CallPlaces
      <3> QED
        BY <1>2, <2>1, <3>1, <3>2, <3>3 DEF Undone, Idle
    <2> QED
      BY <2>1
  <1> QED
    BY <1>2, <1>3, <1>6, <1>7 DEF Framed

LEMMA ReturnKept ==
    ASSUME IInv, NEW s \in Streams, NEW w \in Returners, Return(s, w),
           env.stops \/ env.fails, NEW t \in Streams
    PROVE  Kept1(t)'
  <1>1. /\ TypeOK /\ RetInv /\ Kept1(t)
    BY KeptPart DEF IInv
  <1>2. /\ entries \subseteq Streams /\ ret \in RetType
        /\ driver \in [Streams -> [empty : SUBSET Bufs, frames : Seq(Bufs)]]
        /\ queued \in [Streams -> 0..Cardinality(Bufs)]
        /\ queued[s] \in Nat
    BY <1>1, TypeFacts DEF TypeOK, RetType
  <1>3. UNCHANGED <<env, streaming, ctl, status, poll>> /\ (Stopping' = Stopping)
    BY DEF Return, BufDoneCheck, BufDoneDec, QbufCount, QbufIoctl, QbufFails,
           libVars, drvVars, pollVars, Stopping
  <1>4. CASE t # s
    <2>1. Untouched(t)
      BY <1>1, <1>4, ReturnOthers
    <2>2. Still(t)' <=> Still(t)
      BY <2>1, UntouchedUnmoved
    <2>3. t \in entries' <=> t \in entries
      BY <1>4 DEF Return, BufDoneCheck, BufDoneDec, QbufCount, QbufIoctl,
                  QbufFails, pollVars, AddFd, DelFd
    <2> QED
      BY <1>1, <1>3, <2>1, <2>2, <2>3 DEF Kept1, Untouched
  <1>5. CASE t = s /\ s \in streaming
    <2>1. Live(s) /\ Books(s)
      BY <1>5 DEF IInv, StreamInv, Lined, Live
    <2>2. driver'[s].empty = {} => driver[s].empty = {}
      BY <1>2 DEF Return, BufDoneCheck, BufDoneDec, QbufCount, QbufIoctl,
                  QbufFails, drvVars
    <2>3. ret[s][w].step # None
      BY <1>1, CallFacts DEF Steps, None
    <2>4. Still(s) => w = "app"
      BY <2>3 DEF Still, Idle, Returners
    <2>5. driver'[s].empty = {} => Still(s)'
      <3>1. ASSUME driver'[s].empty = {}
            PROVE  Still(s)'
        <4>1. Still(s) /\ w = "app"
          BY <1>1, <1>5, <2>2, <2>4, <3>1 DEF Kept1
        <4>2. \A v \in {"chan", "disp", "proc"} : ret'[s][v] = ret[s][v]
          BY <1>1, <4>1, CallFacts DEF Returners
        <4>3. driver'[s].frames = driver[s].frames
          BY <1>2 DEF Return, BufDoneCheck, BufDoneDec, QbufCount, QbufIoctl,
                      QbufFails, drvVars
        <4> QED
          BY <1>1, <1>3, <4>1, <4>2, <4>3, CallPlaces DEF Still, Idle
      <3> QED
        BY <3>1
    <2>6. ASSUME s \in entries, s \notin entries', poll.stream = s
          PROVE  FALSE
      <3>1. QbufFails(s, w) /\ queued'[s] = 0
        BY <2>6 DEF Return, BufDoneCheck, BufDoneDec, QbufCount, QbufIoctl,
                    QbufFails, pollVars, AddFd
      <3>2. queued[s] = 1
        BY <1>2, <3>1 DEF QbufFails
      <3>3. driver[s].empty # {}
        BY <1>1, <1>5, <2>6 DEF Kept1, Still
      <3>4. PICK e \in Bufs : e \in driver[s].empty
        BY <1>2, <3>3
      <3>5. PICK c \in Bufs : c = ret[s][w].buf
        BY <1>1, CallFacts
      <3>6. In(s, c)
        BY <2>1, <3>1, <3>5, FailsBook
      <3>7. Passing(s, c)
        <4>1. Passes(s, w, c)
          BY <1>1, <3>1, <3>5, CallPlaces DEF QbufFails
        <4> QED
          BY <4>1 DEF Passing
      <3>8. In(s, e) /\ e # c
        BY <2>1, <3>4, <3>7, EmptyCounted
      <3> QED
        BY <2>1, <3>2, <3>6, <3>8, CountedTwo
    <2>7. ASSUME s \notin entries, s \in entries', ctl.at \in {"wait", "off"}
          PROVE  FALSE
      <3>1. QbufCount(s, w) /\ queued'[s] = 1
        BY <2>7 DEF Return, BufDoneCheck, BufDoneDec, QbufCount, QbufIoctl,
                    QbufFails, pollVars, DelFd
      <3>2. queued[s] = 0
        BY <1>2, <3>1 DEF QbufCount
      <3>3. w # "app"
        BY <1>1, <2>3, <2>7 DEF RetInv
      <3>4. driver[s].empty # {}
        BY <1>1, <1>5, <2>4, <3>3 DEF Kept1
      <3>5. PICK e \in Bufs : e \in driver[s].empty
        BY <1>2, <3>4
      <3> QED
        BY <2>1, <3>2, <3>5, EmptyCounted, CountedOne
    <2> QED
      BY <1>1, <1>3, <1>5, <2>5, <2>6, <2>7 DEF Kept1
  <1>6. CASE t = s /\ s \notin streaming
    BY <1>3, <1>6 DEF Kept1
  <1> QED
    BY <1>4, <1>5, <1>6

LEMMA ReturnLined ==
    ASSUME IInv, NEW s \in Streams, NEW w \in Returners, Return(s, w)
    PROVE  Lined(s)' /\ state[s] # "REG"
  <1>1. TypeOK /\ RetInv /\ Phase /\ Lined(s)
    BY DEF IInv, StreamInv
  <1>2. ret[s][w].step # None /\ \A v \in Returners \ {w} : ret'[s][v] = ret[s][v]
    BY <1>1, CallFacts DEF Steps, None
  <1>3. state[s] # "REG"
    <2>1. w = "app" => ctl.at = "up"
      BY <1>1, <1>2 DEF RetInv
    <2>2. ctl.at = "up" => state[s] = "ACTIVE"
      BY <1>1 DEF Phase
    <2> QED
      BY <1>1, <1>2, <2>1, <2>2 DEF Lined, Still, Idle, Returners
  <1>4. UNCHANGED <<state, streaming, alive, nodes, disp, proc, halOpen, halQ, poll>>
    BY DEF Return, BufDoneCheck, BufDoneDec, QbufCount, QbufIoctl, QbufFails,
           libVars, drvVars, pollVars, cbVars, halVars
  <1>5. driver'[s].frames = driver[s].frames
    <2>1. driver \in [Streams -> [empty : SUBSET Bufs, frames : Seq(Bufs)]]
      BY <1>1 DEF TypeOK
    <2> QED
      BY <2>1 DEF Return, BufDoneCheck, BufDoneDec, QbufCount, QbufIoctl, QbufFails,
                  drvVars
  <1>6. /\ Idle(s, "disp") => ret'[s]["disp"] = ret[s]["disp"]
        /\ Idle(s, "proc") => ret'[s]["proc"] = ret[s]["proc"]
    BY <1>2 DEF Idle, Returners
  <1> QED
    BY <1>1, <1>3, <1>4, <1>5, <1>6 DEF Lined, Idle

LEMMA ReturnStream ==
    ASSUME IInv, NEW s \in Streams, NEW w \in Returners, Return(s, w)
    PROVE  StreamInv(s)' /\ queued'[s] \in 0..Cardinality(Bufs)
  <1>1. StreamInv(s)
    BY DEF IInv
  <1>2. state' = state /\ streaming' = streaming
    BY DEF Return, BufDoneCheck, BufDoneDec, QbufCount, QbufIoctl, QbufFails,
           libVars, drvVars
  <1>3. CASE Live(s)
    <2>1. Books(s)' /\ (Whole(s) => Whole(s)')
      BY <1>3, ReturnBooks
    <2>2. queued'[s] \in 0..Cardinality(Bufs)
      BY <2>1, CountedFacts DEF Books
    <2> QED
      BY <1>1, <1>2, <1>3, <2>1, <2>2, ReturnLined DEF StreamInv, Live
  <1>4. CASE ~ Live(s)
    <2>1. s \notin streaming /\ state[s] # "REG"
      BY <1>1, <1>4 DEF StreamInv, Lined, Live
    <2> QED
      BY <1>2, <1>4, <2>1, ReturnLined, ReturnDead DEF StreamInv, Live
  <1> QED
    BY <1>3, <1>4

LEMMA ReturnType ==
    ASSUME IInv, NEW s \in Streams, NEW w \in Returners, Return(s, w)
    PROVE  TypeOK'
  <1>1. TypeOK /\ RetInv
    BY DEF IInv
  <1>2. PICK c \in Bufs : c = ret[s][w].buf
    BY <1>1, CallFacts
  <1>3. ret' \in RetType /\ queued'[s] \in 0..Cardinality(Bufs)
    BY <1>1, CallFacts, ReturnStream
  <1>4. refcnt' \in [Streams -> [Bufs -> 0..255]]
    <2>1. refcnt \in [Streams -> [Bufs -> 0..255]]
      BY <1>1 DEF TypeOK
    <2>2. refcnt' = refcnt \/ refcnt' = [refcnt EXCEPT ![s][c] = Less(@)]
      BY <1>2 DEF Return, BufDoneCheck, BufDoneDec, QbufCount, QbufIoctl, QbufFails,
             libVars
    <2>3. Less(refcnt[s][c]) \in 0..255
      <3> DEFINE n == refcnt[s][c]
      <3>1. n \in 0..255
        BY <2>1
      <3> HIDE DEF n
      <3>2. Less(n) \in 0..255
        BY <3>1 DEF Less
      <3> QED
        BY <3>2 DEF n
    <2> QED
      BY <2>1, <2>2, <2>3
  <1>5. queued' \in [Streams -> 0..Cardinality(Bufs)]
    <2>1. queued \in [Streams -> 0..Cardinality(Bufs)]
      BY <1>1 DEF TypeOK
    <2>2. queued' = queued \/ queued' = [queued EXCEPT ![s] = queued'[s]]
      BY <2>1 DEF Return, BufDoneCheck, BufDoneDec, QbufCount, QbufIoctl, QbufFails,
             libVars
    <2> QED
      BY <1>3, <2>1, <2>2
  <1>6. driver' \in [Streams -> [empty : SUBSET Bufs, frames : Seq(Bufs)]]
    <2>1. driver \in [Streams -> [empty : SUBSET Bufs, frames : Seq(Bufs)]]
      BY <1>1 DEF TypeOK
    <2>2. driver' = driver \/ driver' = [driver EXCEPT ![s].empty = @ \cup {c}]
      BY <1>2 DEF Return, BufDoneCheck, BufDoneDec, QbufCount, QbufIoctl, QbufFails,
             drvVars
    <2>3. [driver[s] EXCEPT !.empty = @ \cup {c}] \in [empty : SUBSET Bufs, frames : Seq(Bufs)]
      BY <2>1
    <2>4. driver' = driver \/ driver' = [driver EXCEPT ![s] = [driver[s] EXCEPT !.empty = @ \cup {c}]]
      BY <2>1, <2>2
    <2> QED
      BY <2>1, <2>3, <2>4
  <1>7. gone' \in [Streams -> SUBSET Bufs]
    <2>1. gone \in [Streams -> SUBSET Bufs]
      BY <1>1 DEF TypeOK
    <2>2. gone' = gone \/ gone' = [gone EXCEPT ![s] = @ \cup {c}]
      BY <1>2 DEF Return, BufDoneCheck, BufDoneDec, QbufCount, QbufIoctl, QbufFails
    <2> QED
      BY <2>1, <2>2
  <1>8. entries' \subseteq Streams /\ pipe' \in Seq({"SYNC", "ASYNC"})
    <2>1. entries \subseteq Streams /\ pipe \in Seq({"SYNC", "ASYNC"})
      BY <1>1 DEF TypeOK
    <2>2. entries' = entries \/ entries' = entries \cup {s} \/ entries' = entries \ {s}
      BY DEF Return, BufDoneCheck, BufDoneDec, QbufCount, QbufIoctl, QbufFails,
             pollVars, AddFd, DelFd
    <2>3. pipe' = pipe \/ pipe' = Append(pipe, "ASYNC")
      BY DEF Return, BufDoneCheck, BufDoneDec, QbufCount, QbufIoctl, QbufFails,
             pollVars, AddFd, DelFd
    <2> QED
      BY <2>1, <2>2, <2>3
  <1>9. UNCHANGED <<env, state, streaming, polled, status, poll, cbVars, halVars, chan, ctl>>
    BY DEF Return, BufDoneCheck, BufDoneDec, QbufCount, QbufIoctl, QbufFails,
           libVars, drvVars, pollVars
  <1> QED
    BY <1>1, <1>3, <1>4, <1>5, <1>6, <1>7, <1>8, <1>9
       DEF TypeOK, RetType, cbVars, halVars

(* What a thread that does not start or stop the channel must leave true. *)
Worked ==
    /\ TypeOK' /\ PollInv' /\ RetInv' /\ Framed
    /\ \A t \in Streams : StreamInv(t)'
    /\ env.stops \/ env.fails => \A t \in Streams : Kept1(t)'

LEMMA ReturnStep ==
    ASSUME IInv, NEW s \in Streams, NEW w \in Returners, Return(s, w)
    PROVE  Worked
  <1>1. TypeOK /\ RetInv /\ PollInv /\ \A t \in Streams : StreamInv(t)
    BY DEF IInv
  <1>2. PollInv'
    BY <1>1, CallPlaces DEF PollInv
  <1>3. ASSUME NEW t \in Streams
        PROVE  StreamInv(t)'
    <2>1. CASE t = s
      BY <2>1, ReturnStream
    <2>2. CASE t # s
      BY <1>1, <2>2, ReturnOthers, UntouchedInv
    <2> QED
      BY <2>1, <2>2
  <1> QED
    BY <1>1, <1>2, <1>3, CallFacts, ReturnType, ReturnFramed, ReturnKept DEF Worked

-----------------------------------------------------------------------------
(* The other threads *)

LEMMA WorkedOf ==
    ASSUME IInv, NEW s \in Streams, TypeOK', RetInv', PollInv', StreamInv(s)',
           \A t \in Streams \ {s} : /\ Untouched(t)
                                    /\ t \in entries' <=> t \in entries,
           UNCHANGED <<env, state, streaming, ctl, status>>,
           proc[s] = "gone" => proc'[s] = "gone",
           Fresh(s) => Fresh(s)', Undone(s) => Undone(s)',
           (env.stops \/ env.fails) /\ s \in streaming =>
             /\ driver'[s].empty = {} => Still(s)'
             /\ poll'.stream = s => \/ s \in entries'
                                    \/ poll.stream = s /\ s \notin entries
             /\ s \in entries' => s \in entries
    PROVE  Worked
  <1>1. TypeOK /\ \A t \in Streams : StreamInv(t)
    BY DEF IInv
  <1>2. ASSUME NEW t \in Streams
        PROVE  StreamInv(t)'
    <2>1. CASE t = s
      BY <2>1
    <2>2. CASE t # s
      BY <1>1, <2>2, UntouchedInv
    <2> QED
      BY <2>1, <2>2
  <1>3. Framed
    BY UntouchedFramed DEF Framed, Untouched
  <1>4. ASSUME env.stops \/ env.fails, NEW t \in Streams
        PROVE  Kept1(t)'
    <2>1. Kept1(t) /\ Stopping' = Stopping
      BY <1>1, <1>4, KeptPart DEF IInv, Stopping
    <2>2. CASE t = s
      BY <1>4, <2>1, <2>2 DEF Kept1
    <2>3. CASE t # s
      <3>1. Untouched(t) /\ (t \in entries' <=> t \in entries)
        BY <2>3
      <3>2. Still(t)' <=> Still(t)
        BY <3>1, UntouchedUnmoved
      <3> QED
        BY <1>4, <2>1, <3>1, <3>2 DEF Kept1, Untouched
    <2> QED
      BY <2>2, <2>3
  <1> QED
    BY <1>2, <1>3, <1>4 DEF Worked

LEMMA StartCalls ==
    ASSUME TypeOK, RetInv, NEW s \in Streams, NEW w \in Returners, NEW c \in Bufs,
           Idle(s, w), Start(s, w, c), ctl' = ctl, w = "app" => ctl.at = "up"
    PROVE  /\ ret' \in RetType /\ RetInv'
           /\ \A t \in Streams \ {s} : ret'[t] = ret[t]
           /\ \A v \in Returners \ {w} : ret'[s][v] = ret[s][v]
           /\ ret'[s][w].step = "check"
           /\ \A b \in Bufs : /\ Holds(s, w, b)' <=> b = c
                              /\ ~ Holds(s, w, b)
                              /\ \A v \in Returners \ {w} : Holds(s, v, b)' <=> Holds(s, v, b)
                              /\ \A v \in Returners : Passes(s, v, b)' <=> Passes(s, v, b)
                              /\ AtQueue(s, b)' <=> AtQueue(s, b)
  <1>1. ret \in RetType
    BY DEF TypeOK, RetType
  <1>2. /\ ret' \in RetType
        /\ \A t \in Streams, v \in Returners : t # s \/ v # w => ret'[t][v] = ret[t][v]
        /\ ret'[s][w].step = "check" /\ ret'[s][w].buf = c
    BY <1>1, StartFacts
  <1>3. \A t \in Streams \ {s} : ret'[t] = ret[t]
    BY <1>1 DEF Start, RetType
  <1>4. RetInv'
    <2>1. ASSUME NEW t \in Streams, NEW v \in Returners
          PROVE  /\ ret'[t][v].step = None <=> ret'[t][v].buf = None
                 /\ v = "app" /\ ctl.at # "up" => ret'[t][v].step = None
      <3>1. CASE t # s \/ v # w
        BY <1>2, <3>1 DEF RetInv
      <3>2. CASE t = s /\ v = w
        BY <1>2, <3>2, BufsAssumption DEF None
      <3> QED
        BY <3>1, <3>2
    <2> QED
      BY <2>1 DEF RetInv
  <1>5. ASSUME NEW b \in Bufs
        PROVE  /\ Holds(s, w, b)' <=> b = c
               /\ ~ Holds(s, w, b)
               /\ \A v \in Returners \ {w} : Holds(s, v, b)' <=> Holds(s, v, b)
               /\ \A v \in Returners : Passes(s, v, b)' <=> Passes(s, v, b)
               /\ AtQueue(s, b)' <=> AtQueue(s, b)
    <2>1. \A v \in Returners \ {w} : /\ Holds(s, v, b)' <=> Holds(s, v, b)
                                     /\ Passes(s, v, b)' <=> Passes(s, v, b)
      BY <1>2 DEF Holds, Passes
    <2>2. /\ Holds(s, w, b)' <=> b = c
          /\ ~ Holds(s, w, b) /\ ~ Passes(s, w, b) /\ ~ Passes(s, w, b)'
      BY <1>2 DEF Holds, Passes, Idle, None
    <2>3. AtQueue(s, b)' <=> AtQueue(s, b)
      BY <1>2 DEF AtQueue, Idle, None
    <2> QED
      BY <2>1, <2>2, <2>3
  <1> QED
    BY <1>2, <1>3, <1>4, <1>5

LEMMA DeadStays ==
    ASSUME NEW s, Dead(s), driver[s].empty = {}, driver'[s].empty = {},
           refcnt'[s] = refcnt[s], queued'[s] = queued[s],
           \A v \in {"chan", "proc"} :
              \/ ret'[s][v] = ret[s][v]
              \/ ret[s][v].step = None /\ ret'[s][v].step = "check"
    PROVE  Dead(s)'
  <1>1. /\ \A b : Decs(s, b)' = Decs(s, b)
        /\ AtStep(s, "ioctl")' = AtStep(s, "ioctl")
        /\ AtStep(s, "queue")' = AtStep(s, "queue")
    BY DEF Decs, AtStep, One, None
  <1> QED
    BY <1>1 DEF Dead

(* A stream whose buffers all stay where they are but one, which moves and is
   counted as before. *)
LEMMA MoveBooks ==
    ASSUME NEW s, NEW c \in Bufs, Books(s), queued'[s] = queued[s],
           \A b \in Bufs \ {c} : /\ Unmoved(s, b) /\ (In(s, b)' <=> In(s, b))
                                 /\ refcnt'[s][b] = refcnt[s][b]
                                 /\ b \in gone'[s] <=> b \in gone[s],
           Places(s, c)', Book(s, c)', In(s, c)' <=> In(s, c),
           D(s, c)' \/ Taken(s, c)' \/ c \in gone'[s],
           Once(driver'[s].frames), Once(nodes'[s]), Once(halQ'[s])
    PROVE  Books(s)' /\ (Whole(s) => Whole(s)')
  <1>1. ASSUME NEW b \in Bufs \ {c}
        PROVE  /\ Places(s, b)' /\ Book(s, b)'
               /\ (D(s, b)' <=> D(s, b)) /\ (Taken(s, b)' <=> Taken(s, b))
    <2>1. Places(s, b) /\ Book(s, b)
      BY DEF Books
    <2> QED
      BY <2>1, UnmovedBook, UnmovedPlaces
  <1>2. Cardinality(Counted(s)') = Cardinality(Counted(s))
    BY CountedMove
  <1>3. Whole(s) => Whole(s)'
    BY <1>1 DEF Whole
  <1> QED
    BY <1>1, <1>2, <1>3 DEF Books

(* A buffer leaves its place for a call of mm_stream_buf_done. *)
Hand(s, w, c) ==
    /\ Idle(s, w) /\ Start(s, w, c)
    /\ \/ /\ w = "chan" /\ c \in chan[s]
          /\ chan' = [chan EXCEPT ![s] = @ \ {c}] /\ UNCHANGED <<halQ, app>>
       \/ /\ w = "proc" /\ halQ[s] # <<>> /\ c = Head(halQ[s])
          /\ halQ' = [halQ EXCEPT ![s] = Tail(@)] /\ UNCHANGED <<chan, app>>
       \/ /\ w = "app" /\ c \in app[s] /\ ctl.at = "up"
          /\ app' = [app EXCEPT ![s] = @ \ {c}] /\ UNCHANGED <<chan, halQ>>
    /\ UNCHANGED <<env, state, refcnt, queued, driver, streaming, entries, polled,
                   pipe, status, poll, alive, nodes, disp, halOpen, halExit, proc,
                   gone, ctl>>

LEMMA HandFacts ==
    ASSUME IInv, NEW s \in Streams, NEW w, NEW c, Hand(s, w, c)
    PROVE  /\ TypeOK /\ RetInv /\ w \in {"chan", "proc", "app"} /\ c \in Bufs
           /\ chan' \in [Streams -> SUBSET Bufs] /\ app' \in [Streams -> SUBSET Bufs]
           /\ halQ' \in [Streams -> Seq(Bufs)]
           /\ \A t \in Streams \ {s} : chan'[t] = chan[t] /\ halQ'[t] = halQ[t] /\ app'[t] = app[t]
           /\ \A b \in Bufs : /\ b \in chan'[s] <=> b \in chan[s] /\ ~ (w = "chan" /\ b = c)
                              /\ b \in app'[s] <=> b \in app[s] /\ ~ (w = "app" /\ b = c)
           /\ w # "proc" => halQ'[s] = halQ[s]
           /\ w # "chan" => chan'[s] = chan[s]
           /\ w = "proc" => /\ halQ[s] # <<>> /\ c = Head(halQ[s])
                            /\ halQ'[s] = Tail(halQ[s])
           /\ halQ[s] \in Seq(Bufs)
           /\ \A b, at : PollAt(s, b, at)' <=> PollAt(s, b, at)
  <1>1. /\ TypeOK /\ RetInv /\ w \in {"chan", "proc", "app"}
        /\ chan \in [Streams -> SUBSET Bufs] /\ app \in [Streams -> SUBSET Bufs]
        /\ halQ \in [Streams -> Seq(Bufs)]
    BY DEF IInv, TypeOK, Hand
  <1>2. c \in Bufs
    BY <1>1, TailFacts DEF Hand
  <1>3. CASE w = "chan"
    BY <1>1, <1>2, <1>3 DEF Hand, PollAt
  <1>4. CASE w = "proc"
    <2>1. Tail(halQ[s]) \in Seq(Bufs)
      BY <1>1, <1>4, TailFacts DEF Hand
    <2> QED
      BY <1>1, <1>2, <1>4, <2>1 DEF Hand, PollAt
  <1>5. CASE w = "app"
    BY <1>1, <1>2, <1>5 DEF Hand, PollAt
  <1> QED
    BY <1>1, <1>3, <1>4, <1>5

LEMMA HandBooks ==
    ASSUME IInv, NEW s \in Streams, NEW w, NEW c, Hand(s, w, c), Live(s)
    PROVE  Books(s)' /\ (Whole(s) => Whole(s)')
  <1>1. /\ TypeOK /\ RetInv /\ Books(s) /\ w \in {"chan", "proc", "app"} /\ w \in Returners
        /\ c \in Bufs /\ Places(s, c) /\ Book(s, c)
    BY HandFacts DEF IInv, StreamInv, Books, Returners
  <1>2. /\ UNCHANGED <<refcnt, queued, driver, nodes, disp, gone>>
        /\ Start(s, w, c) /\ ctl' = ctl /\ Idle(s, w) /\ (w = "app" => ctl.at = "up")
    BY DEF Hand
  <1>3. \A b \in Bufs : /\ Holds(s, w, b)' <=> b = c
                        /\ ~ Holds(s, w, b)
                        /\ \A v \in Returners \ {w} : Holds(s, v, b)' <=> Holds(s, v, b)
                        /\ \A v \in Returners : Passes(s, v, b)' <=> Passes(s, v, b)
                        /\ AtQueue(s, b)' <=> AtQueue(s, b)
    BY <1>1, <1>2, StartCalls
  <1>4. /\ Once(halQ'[s])
        /\ \A b \in Bufs : b \in Range(halQ'[s]) <=> b \in Range(halQ[s]) /\ ~ (w = "proc" /\ b = c)
    BY <1>1, HandFacts, TailFacts DEF Books
  <1>5. \A b \in Bufs \ {c} : /\ Unmoved(s, b) /\ (In(s, b)' <=> In(s, b))
                              /\ refcnt'[s][b] = refcnt[s][b]
                              /\ b \in gone'[s] <=> b \in gone[s]
    <2>1. ASSUME NEW b \in Bufs \ {c}
          PROVE  Unmoved(s, b)
      <3>1. \A v \in Returners : Holds(s, v, b)' <=> Holds(s, v, b)
        BY <1>3
      <3> QED
        BY <1>2, <1>3, <1>4, <3>1, HandFacts DEF Unmoved
    <2>2. ASSUME NEW b \in Bufs \ {c}
          PROVE  In(s, b)' <=> In(s, b)
      BY <1>2, <1>3, <2>1, HandFacts, UnmovedPlaces DEF In
    <2> QED
      BY <1>2, <2>1, <2>2
  <1>6. /\ Holds(s, "chan", c)' <=> Holds(s, "chan", c) \/ w = "chan"
        /\ Holds(s, "disp", c)' <=> Holds(s, "disp", c)
        /\ Holds(s, "proc", c)' <=> Holds(s, "proc", c) \/ w = "proc"
        /\ Holds(s, "app", c)' <=> Holds(s, "app", c) \/ w = "app"
        /\ Passing(s, c)' <=> Passing(s, c)
        /\ ~ Holds(s, w, c)
        /\ \A v \in Returners : Passes(s, v, c)' <=> Passes(s, v, c)
        /\ AtQueue(s, c)' <=> AtQueue(s, c)
    BY <1>1, <1>3 DEF Returners, Passing
  <1>7. /\ c \in chan'[s] <=> c \in chan[s] /\ w # "chan"
        /\ c \in app'[s] <=> c \in app[s] /\ w # "app"
        /\ c \in Range(halQ'[s]) <=> c \in Range(halQ[s]) /\ w # "proc"
        /\ w = "chan" => c \in chan[s]
        /\ w = "app" => c \in app[s]
        /\ w = "proc" => c \in Range(halQ[s])
    BY <1>1, <1>4, HandFacts, TailFacts DEF Hand
  <1>8. /\ PollAt(s, c, {"chan"})' <=> PollAt(s, c, {"chan"})
        /\ PollAt(s, c, {"ref"})' <=> PollAt(s, c, {"ref"})
        /\ PollAt(s, c, {"count", "ref"})' <=> PollAt(s, c, {"count", "ref"})
        /\ PollAt(s, c, {"chan", "node"})' <=> PollAt(s, c, {"chan", "node"})
    BY HandFacts
  <1>9. Places(s, c)'
    <2>1. \A v, u \in Returners : Passes(s, v, c)' /\ Passes(s, u, c)' => v = u
      BY <1>1, <1>6 DEF Places
    <2> QED
      BY <1>1, <1>2, <1>6, <1>7, <1>8, <2>1
         DEF Places, Apart2, Apart3, Apart4, Apart5
  <1>10. /\ C(s, c)' <=> C(s, c)
         /\ P(s, c)' <=> P(s, c)
         /\ A(s, c)' <=> A(s, c)
         /\ D(s, c)' <=> D(s, c)
         /\ Waiting(s, c)' <=> Waiting(s, c)
    BY <1>1, <1>2, <1>6, <1>7, <1>8 DEF C, P, A, D, Waiting
  <1>11. (Taken(s, c)' <=> Taken(s, c)) /\ T(s, c)' = T(s, c) /\ Taken(s, c)
    BY <1>1, <1>7, <1>10 DEF Taken, T, One, C, A
  <1>12. Book(s, c)'
    BY <1>1, <1>2, <1>10, <1>11 DEF Book
  <1>13. In(s, c)' <=> In(s, c)
    BY <1>2, <1>6, <1>8, <1>11 DEF In
  <1>14. Once(driver'[s].frames) /\ Once(nodes'[s]) /\ queued'[s] = queued[s]
    BY <1>1, <1>2 DEF Books
  <1> QED
    BY <1>1, <1>4, <1>5, <1>9, <1>11, <1>12, <1>13, <1>14, MoveBooks

LEMMA HandStep ==
    ASSUME IInv, NEW s \in Streams, NEW w, NEW c, Hand(s, w, c)
    PROVE  Worked
  <1>1. /\ TypeOK /\ RetInv /\ PollInv /\ StreamInv(s) /\ Lined(s) /\ Phase
        /\ w \in {"chan", "proc", "app"} /\ w \in Returners /\ c \in Bufs
    BY HandFacts DEF IInv, StreamInv, Returners
  <1>2. /\ UNCHANGED <<env, state, refcnt, queued, driver, streaming, entries, polled,
                       pipe, status, poll, alive, nodes, disp, halOpen, halExit, proc,
                       gone, ctl>>
        /\ Start(s, w, c) /\ Idle(s, w) /\ (w = "app" => ctl.at = "up")
    BY DEF Hand
  <1>3. /\ ret' \in RetType /\ RetInv'
        /\ \A t \in Streams \ {s} : ret'[t] = ret[t]
        /\ \A v \in Returners \ {w} : ret'[s][v] = ret[s][v]
        /\ ret'[s][w].step = "check"
    BY <1>1, <1>2, StartCalls
  <1>4. TypeOK' /\ PollInv'
    <2>1. /\ TypeOK /\ ret' \in RetType
          /\ chan' \in [Streams -> SUBSET Bufs] /\ app' \in [Streams -> SUBSET Bufs]
          /\ halQ' \in [Streams -> Seq(Bufs)]
      BY <1>1, <1>3, HandFacts
    <2>2. UNCHANGED <<env, state, refcnt, queued, driver, streaming, entries, polled,
                      pipe, status, poll, alive, nodes, disp, halOpen, halExit, proc,
                      gone, ctl>>
      BY <1>2
    <2>3. TypeOK'
      BY <2>1, <2>2 DEF TypeOK, RetType
    <2>4. PollInv'
      BY <1>1, <2>2, PollFramed
    <2> QED
      BY <2>3, <2>4
  <1>5. ASSUME NEW t \in Streams \ {s}
        PROVE  Untouched(t) /\ (t \in entries' <=> t \in entries)
    BY <1>2, <1>3, HandFacts DEF Untouched
  <1>6. /\ Still(s) => w = "app"
        /\ w = "app" => state[s] = "ACTIVE"
        /\ w = "app" => (Still(s) => Still(s)')
    <2>1. Still(s) => w = "app"
      BY <1>1 DEF Still, Hand
    <2>2. w = "app" => state[s] = "ACTIVE"
      BY <1>1, <1>2 DEF Phase
    <2>3. w = "app" => (Still(s) => Still(s)')
      BY <1>2, <1>3, HandFacts DEF Still, Idle, Returners
    <2> QED
      BY <2>1, <2>2, <2>3
  <1>7. Lined(s)' /\ state[s] # "REG"
    <2>1. state[s] # "REG"
      BY <1>1, <1>6 DEF Lined
    <2>2. proc[s] = "gone" => w # "proc"
      BY <1>1 DEF Lined, Hand
    <2>3. /\ w # "proc" => halQ'[s] = halQ[s] /\ ret'[s]["proc"] = ret[s]["proc"]
          /\ ret'[s]["disp"] = ret[s]["disp"]
      BY <1>1, <1>3, HandFacts DEF Returners
    <2> QED
      BY <1>1, <1>2, <2>1, <2>2, <2>3 DEF Lined, Idle
  <1>8. StreamInv(s)'
    <2>1. CASE Live(s)
      BY <1>1, <1>2, <1>7, <2>1, HandBooks DEF StreamInv, Live
    <2>2. CASE ~ Live(s)
      <3>1. Dead(s) /\ driver[s].empty = {}
        BY <1>1, <1>6, <2>2 DEF StreamInv, Dead, Live
      <3>2. \A v \in {"chan", "proc"} :
              \/ ret'[s][v] = ret[s][v]
              \/ ret[s][v].step = None /\ ret'[s][v].step = "check"
        BY <1>2, <1>3 DEF Idle, Returners
      <3>3. Dead(s)'
        BY <1>2, <3>1, <3>2, DeadStays
      <3>4. s \notin streaming
        BY <1>1, <2>2 DEF Lined, Live
      <3> QED
        BY <1>2, <1>7, <2>2, <3>3, <3>4 DEF StreamInv, Live
    <2> QED
      BY <2>1, <2>2
  <1>9. (Fresh(s) => Fresh(s)') /\ (Undone(s) => Undone(s)')
    <2>1. ~ Fresh(s)
      BY <1>6 DEF Fresh
    <2>2. ASSUME Undone(s)
          PROVE  Undone(s)'
      <3>1. w # "chan"
        BY <2>2 DEF Undone, Hand
      <3>2. chan'[s] = chan[s] /\ ret'[s]["chan"] = ret[s]["chan"]
        BY <1>3, <3>1, HandFacts DEF Returners
      <3> QED
        BY <1>2, <2>2, <3>2 DEF Undone, Idle
    <2> QED
      BY <2>1, <2>2
  <1>10. (env.stops \/ env.fails) /\ s \in streaming => (driver'[s].empty = {} => Still(s)')
    BY <1>1, <1>2, <1>6, KeptPart DEF IInv, Kept1
  <1>11. /\ UNCHANGED <<env, state, streaming, ctl, status>>
         /\ proc[s] = "gone" => proc'[s] = "gone"
         /\ poll'.stream = s => \/ s \in entries'
                                \/ poll.stream = s /\ s \notin entries
         /\ s \in entries' => s \in entries
    BY <1>2
  <1> QED
    BY <1>3, <1>4, <1>5, <1>8, <1>9, <1>10, <1>11, WorkedOf


LEMMA ChannelReturnsStep ==
    ASSUME IInv, NEW s \in Streams, ChannelReturns(s)
    PROVE  Worked
  <1>1. PICK c \in chan[s] : /\ Start(s, "chan", c)
                             /\ chan' = [chan EXCEPT ![s] = @ \ {c}]
    BY DEF ChannelReturns
  <1>2. Hand(s, "chan", c)
    BY <1>1 DEF ChannelReturns, Hand, libVars, drvVars, pollVars, cbVars, halVars
  <1> QED
    BY <1>2, HandStep

LEMMA ProcReturnStep ==
    ASSUME IInv, NEW s \in Streams, ProcReturn(s)
    PROVE  Worked
  <1>1. Hand(s, "proc", Head(halQ[s]))
    BY DEF ProcReturn, Hand, libVars, drvVars, pollVars, cbVars
  <1> QED
    BY <1>1, HandStep

LEMMA AppReturnsStep ==
    ASSUME IInv, NEW s \in Streams, AppReturns(s)
    PROVE  Worked
  <1>1. PICK c \in app[s] : /\ Start(s, "app", c)
                            /\ app' = [app EXCEPT ![s] = @ \ {c}]
    BY DEF AppReturns
  <1>2. Hand(s, "app", c)
    BY <1>1 DEF AppReturns, Hand, libVars, drvVars, pollVars, cbVars
  <1> QED
    BY <1>2, HandStep

(* The callback of the stream leaves the frame with its user. *)
LEMMA KeepBooks ==
    ASSUME IInv, NEW s \in Streams, Live(s), halQ[s] # <<>>,
           halQ' = [halQ EXCEPT ![s] = Tail(@)],
           app' = [app EXCEPT ![s] = @ \cup {Head(halQ[s])}],
           UNCHANGED <<refcnt, queued, driver, nodes, disp, gone, chan, ret, poll>>
    PROVE  Books(s)' /\ (Whole(s) => Whole(s)')
  <1>1. PICK c : c = Head(halQ[s])
    OBVIOUS
  <1>2. /\ TypeOK /\ Books(s) /\ halQ \in [Streams -> Seq(Bufs)] /\ halQ[s] \in Seq(Bufs)
        /\ app \in [Streams -> SUBSET Bufs]
    BY DEF IInv, StreamInv, TypeOK
  <1>3. /\ c \in Bufs /\ Tail(halQ[s]) \in Seq(Bufs)
        /\ \A b : b \in Range(halQ[s]) <=> b = c \/ b \in Range(halQ'[s])
        /\ Once(halQ'[s]) /\ c \notin Range(halQ'[s])
    BY <1>1, <1>2, TailFacts DEF Books
  <1>4. app'[s] = app[s] \cup {c}
    BY <1>1, <1>2
  <1>5. /\ \A b \in Bufs, v \in Returners : /\ Holds(s, v, b)' <=> Holds(s, v, b)
                                            /\ Passes(s, v, b)' <=> Passes(s, v, b)
        /\ \A b \in Bufs : AtQueue(s, b)' <=> AtQueue(s, b)
        /\ \A b, at : PollAt(s, b, at)' <=> PollAt(s, b, at)
    BY DEF Holds, Passes, AtQueue, PollAt
  <1>6. ASSUME NEW b \in Bufs \ {c}
        PROVE  /\ Unmoved(s, b) /\ (In(s, b)' <=> In(s, b))
               /\ refcnt'[s][b] = refcnt[s][b]
               /\ b \in gone'[s] <=> b \in gone[s]
    <2>1. Unmoved(s, b)
      <3>1. \A v \in Returners : /\ Holds(s, v, b)' <=> Holds(s, v, b)
                                 /\ Passes(s, v, b)' <=> Passes(s, v, b)
        BY <1>5
      <3>2. \A at : PollAt(s, b, at)' <=> PollAt(s, b, at)
        BY <1>5
      <3> QED
        BY <1>3, <1>4, <3>1, <3>2 DEF Unmoved
    <2> QED
      BY <1>5, <2>1, UnmovedPlaces DEF In
  <1>7. /\ Holds(s, "chan", c)' <=> Holds(s, "chan", c)
        /\ Holds(s, "disp", c)' <=> Holds(s, "disp", c)
        /\ Holds(s, "proc", c)' <=> Holds(s, "proc", c)
        /\ Holds(s, "app", c)' <=> Holds(s, "app", c)
        /\ Passing(s, c)' <=> Passing(s, c)
        /\ \A v \in Returners : Passes(s, v, c)' <=> Passes(s, v, c)
        /\ AtQueue(s, c)' <=> AtQueue(s, c)
        /\ PollAt(s, c, {"chan"})' <=> PollAt(s, c, {"chan"})
        /\ PollAt(s, c, {"ref"})' <=> PollAt(s, c, {"ref"})
        /\ PollAt(s, c, {"count", "ref"})' <=> PollAt(s, c, {"count", "ref"})
        /\ PollAt(s, c, {"chan", "node"})' <=> PollAt(s, c, {"chan", "node"})
    <2>1. /\ \A v \in Returners : /\ Holds(s, v, c)' <=> Holds(s, v, c)
                                  /\ Passes(s, v, c)' <=> Passes(s, v, c)
          /\ AtQueue(s, c)' <=> AtQueue(s, c)
      BY <1>3, <1>5
    <2>2. Passing(s, c)' <=> Passing(s, c)
      BY <2>1 DEF Passing
    <2> QED
      BY <1>5, <2>1, <2>2 DEF Returners
  <1>8. /\ Places(s, c) /\ Book(s, c)
        /\ c \in Range(halQ[s]) /\ c \notin Range(halQ'[s]) /\ c \in app'[s]
    BY <1>2, <1>3, <1>4 DEF Books
  <1>9. Places(s, c)'
    <2>1. \A v, u \in Returners : Passes(s, v, c)' /\ Passes(s, u, c)' => v = u
      BY <1>7, <1>8 DEF Places
    <2> QED
      BY <1>7, <1>8, <2>1 DEF Places, Apart2, Apart3, Apart4, Apart5
  <1>10. /\ C(s, c)' <=> C(s, c)
         /\ P(s, c)' <=> P(s, c)
         /\ A(s, c)' <=> A(s, c)
         /\ D(s, c)' <=> D(s, c)
         /\ Waiting(s, c)' <=> Waiting(s, c)
         /\ A(s, c)
    BY <1>7, <1>8 DEF C, P, A, D, Waiting
  <1>11. (Taken(s, c)' <=> Taken(s, c)) /\ T(s, c)' = T(s, c) /\ Taken(s, c)
    BY <1>10 DEF Taken, T, One
  <1>12. Book(s, c)'
    BY <1>8, <1>10, <1>11 DEF Book
  <1>13. In(s, c)' <=> In(s, c)
    BY <1>7, <1>11 DEF In
  <1>14. Once(driver'[s].frames) /\ Once(nodes'[s]) /\ queued'[s] = queued[s]
    BY <1>2 DEF Books
  <1> QED
    BY <1>2, <1>3, <1>6, <1>9, <1>11, <1>12, <1>13, <1>14, MoveBooks

LEMMA ProcFrameStep ==
    ASSUME IInv, NEW s \in Streams, ProcFrame(s)
    PROVE  Worked
  <1>1. CASE Start(s, "proc", Head(halQ[s])) /\ UNCHANGED app
    <2>1. Hand(s, "proc", Head(halQ[s]))
      BY <1>1 DEF ProcFrame, Hand, libVars, drvVars, pollVars, cbVars
    <2> QED
      BY <2>1, HandStep
  <1>2. CASE /\ app' = [app EXCEPT ![s] = @ \cup {Head(halQ[s])}]
             /\ UNCHANGED ret
    <2>1. /\ TypeOK /\ RetInv /\ PollInv /\ StreamInv(s) /\ Lined(s)
          /\ halQ[s] # <<>> /\ proc[s] = "idle" /\ ~ Still(s)
      BY DEF IInv, StreamInv, ProcFrame, Still
    <2>2. /\ UNCHANGED <<env, state, refcnt, queued, driver, streaming, entries,
                         polled, pipe, status, poll, alive, nodes, disp, halOpen,
                         halExit, proc, chan, ret, gone, ctl>>
          /\ halQ' = [halQ EXCEPT ![s] = Tail(@)]
      BY <1>2 DEF ProcFrame, libVars, drvVars, pollVars, cbVars
    <2>3. /\ halQ \in [Streams -> Seq(Bufs)] /\ app \in [Streams -> SUBSET Bufs]
          /\ Head(halQ[s]) \in Bufs /\ Tail(halQ[s]) \in Seq(Bufs)
      <3>1. halQ \in [Streams -> Seq(Bufs)] /\ app \in [Streams -> SUBSET Bufs]
        BY <2>1 DEF TypeOK
      <3> QED
        BY <2>1, <3>1, TailFacts
    <2>4. TypeOK'
      <3>1. halQ' \in [Streams -> Seq(Bufs)] /\ app' \in [Streams -> SUBSET Bufs]
        BY <1>2, <2>2, <2>3
      <3>2. TypeOK
        BY <2>1
      <3>3. UNCHANGED <<env, state, refcnt, queued, driver, streaming, entries,
                        polled, pipe, status, poll, alive, nodes, disp, halOpen,
                        halExit, proc, chan, ret, gone, ctl>>
        BY <2>2
      <3> QED
        BY <3>1, <3>2, <3>3 DEF TypeOK
    <2>5. PollInv' /\ RetInv'
      BY <2>1, <2>2, PollFramed, RetFramed
    <2>6. ASSUME NEW t \in Streams \ {s}
          PROVE  Untouched(t) /\ (t \in entries' <=> t \in entries)
      BY <1>2, <2>2, <2>3 DEF Untouched
    <2>7. Lined(s)' /\ state[s] # "REG"
      BY <2>1, <2>2 DEF Lined, Idle
    <2>8. StreamInv(s)'
      <3>1. CASE Live(s)
        BY <1>2, <2>1, <2>2, <2>7, <3>1, KeepBooks DEF StreamInv, Live
      <3>2. CASE ~ Live(s)
        <4>1. Dead(s) /\ driver[s].empty = {}
          BY <2>1, <3>2 DEF StreamInv, Dead
        <4>2. Dead(s)'
          BY <2>2, <4>1, DeadStays
        <4> QED
          BY <2>1, <2>2, <2>7, <3>2, <4>2 DEF StreamInv, Live, Lined
      <3> QED
        BY <3>1, <3>2
    <2>9. (Fresh(s) => Fresh(s)') /\ (Undone(s) => Undone(s)')
      BY <2>1, <2>2 DEF Fresh, Undone, Idle
    <2>10. (env.stops \/ env.fails) /\ s \in streaming => (driver'[s].empty = {} => Still(s)')
      BY <2>1, <2>2, KeptPart DEF IInv, Kept1
    <2> QED
      BY <2>2, <2>4, <2>5, <2>6, <2>8, <2>9, <2>10, WorkedOf
  <1> QED
    BY <1>1, <1>2 DEF ProcFrame

(* The HAL's thread closes its queue, and ends. *)
LEMMA ProcTurns ==
    ASSUME IInv, NEW s \in Streams, NEW p \in {"flush", "gone"},
           proc' = [proc EXCEPT ![s] = p], proc[s] # "gone",
           \/ proc[s] = "flush" /\ halOpen' = halOpen
           \/ p = "flush" /\ halOpen' = halOpen \ {s},
           p = "gone" => halQ[s] = <<>> /\ Idle(s, "proc"),
           UNCHANGED <<env, libVars, drvVars, pollVars, cbVars, halQ,
                       halExit, app, chan, ret, gone, ctl>>
    PROVE  Worked
  <1>1. /\ TypeOK /\ RetInv /\ PollInv /\ StreamInv(s) /\ Lined(s)
        /\ proc \in [Streams -> {"gone", "idle", "flush"}] /\ halOpen \subseteq Streams
    BY DEF IInv, StreamInv, TypeOK
  <1>2. UNCHANGED <<env, state, refcnt, queued, driver, streaming, entries,
                    polled, pipe, status, poll, alive, nodes, disp, halQ,
                    halExit, app, chan, ret, gone, ctl>>
    BY DEF libVars, drvVars, pollVars, cbVars
  <1>3. /\ proc' \in [Streams -> {"gone", "idle", "flush"}] /\ halOpen' \subseteq Streams
        /\ proc'[s] = p /\ s \notin halOpen'
        /\ \A t \in Streams \ {s} : proc'[t] = proc[t] /\ (t \in halOpen' <=> t \in halOpen)
    BY <1>1 DEF Lined
  <1>4. TypeOK' /\ PollInv' /\ RetInv'
    <2>1. TypeOK'
      <3>1. TypeOK
        BY <1>1
      <3>2. proc' \in [Streams -> {"gone", "idle", "flush"}] /\ halOpen' \subseteq Streams
        BY <1>3
      <3> QED
        BY <1>2, <3>1, <3>2 DEF TypeOK
    <2> QED
      BY <1>1, <1>2, <2>1, PollFramed, RetFramed
  <1>5. ASSUME NEW t \in Streams \ {s}
        PROVE  Untouched(t) /\ (t \in entries' <=> t \in entries)
    BY <1>2, <1>3 DEF Untouched
  <1>6. Still(s)' <=> Still(s)
    BY <1>2 DEF Still, Idle
  <1>7. Lined(s)'
    BY <1>1, <1>2, <1>3, <1>6 DEF Lined, Idle
  <1>8. \A b \in Bufs : Unmoved(s, b) /\ (In(s, b)' <=> In(s, b))
    <2>1. /\ \A b \in Bufs, v \in Returners : /\ Holds(s, v, b)' <=> Holds(s, v, b)
                                              /\ Passes(s, v, b)' <=> Passes(s, v, b)
          /\ \A b \in Bufs : AtQueue(s, b)' <=> AtQueue(s, b)
          /\ \A b, at : PollAt(s, b, at)' <=> PollAt(s, b, at)
      BY <1>2 DEF Holds, Passes, AtQueue, PollAt
    <2>2. ASSUME NEW b \in Bufs
          PROVE  Unmoved(s, b)
      <3>1. \A v \in Returners : /\ Holds(s, v, b)' <=> Holds(s, v, b)
                                 /\ Passes(s, v, b)' <=> Passes(s, v, b)
        BY <2>1
      <3>2. \A at : PollAt(s, b, at)' <=> PollAt(s, b, at)
        BY <2>1
      <3> QED
        BY <1>2, <3>1, <3>2 DEF Unmoved
    <2> QED
      BY <1>2, <2>1, <2>2, UnmovedPlaces DEF In
  <1>9. Books(s) => Books(s)'
    <2>1. Counted(s)' = Counted(s)
      BY <1>8 DEF Counted
    <2>2. \A b \in Bufs : Places(s, b) /\ Book(s, b) => Places(s, b)' /\ Book(s, b)'
      BY <1>2, <1>8, UnmovedBook
    <2> QED
      BY <1>2, <2>1, <2>2 DEF Books
  <1>10. Whole(s) => Whole(s)'
    BY <1>2, <1>8, UnmovedPlaces DEF Whole
  <1>11. Dead(s) => Dead(s)'
    BY <1>2, <1>6 DEF Dead, Decs, AtStep
  <1>12. StreamInv(s)'
    BY <1>1, <1>2, <1>7, <1>9, <1>10, <1>11 DEF StreamInv, Live
  <1>13. (Fresh(s) => Fresh(s)') /\ (Undone(s) => Undone(s)')
    BY <1>2, <1>6 DEF Fresh, Undone, Idle
  <1>14. (env.stops \/ env.fails) /\ s \in streaming => (driver'[s].empty = {} => Still(s)')
    BY <1>2, <1>6, <1>1, KeptPart DEF IInv, Kept1
  <1> QED
    BY <1>2, <1>4, <1>5, <1>12, <1>13, <1>14, WorkedOf

LEMMA ProcFlushStep ==
    ASSUME IInv, NEW s \in Streams, ProcFlush(s)
    PROVE  Worked
  <1>1. /\ proc' = [proc EXCEPT ![s] = "flush"] /\ proc[s] # "gone"
        /\ halOpen' = halOpen \ {s}
        /\ UNCHANGED <<env, libVars, drvVars, pollVars, cbVars, halQ,
                       halExit, app, chan, ret, gone, ctl>>
    BY DEF ProcFlush
  <1> QED
    BY <1>1, ProcTurns

LEMMA ProcEndStep ==
    ASSUME IInv, NEW s \in Streams, ProcEnd(s)
    PROVE  Worked
  <1>1. /\ proc' = [proc EXCEPT ![s] = "gone"] /\ proc[s] = "flush"
        /\ halOpen' = halOpen /\ halQ[s] = <<>> /\ Idle(s, "proc")
        /\ UNCHANGED <<env, libVars, drvVars, pollVars, cbVars, halQ,
                       halExit, app, chan, ret, gone, ctl>>
    BY DEF ProcEnd
  <1> QED
    BY <1>1, ProcTurns

-----------------------------------------------------------------------------
(* The callback thread and the driver *)

LEMMA DispatchBooks ==
    ASSUME IInv, NEW s \in Streams, Dispatch(s), Books(s)
    PROVE  /\ Books(s)' /\ (Whole(s) => Whole(s)')
           /\ refcnt' \in [Streams -> [Bufs -> 0..255]]
  <1>1. PICK c : c = Head(nodes[s])
    OBVIOUS
  <1>2. /\ TypeOK /\ nodes \in [Streams -> Seq(Bufs)] /\ nodes[s] \in Seq(Bufs)
        /\ disp \in [Streams -> Bufs \cup {None}] /\ nodes[s] # <<>>
        /\ refcnt \in [Streams -> [Bufs -> 0..255]] /\ disp[s] = None
    BY DEF IInv, TypeOK, Dispatch
  <1>3. /\ c \in Bufs /\ Tail(nodes[s]) \in Seq(Bufs) /\ nodes'[s] = Tail(nodes[s])
        /\ \A b : b \in Range(nodes[s]) <=> b = c \/ b \in Range(nodes'[s])
        /\ Once(nodes'[s]) /\ c \notin Range(nodes'[s])
    BY <1>1, <1>2, TailFacts DEF Books, Dispatch
  <1>4. /\ disp'[s] = c /\ UNCHANGED <<queued, driver, halQ, app, gone, chan, ret, poll>>
        /\ \A b \in Bufs \ {c} : refcnt'[s][b] = refcnt[s][b]
        /\ refcnt' = [refcnt EXCEPT ![s][c] = (refcnt[s][c] + 1) % 256]
    BY <1>1, <1>2, <1>3 DEF Dispatch, drvVars, halVars, pollVars
  <1>5. /\ \A b \in Bufs, v \in Returners :
             (Holds(s, v, b)' <=> Holds(s, v, b)) /\ (Passes(s, v, b)' <=> Passes(s, v, b))
        /\ \A b \in Bufs : AtQueue(s, b)' <=> AtQueue(s, b)
        /\ \A b, at : PollAt(s, b, at)' <=> PollAt(s, b, at)
    BY <1>4 DEF Holds, Passes, AtQueue, PollAt
  <1>6. ASSUME NEW b \in Bufs \ {c}
        PROVE  /\ Unmoved(s, b) /\ (In(s, b)' <=> In(s, b))
               /\ refcnt'[s][b] = refcnt[s][b]
               /\ b \in gone'[s] <=> b \in gone[s]
    <2>1. Unmoved(s, b)
      <3>1. \A v \in Returners :
              (Holds(s, v, b)' <=> Holds(s, v, b)) /\ (Passes(s, v, b)' <=> Passes(s, v, b))
        BY <1>5
      <3>2. \A at : PollAt(s, b, at)' <=> PollAt(s, b, at)
        BY <1>5
      <3>3. disp'[s] = b <=> disp[s] = b
        BY <1>2, <1>4, BufsAssumption
      <3> QED
        BY <1>3, <1>4, <3>1, <3>2, <3>3 DEF Unmoved
    <2> QED
      BY <1>4, <1>5, <2>1, UnmovedPlaces DEF In
  <1>7. /\ Holds(s, "chan", c)' <=> Holds(s, "chan", c)
        /\ Holds(s, "disp", c)' <=> Holds(s, "disp", c)
        /\ Holds(s, "proc", c)' <=> Holds(s, "proc", c)
        /\ Holds(s, "app", c)' <=> Holds(s, "app", c)
        /\ Passing(s, c)' <=> Passing(s, c)
        /\ \A v \in Returners : Passes(s, v, c)' <=> Passes(s, v, c)
        /\ AtQueue(s, c)' <=> AtQueue(s, c)
        /\ PollAt(s, c, {"chan"})' <=> PollAt(s, c, {"chan"})
        /\ PollAt(s, c, {"ref"})' <=> PollAt(s, c, {"ref"})
        /\ PollAt(s, c, {"count", "ref"})' <=> PollAt(s, c, {"count", "ref"})
        /\ PollAt(s, c, {"chan", "node"})' <=> PollAt(s, c, {"chan", "node"})
    <2>1. /\ \A v \in Returners :
               (Holds(s, v, c)' <=> Holds(s, v, c)) /\ (Passes(s, v, c)' <=> Passes(s, v, c))
          /\ AtQueue(s, c)' <=> AtQueue(s, c)
      BY <1>3, <1>5
    <2>2. Passing(s, c)' <=> Passing(s, c)
      BY <2>1 DEF Passing
    <2> QED
      BY <1>5, <2>1, <2>2 DEF Returners
  <1>8. /\ Places(s, c) /\ Book(s, c) /\ disp[s] # c
        /\ c \in Range(nodes[s]) /\ c \notin Range(nodes'[s])
    BY <1>2, <1>3, BufsAssumption DEF Books
  <1>9. Waiting(s, c) /\ P(s, c) /\ ~ A(s, c) /\ c \notin gone[s] /\ Taken(s, c) /\ ~ D(s, c)
    BY <1>8 DEF Waiting, P, Taken, Book
  <1>10. Places(s, c)'
    <2>1. \A v, u \in Returners : Passes(s, v, c)' /\ Passes(s, u, c)' => v = u
      BY <1>7, <1>8 DEF Places
    <2> QED
      BY <1>4, <1>7, <1>8, <1>9, <2>1 DEF Places, A, Apart2, Apart3, Apart4, Apart5
  <1>11. /\ C(s, c)' <=> C(s, c)
         /\ P(s, c)' /\ A(s, c)'
         /\ D(s, c)' <=> D(s, c)
         /\ ~ Waiting(s, c)'
    BY <1>4, <1>7, <1>8 DEF C, P, A, D, Waiting, Places, Apart2, Apart3, Apart4
  <1>12. T(s, c)' = T(s, c) + 1 /\ Taken(s, c)' /\ T(s, c) \in 0..3
    BY <1>9, <1>11, TakenFacts DEF Taken, T, One
  <1>13. /\ refcnt[s][c] \in 0..3 /\ refcnt'[s][c] = refcnt[s][c] + 1
         /\ (refcnt[s][c] + 1) % 256 \in 0..255
    <2>1. refcnt[s][c] \in 0..3
      BY <1>8, <1>9, <1>12 DEF Book
    <2>2. refcnt'[s][c] = (refcnt[s][c] + 1) % 256
      BY <1>2, <1>3, <1>4
    <2> DEFINE n == refcnt[s][c]
    <2>3. n \in 0..3
      BY <2>1
    <2> HIDE DEF n
    <2>4. (n + 1) % 256 = n + 1 /\ n + 1 \in 0..255
      BY <2>3
    <2> QED
      BY <2>1, <2>2, <2>4 DEF n
  <1>14. Book(s, c)'
    BY <1>4, <1>8, <1>9, <1>11, <1>12, <1>13 DEF Book
  <1>15. In(s, c)' <=> In(s, c)
    BY <1>9, <1>12 DEF In
  <1>16. Once(driver'[s].frames) /\ Once(halQ'[s]) /\ queued'[s] = queued[s]
    BY <1>4 DEF Books
  <1>17. refcnt' \in [Streams -> [Bufs -> 0..255]]
    <2> DEFINE m == (refcnt[s][c] + 1) % 256
    <2>1. m \in 0..255 /\ c \in Bufs
      BY <1>3, <1>13
    <2>2. refcnt' = [refcnt EXCEPT ![s][c] = m]
      BY <1>4
    <2>3. refcnt \in [Streams -> [Bufs -> 0..255]]
      BY <1>2
    <2> HIDE DEF m
    <2> QED
      BY <2>1, <2>2, <2>3
  <1> QED
    BY <1>3, <1>6, <1>10, <1>12, <1>14, <1>15, <1>16, <1>17, MoveBooks

LEMMA DispatchStep ==
    ASSUME IInv, NEW s \in Streams, Dispatch(s)
    PROVE  Worked
  <1>1. /\ TypeOK /\ RetInv /\ PollInv /\ StreamInv(s) /\ Lined(s)
        /\ nodes[s] # <<>> /\ disp[s] = None /\ Idle(s, "disp")
    BY DEF IInv, StreamInv, Dispatch
  <1>2. s \in alive /\ state[s] = "ACTIVE" /\ Live(s) /\ Books(s) /\ ~ Still(s)
    BY <1>1 DEF Lined, Live, StreamInv, Still
  <1>3. UNCHANGED <<env, state, queued, driver, streaming, entries, polled, pipe,
                    status, poll, alive, halOpen, halQ, halExit, proc, app, chan,
                    ret, gone, ctl>>
    BY DEF Dispatch, drvVars, pollVars, halVars
  <1>4. /\ nodes' \in [Streams -> Seq(Bufs)] /\ disp' \in [Streams -> Bufs \cup {None}]
        /\ refcnt' \in [Streams -> [Bufs -> 0..255]]
        /\ \A t \in Streams \ {s} : /\ nodes'[t] = nodes[t] /\ disp'[t] = disp[t]
                                    /\ refcnt'[t] = refcnt[t]
    <2>1. /\ nodes \in [Streams -> Seq(Bufs)] /\ disp \in [Streams -> Bufs \cup {None}]
          /\ refcnt \in [Streams -> [Bufs -> 0..255]]
      BY <1>1 DEF TypeOK
    <2>2. Head(nodes[s]) \in Bufs /\ Tail(nodes[s]) \in Seq(Bufs)
      BY <1>1, <2>1, TailFacts
    <2>3. refcnt' \in [Streams -> [Bufs -> 0..255]]
      BY <1>2, DispatchBooks
    <2>4. /\ nodes' = [nodes EXCEPT ![s] = Tail(nodes[s])]
          /\ disp' = [disp EXCEPT ![s] = Head(nodes[s])]
      BY <2>1 DEF Dispatch
    <2>5. \A t \in Streams \ {s} : refcnt'[t] = refcnt[t]
      BY <2>1 DEF Dispatch
    <2>6. /\ nodes' \in [Streams -> Seq(Bufs)]
          /\ \A t \in Streams \ {s} : nodes'[t] = nodes[t]
      BY <2>1, <2>2, <2>4
    <2>7. /\ disp' \in [Streams -> Bufs \cup {None}]
          /\ \A t \in Streams \ {s} : disp'[t] = disp[t]
      BY <2>1, <2>2, <2>4
    <2> QED
      BY <2>3, <2>5, <2>6, <2>7
  <1>5. TypeOK'
    <2>1. TypeOK
      BY <1>1
    <2>2. /\ nodes' \in [Streams -> Seq(Bufs)] /\ disp' \in [Streams -> Bufs \cup {None}]
          /\ refcnt' \in [Streams -> [Bufs -> 0..255]]
      BY <1>4
    <2> QED
      BY <1>3, <2>1, <2>2 DEF TypeOK
  <1>6. PollInv' /\ RetInv'
    BY <1>1, <1>3, PollFramed, RetFramed
  <1>7. ASSUME NEW t \in Streams \ {s}
        PROVE  Untouched(t) /\ (t \in entries' <=> t \in entries)
    BY <1>3, <1>4 DEF Untouched
  <1>8. StreamInv(s)'
    <2>1. Lined(s)'
      BY <1>1, <1>2, <1>3 DEF Lined, Idle
    <2> QED
      BY <1>1, <1>2, <1>3, <2>1, DispatchBooks DEF StreamInv, Live
  <1>9. (Fresh(s) => Fresh(s)') /\ (Undone(s) => Undone(s)')
    BY <1>2 DEF Fresh, Undone
  <1>10. (env.stops \/ env.fails) /\ s \in streaming => (driver'[s].empty = {} => Still(s)')
    BY <1>1, <1>2, <1>3, KeptPart DEF IInv, Kept1
  <1> QED
    BY <1>3, <1>5, <1>6, <1>7, <1>8, <1>9, <1>10, WorkedOf

LEMMA NotifyBooks ==
    ASSUME IInv, NEW s \in Streams, DataNotify(s), Books(s)
    PROVE  Books(s)' /\ (Whole(s) => Whole(s)')
  <1>1. PICK c : c = disp[s]
    OBVIOUS
  <1>2. /\ TypeOK /\ RetInv /\ Lined(s) /\ disp \in [Streams -> Bufs \cup {None}]
        /\ halQ \in [Streams -> Seq(Bufs)] /\ halQ[s] \in Seq(Bufs)
        /\ gone \in [Streams -> SUBSET Bufs] /\ c \in Bufs
    BY <1>1 DEF IInv, StreamInv, TypeOK, DataNotify
  <1>3. /\ UNCHANGED <<refcnt, queued, driver, nodes, app, chan, poll, ctl>>
        /\ Start(s, "disp", c) /\ disp'[s] = None /\ Idle(s, "disp")
    BY <1>1, <1>2, BufsAssumption
       DEF DataNotify, libVars, drvVars, pollVars, Lined
  <1>4. "disp" \in Returners /\ "disp" # "app"
    BY DEF Returners
  <1>5. \A b \in Bufs : /\ Holds(s, "disp", b)' <=> b = c
                        /\ ~ Holds(s, "disp", b)
                        /\ \A v \in Returners \ {"disp"} : Holds(s, v, b)' <=> Holds(s, v, b)
                        /\ \A v \in Returners : Passes(s, v, b)' <=> Passes(s, v, b)
                        /\ AtQueue(s, b)' <=> AtQueue(s, b)
    BY <1>2, <1>3, <1>4, StartCalls
  <1>6. Places(s, c) /\ Book(s, c)
    BY <1>2 DEF Books
  <1>7. A(s, c) /\ P(s, c) /\ Taken(s, c) /\ c \notin gone[s] /\ ~ D(s, c)
    BY <1>1, <1>6 DEF A, P, Taken, Book
  <1>8. c \notin Range(halQ[s]) /\ c \notin Range(nodes[s]) /\ c \notin app[s]
    BY <1>1, <1>6 DEF Places, Apart5, Apart4
  <1>9. \/ /\ s \in halOpen /\ gone' = gone /\ Once(halQ'[s])
           /\ \A b : b \in Range(halQ'[s]) <=> b = c \/ b \in Range(halQ[s])
        \/ /\ s \notin halOpen /\ halQ' = halQ
           /\ \A b : b \in gone'[s] <=> b = c \/ b \in gone[s]
    <2>1. CASE s \in halOpen
      <3>1. halQ'[s] = Append(halQ[s], c) /\ gone' = gone
        BY <1>1, <1>2, <2>1 DEF DataNotify
      <3> QED
        BY <1>2, <1>8, <2>1, <3>1, AppendFacts DEF Books
    <2>2. CASE s \notin halOpen
      BY <1>1, <1>2, <2>2 DEF DataNotify
    <2> QED
      BY <2>1, <2>2
  <1>10. \A b, at : PollAt(s, b, at)' <=> PollAt(s, b, at)
    BY <1>3 DEF PollAt
  <1>11. ASSUME NEW b \in Bufs \ {c}
         PROVE  /\ Unmoved(s, b) /\ (In(s, b)' <=> In(s, b))
                /\ refcnt'[s][b] = refcnt[s][b]
                /\ b \in gone'[s] <=> b \in gone[s]
    <2>1. b \in gone'[s] <=> b \in gone[s]
      BY <1>9
    <2>2. Unmoved(s, b)
      <3>1. \A v \in Returners :
              (Holds(s, v, b)' <=> Holds(s, v, b)) /\ (Passes(s, v, b)' <=> Passes(s, v, b))
        BY <1>5
      <3>2. \A at : PollAt(s, b, at)' <=> PollAt(s, b, at)
        BY <1>10
      <3>3. disp'[s] = b <=> disp[s] = b
        BY <1>1, <1>3, BufsAssumption
      <3>4. b \in Range(halQ'[s]) <=> b \in Range(halQ[s])
        BY <1>9
      <3> QED
        BY <1>3, <3>1, <3>2, <3>3, <3>4 DEF Unmoved
    <2> QED
      BY <1>3, <1>5, <1>10, <2>1, <2>2, UnmovedPlaces DEF In
  <1>12. /\ Holds(s, "chan", c)' <=> Holds(s, "chan", c)
         /\ Holds(s, "disp", c)' /\ ~ Holds(s, "disp", c)
         /\ Holds(s, "proc", c)' <=> Holds(s, "proc", c)
         /\ Holds(s, "app", c)' <=> Holds(s, "app", c)
         /\ Passing(s, c)' <=> Passing(s, c)
         /\ \A v \in Returners : Passes(s, v, c)' <=> Passes(s, v, c)
         /\ AtQueue(s, c)' <=> AtQueue(s, c)
         /\ PollAt(s, c, {"chan"})' <=> PollAt(s, c, {"chan"})
         /\ PollAt(s, c, {"ref"})' <=> PollAt(s, c, {"ref"})
         /\ PollAt(s, c, {"count", "ref"})' <=> PollAt(s, c, {"count", "ref"})
         /\ PollAt(s, c, {"chan", "node"})' <=> PollAt(s, c, {"chan", "node"})
    <2>1. Passing(s, c)' <=> Passing(s, c)
      BY <1>2, <1>5 DEF Passing
    <2> QED
      BY <1>2, <1>5, <1>10, <2>1 DEF Returners
  <1>13. disp[s] = c /\ disp'[s] # c
    BY <1>1, <1>2, <1>3, BufsAssumption
  <1>14. /\ c \in Range(halQ'[s]) <=> s \in halOpen
         /\ c \in gone'[s] <=> s \notin halOpen
    BY <1>7, <1>8, <1>9
  <1>15. Places(s, c)'
    <2>1. \A v, u \in Returners : Passes(s, v, c)' /\ Passes(s, u, c)' => v = u
      BY <1>6, <1>12 DEF Places
    <2> QED
      BY <1>3, <1>6, <1>12, <1>13, <1>14, <2>1
         DEF Places, Apart2, Apart3, Apart4, Apart5
  <1>16. /\ C(s, c)' <=> C(s, c)
         /\ P(s, c)' /\ (A(s, c)' <=> s \in halOpen)
         /\ D(s, c)' <=> D(s, c)
         /\ ~ Waiting(s, c)'
    BY <1>3, <1>6, <1>8, <1>12, <1>13, <1>14
       DEF C, P, A, D, Waiting, Places, Apart2, Apart3, Apart4, Apart5
  <1>17. /\ T(s, c)' = IF s \in halOpen THEN T(s, c) ELSE T(s, c) - 1
         /\ Taken(s, c)' /\ T(s, c) \in 0..3
    BY <1>7, <1>16, TakenFacts DEF Taken, T, One
  <1>18. Book(s, c)'
    BY <1>3, <1>6, <1>7, <1>14, <1>16, <1>17 DEF Book
  <1>19. In(s, c)' <=> In(s, c)
    BY <1>7, <1>17 DEF In
  <1>20. /\ Once(driver'[s].frames) /\ Once(halQ'[s]) /\ Once(nodes'[s])
         /\ queued'[s] = queued[s] /\ refcnt' = refcnt
    BY <1>3, <1>9 DEF Books
  <1> QED
    BY <1>2, <1>11, <1>15, <1>17, <1>18, <1>19, <1>20, MoveBooks

LEMMA DataNotifyStep ==
    ASSUME IInv, NEW s \in Streams, DataNotify(s)
    PROVE  Worked
  <1>1. PICK c : c = disp[s]
    OBVIOUS
  <1>2. /\ TypeOK /\ RetInv /\ PollInv /\ StreamInv(s) /\ Lined(s)
        /\ disp \in [Streams -> Bufs \cup {None}] /\ c \in Bufs
        /\ halQ \in [Streams -> Seq(Bufs)]
        /\ gone \in [Streams -> SUBSET Bufs] /\ disp[s] # None
    BY <1>1 DEF IInv, StreamInv, TypeOK, DataNotify
  <1>3. /\ s \in alive /\ state[s] = "ACTIVE" /\ Live(s) /\ Books(s) /\ ~ Still(s)
        /\ Idle(s, "disp")
    BY <1>2 DEF Lined, Live, StreamInv, Still
  <1>4. /\ UNCHANGED <<env, state, refcnt, queued, driver, streaming, entries, polled,
                       pipe, status, poll, alive, nodes, halOpen, halExit, proc, app,
                       chan, ctl>>
        /\ Start(s, "disp", c) /\ disp' = [disp EXCEPT ![s] = None]
        /\ "disp" \in Returners /\ "disp" # "app"
    BY <1>1 DEF DataNotify, libVars, drvVars, pollVars, Returners
  <1>5. /\ ret' \in RetType /\ RetInv'
        /\ \A t \in Streams \ {s} : ret'[t] = ret[t]
        /\ \A v \in Returners \ {"disp"} : ret'[s][v] = ret[s][v]
    BY <1>2, <1>3, <1>4, StartCalls
  <1>6. /\ halQ' \in [Streams -> Seq(Bufs)] /\ gone' \in [Streams -> SUBSET Bufs]
        /\ disp' \in [Streams -> Bufs \cup {None}]
        /\ s \notin halOpen => halQ' = halQ
        /\ \A t \in Streams \ {s} : /\ halQ'[t] = halQ[t] /\ gone'[t] = gone[t]
                                    /\ disp'[t] = disp[t]
    <2>1. Append(halQ[s], c) \in Seq(Bufs)
      BY <1>2
    <2>2. \/ s \in halOpen /\ halQ' = [halQ EXCEPT ![s] = Append(halQ[s], c)] /\ gone' = gone
          \/ s \notin halOpen /\ gone' = [gone EXCEPT ![s] = gone[s] \cup {c}] /\ halQ' = halQ
      BY <1>1, <1>2 DEF DataNotify
    <2>3. halQ' \in [Streams -> Seq(Bufs)] /\ \A t \in Streams \ {s} : halQ'[t] = halQ[t]
      BY <1>2, <2>1, <2>2
    <2>4. gone' \in [Streams -> SUBSET Bufs] /\ \A t \in Streams \ {s} : gone'[t] = gone[t]
      BY <1>2, <2>2
    <2>5. disp' \in [Streams -> Bufs \cup {None}] /\ \A t \in Streams \ {s} : disp'[t] = disp[t]
      BY <1>2, <1>4
    <2> QED
      BY <2>2, <2>3, <2>4, <2>5
  <1>7. TypeOK'
    <2>1. TypeOK
      BY <1>2
    <2>2. /\ ret' \in RetType /\ halQ' \in [Streams -> Seq(Bufs)]
          /\ gone' \in [Streams -> SUBSET Bufs] /\ disp' \in [Streams -> Bufs \cup {None}]
      BY <1>5, <1>6
    <2>3. UNCHANGED <<env, state, refcnt, queued, driver, streaming, entries, polled,
                      pipe, status, poll, alive, nodes, halOpen, halExit, proc, app,
                      chan, ctl>>
      BY <1>4
    <2> QED
      BY <2>1, <2>2, <2>3 DEF TypeOK, RetType
  <1>8. PollInv'
    BY <1>2, <1>4, PollFramed
  <1>9. ASSUME NEW t \in Streams \ {s}
        PROVE  Untouched(t) /\ (t \in entries' <=> t \in entries)
    BY <1>4, <1>5, <1>6 DEF Untouched
  <1>10. StreamInv(s)'
    <2>1. Lined(s)'
      <3>1. ret'[s]["proc"] = ret[s]["proc"]
        BY <1>5 DEF Returners
      <3>2. proc[s] = "gone" => s \notin halOpen
        BY <1>2 DEF Lined
      <3>3. disp'[s] = None
        BY <1>2, <1>4
      <3> QED
        BY <1>2, <1>3, <1>4, <1>6, <3>1, <3>2, <3>3 DEF Lined, Idle
    <2> QED
      BY <1>2, <1>3, <1>4, <2>1, NotifyBooks DEF StreamInv, Live
  <1>11. (Fresh(s) => Fresh(s)') /\ (Undone(s) => Undone(s)')
    BY <1>3 DEF Fresh, Undone
  <1>12. (env.stops \/ env.fails) /\ s \in streaming => (driver'[s].empty = {} => Still(s)')
    BY <1>2, <1>3, <1>4, KeptPart DEF IInv, Kept1
  <1> QED
    BY <1>4, <1>5, <1>7, <1>8, <1>9, <1>10, <1>11, <1>12, WorkedOf

(* The hardware fills a buffer. *)
LEMMA FillFacts ==
    ASSUME IInv, NEW s \in Streams, Fill(s)
    PROVE  \E c \in driver[s].empty :
             /\ c \in Bufs /\ driver' \in [Streams -> [empty : SUBSET Bufs, frames : Seq(Bufs)]]
             /\ \A t \in Streams \ {s} : driver'[t] = driver[t]
             /\ driver'[s].empty = driver[s].empty \ {c}
             /\ driver'[s].frames = Append(driver[s].frames, c)
             /\ driver[s].frames \in Seq(Bufs)
  <1>1. driver \in [Streams -> [empty : SUBSET Bufs, frames : Seq(Bufs)]]
    BY DEF IInv, TypeOK
  <1>2. PICK c \in driver[s].empty :
          driver' = [driver EXCEPT ![s] =
                       [empty |-> @.empty \ {c}, frames |-> Append(@.frames, c)]]
    BY DEF Fill
  <1>3. /\ c \in Bufs /\ driver[s].frames \in Seq(Bufs)
        /\ Append(driver[s].frames, c) \in Seq(Bufs)
    BY <1>1, <1>2
  <1> QED
    BY <1>1, <1>2, <1>3

LEMMA FillBooks ==
    ASSUME IInv, NEW s \in Streams, Fill(s), Books(s)
    PROVE  Books(s)' /\ (Whole(s) => Whole(s)')
  <1>1. PICK c \in driver[s].empty :
             /\ c \in Bufs
             /\ driver'[s].empty = driver[s].empty \ {c}
             /\ driver'[s].frames = Append(driver[s].frames, c)
             /\ driver[s].frames \in Seq(Bufs)
    BY FillFacts
  <1>2. UNCHANGED <<refcnt, queued, nodes, disp, halQ, app, chan, poll, ret, gone>>
    BY DEF Fill, libVars, pollVars, cbVars, halVars
  <1>3. Places(s, c) /\ Book(s, c)
    BY <1>1 DEF Books
  <1>4. c \notin Range(driver[s].frames) /\ ~ Passing(s, c) /\ ~ PollAt(s, c, {"count", "ref"})
    BY <1>1, <1>3 DEF Places, Apart4, Apart3
  <1>5. /\ Once(driver'[s].frames)
        /\ \A b : b \in Range(driver'[s].frames) <=> b = c \/ b \in Range(driver[s].frames)
    BY <1>1, <1>4, AppendFacts DEF Books
  <1>6. /\ \A b \in Bufs, v \in Returners :
             (Holds(s, v, b)' <=> Holds(s, v, b)) /\ (Passes(s, v, b)' <=> Passes(s, v, b))
        /\ \A b \in Bufs : AtQueue(s, b)' <=> AtQueue(s, b)
        /\ \A b, at : PollAt(s, b, at)' <=> PollAt(s, b, at)
    BY <1>2 DEF Holds, Passes, AtQueue, PollAt
  <1>7. ASSUME NEW b \in Bufs \ {c}
        PROVE  /\ Unmoved(s, b) /\ (In(s, b)' <=> In(s, b))
               /\ refcnt'[s][b] = refcnt[s][b]
               /\ b \in gone'[s] <=> b \in gone[s]
    <2>1. Unmoved(s, b)
      <3>1. \A v \in Returners :
              (Holds(s, v, b)' <=> Holds(s, v, b)) /\ (Passes(s, v, b)' <=> Passes(s, v, b))
        BY <1>6
      <3>2. \A at : PollAt(s, b, at)' <=> PollAt(s, b, at)
        BY <1>6
      <3> QED
        BY <1>1, <1>2, <1>5, <3>1, <3>2 DEF Unmoved
    <2> QED
      BY <1>2, <1>6, <2>1, UnmovedPlaces DEF In
  <1>8. /\ Holds(s, "chan", c)' <=> Holds(s, "chan", c)
        /\ Holds(s, "disp", c)' <=> Holds(s, "disp", c)
        /\ Holds(s, "proc", c)' <=> Holds(s, "proc", c)
        /\ Holds(s, "app", c)' <=> Holds(s, "app", c)
        /\ Passing(s, c)' <=> Passing(s, c)
        /\ \A v \in Returners : Passes(s, v, c)' <=> Passes(s, v, c)
        /\ AtQueue(s, c)' <=> AtQueue(s, c)
        /\ PollAt(s, c, {"chan"})' <=> PollAt(s, c, {"chan"})
        /\ PollAt(s, c, {"ref"})' <=> PollAt(s, c, {"ref"})
        /\ PollAt(s, c, {"count", "ref"})' <=> PollAt(s, c, {"count", "ref"})
        /\ PollAt(s, c, {"chan", "node"})' <=> PollAt(s, c, {"chan", "node"})
    <2>1. /\ \A v \in Returners :
               (Holds(s, v, c)' <=> Holds(s, v, c)) /\ (Passes(s, v, c)' <=> Passes(s, v, c))
          /\ AtQueue(s, c)' <=> AtQueue(s, c)
      BY <1>1, <1>6
    <2>2. Passing(s, c)' <=> Passing(s, c)
      BY <2>1 DEF Passing
    <2> QED
      BY <1>6, <2>1, <2>2 DEF Returners
  <1>9. c \notin driver'[s].empty /\ c \in Range(driver'[s].frames)
    BY <1>1, <1>5
  <1>10. Places(s, c)'
    <2>1. \A v, u \in Returners : Passes(s, v, c)' /\ Passes(s, u, c)' => v = u
      BY <1>3, <1>8 DEF Places
    <2> QED
      BY <1>2, <1>3, <1>4, <1>8, <1>9, <2>1
         DEF Places, Apart2, Apart3, Apart4, Apart5
  <1>11. /\ C(s, c)' <=> C(s, c)
         /\ P(s, c)' <=> P(s, c)
         /\ A(s, c)' <=> A(s, c)
         /\ D(s, c)' /\ D(s, c)
         /\ Waiting(s, c)' <=> Waiting(s, c)
    BY <1>1, <1>2, <1>8, <1>9 DEF C, P, A, D, Waiting
  <1>12. (Taken(s, c)' <=> Taken(s, c)) /\ T(s, c)' = T(s, c)
    BY <1>11 DEF Taken, T, One
  <1>13. Book(s, c)'
    BY <1>2, <1>3, <1>11, <1>12 DEF Book
  <1>14. In(s, c)' <=> In(s, c)
    BY <1>2, <1>8, <1>12 DEF In
  <1>15. Once(nodes'[s]) /\ Once(halQ'[s]) /\ queued'[s] = queued[s]
    BY <1>2 DEF Books
  <1> QED
    BY <1>1, <1>5, <1>7, <1>10, <1>11, <1>13, <1>14, <1>15, MoveBooks

LEMMA FillStep ==
    ASSUME Reserved, IInv, NEW s \in Streams, Fill(s)
    PROVE  Worked
  <1>1. PICK c \in driver[s].empty :
             /\ c \in Bufs /\ driver' \in [Streams -> [empty : SUBSET Bufs, frames : Seq(Bufs)]]
             /\ \A t \in Streams \ {s} : driver'[t] = driver[t]
             /\ driver'[s].empty = driver[s].empty \ {c}
    BY FillFacts
  <1>2. /\ TypeOK /\ RetInv /\ PollInv /\ StreamInv(s) /\ Lined(s)
        /\ s \in streaming
    BY DEF IInv, StreamInv, Fill
  <1>3. state[s] = "ACTIVE" /\ Live(s) /\ Books(s)
    BY <1>2 DEF Lined, Live, StreamInv
  <1>4. UNCHANGED <<env, state, refcnt, queued, streaming, entries, polled, pipe,
                    status, poll, alive, nodes, disp, halOpen, halQ, halExit, proc,
                    app, chan, ret, gone, ctl>>
    BY DEF Fill, libVars, pollVars, cbVars, halVars
  <1>5. TypeOK'
    <2>1. TypeOK
      BY <1>2
    <2>2. driver' \in [Streams -> [empty : SUBSET Bufs, frames : Seq(Bufs)]]
      BY <1>1
    <2> QED
      BY <1>4, <2>1, <2>2 DEF TypeOK
  <1>6. PollInv' /\ RetInv'
    BY <1>2, <1>4, PollFramed, RetFramed
  <1>7. ASSUME NEW t \in Streams \ {s}
        PROVE  Untouched(t) /\ (t \in entries' <=> t \in entries)
    BY <1>1, <1>4 DEF Untouched
  <1>8. StreamInv(s)'
    <2>1. Lined(s)'
      BY <1>2, <1>3, <1>4 DEF Lined, Idle
    <2> QED
      BY <1>2, <1>3, <1>4, <2>1, FillBooks DEF StreamInv, Live
  <1>9. (Fresh(s) => Fresh(s)') /\ (Undone(s) => Undone(s)')
    BY <1>3 DEF Fresh, Undone
  <1>10. env.stops \/ env.fails => driver'[s].empty # {}
    <2>1. ASSUME env.stops \/ env.fails, driver'[s].empty = {}
          PROVE  FALSE
      <3>1. env \in Envs /\ env.reserve[s] > 0 /\ env.reserve[s] \in Nat
        BY <1>2, <2>1, EnvAssumption DEF Reserved, TypeOK
      <3>2. driver[s].empty = {c}
        BY <1>1, <2>1
      <3>3. Cardinality(driver[s].empty) = 1
        BY <3>2, FS_Singleton
      <3>4. Cardinality(driver[s].empty) > env.reserve[s]
        BY DEF Fill
      <3> QED
        BY <3>1, <3>3, <3>4
    <2> QED
      BY <2>1
  <1> QED
    BY <1>4, <1>5, <1>6, <1>7, <1>8, <1>9, <1>10, WorkedOf

-----------------------------------------------------------------------------
(* The poll thread *)

LEMMA QuietStep ==
    ASSUME IInv, TypeOK', UNCHANGED ret, \A t \in Streams : Untouched(t),
           UNCHANGED <<env, state, streaming, entries, ctl>>,
           status' = status \/ poll.stream = None,
           poll'.stream = poll.stream, poll'.buf = poll.buf, poll'.at = poll.at
    PROVE  Worked
  <1>1. /\ TypeOK /\ RetInv /\ PollInv /\ \A t \in Streams : StreamInv(t)
    BY DEF IInv
  <1>2. PollInv' /\ RetInv'
    BY <1>1 DEF PollInv, RetInv
  <1>3. Framed
    BY UntouchedFramed DEF Framed
  <1>4. \A t \in Streams : StreamInv(t)'
    BY <1>1, UntouchedInv
  <1>5. ASSUME env.stops \/ env.fails, NEW t \in Streams
        PROVE  Kept1(t)'
    <2>1. Kept1(t) /\ Stopping' = Stopping
      BY <1>1, <1>5, KeptPart DEF IInv, Stopping
    <2>2. (Still(t)' <=> Still(t)) /\ Untouched(t)
      BY UntouchedUnmoved
    <2>3. poll.stream = t => status' = status
      BY BufsAssumption
    <2> QED
      BY <2>1, <2>2, <2>3 DEF Kept1, Untouched
  <1> QED
    BY <1>2, <1>3, <1>4, <1>5 DEF Worked

LEMMA PollCommandStep ==
    ASSUME IInv, PollCommand
    PROVE  Worked
  <1>1. TypeOK /\ poll.stream = None
    BY DEF IInv, PollInv, PollCommand
  <1>2. UNCHANGED <<env, state, refcnt, queued, driver, streaming, entries, poll,
                    alive, nodes, disp, halOpen, halQ, halExit, proc, app, chan, ret,
                    gone, ctl>>
    BY DEF PollCommand, libVars, drvVars, cbVars, halVars
  <1>3. TypeOK'
    <2>1. pipe' \in Seq({"SYNC", "ASYNC"}) /\ polled' \subseteq Streams /\ status' \in BOOLEAN
      <3>1. pipe \in Seq({"SYNC", "ASYNC"}) /\ pipe # <<>> /\ entries \subseteq Streams
            /\ status \in BOOLEAN
        BY <1>1 DEF TypeOK, PollCommand
      <3>2. Tail(pipe) \in Seq({"SYNC", "ASYNC"})
        BY <3>1, TailFacts
      <3> QED
        BY <3>1, <3>2 DEF PollCommand
    <2> QED
      BY <1>1, <1>2, <2>1 DEF TypeOK
  <1>4. \A t \in Streams : Untouched(t)
    BY <1>2 DEF Untouched
  <1> QED
    BY <1>1, <1>2, <1>3, <1>4, QuietStep

LEMMA PollReadyStep ==
    ASSUME IInv, NEW R \in SUBSET Streams, poll' = [poll EXCEPT !.ready = R],
           UNCHANGED <<env, libVars, drvVars, entries, polled, pipe, status, cbVars,
                   halVars, chan, ret, gone, ctl>>
    PROVE  Worked
  <1>1. TypeOK
    BY DEF IInv
  <1>2. UNCHANGED <<env, state, refcnt, queued, driver, streaming, entries, polled,
                    pipe, status, alive, nodes, disp, halOpen, halQ, halExit, proc,
                    app, chan, ret, gone, ctl>>
    BY DEF libVars, drvVars, cbVars, halVars
  <1>3. /\ poll' \in [at : {"poll", "count", "ref", "chan", "node"},
                      ready : SUBSET Streams, stream : Streams \cup {None},
                      buf : Bufs \cup {None}]
        /\ poll'.stream = poll.stream /\ poll'.buf = poll.buf /\ poll'.at = poll.at
    BY <1>1 DEF TypeOK
  <1>4. TypeOK'
    BY <1>1, <1>2, <1>3 DEF TypeOK
  <1>5. \A t \in Streams : Untouched(t)
    BY <1>2, <1>3 DEF Untouched
  <1> QED
    BY <1>2, <1>3, <1>4, <1>5, QuietStep

LEMMA PollFramesStep ==
    ASSUME IInv, PollFrames
    PROVE  Worked
  <1>1. streaming \subseteq Streams
    BY DEF IInv, TypeOK
  <1>2. PICK R : /\ R = {s \in polled \cap streaming : driver[s].frames # <<>>}
                 /\ poll' = [poll EXCEPT !.ready = R]
    BY DEF PollFrames
  <1>3. R \in SUBSET Streams
    BY <1>1, <1>2
  <1>4. UNCHANGED <<env, libVars, drvVars, entries, polled, pipe, status, cbVars,
                    halVars, chan, ret, gone, ctl>>
    BY DEF PollFrames
  <1> QED
    BY <1>2, <1>3, <1>4, PollReadyStep

LEMMA PollSkipStep ==
    ASSUME IInv, NEW s \in Streams, PollSkip(s)
    PROVE  Worked
  <1>1. poll.ready \subseteq Streams
    BY DEF IInv, TypeOK
  <1>2. PICK R : R = poll.ready \ {s} /\ poll' = [poll EXCEPT !.ready = R]
    BY DEF PollSkip
  <1>3. R \in SUBSET Streams
    BY <1>1, <1>2
  <1>4. UNCHANGED <<env, libVars, drvVars, entries, polled, pipe, status, cbVars,
                    halVars, chan, ret, gone, ctl>>
    BY DEF PollSkip
  <1> QED
    BY <1>2, <1>3, <1>4, PollReadyStep

LEMMA DequeueBooks ==
    ASSUME IInv, NEW s \in Streams, PollDequeue(s), Books(s)
    PROVE  Books(s)' /\ (Whole(s) => Whole(s)')
  <1>1. PICK c : c = Head(driver[s].frames)
    OBVIOUS
  <1>2. /\ TypeOK /\ PollInv
        /\ driver \in [Streams -> [empty : SUBSET Bufs, frames : Seq(Bufs)]]
        /\ driver[s].frames \in Seq(Bufs) /\ driver[s].frames # <<>>
        /\ poll.stream = None /\ poll.buf = None /\ poll.at = "poll"
    BY DEF IInv, TypeOK, PollInv, PollDequeue
  <1>3. /\ driver'[s].frames = Tail(driver[s].frames) /\ driver'[s].empty = driver[s].empty
        /\ poll'.at = "count" /\ poll'.stream = s /\ poll'.buf = c
    BY <1>1, <1>2 DEF PollDequeue
  <1>4. /\ c \in Bufs
        /\ \A b : b \in Range(driver[s].frames) <=> b = c \/ b \in Range(driver'[s].frames)
        /\ Once(driver'[s].frames) /\ c \notin Range(driver'[s].frames)
    BY <1>1, <1>2, <1>3, TailFacts DEF Books
  <1>5. UNCHANGED <<refcnt, queued, nodes, disp, halQ, app, chan, ret, gone>>
    BY DEF PollDequeue, libVars, cbVars, halVars
  <1>6. /\ \A b \in Bufs, v \in Returners :
             (Holds(s, v, b)' <=> Holds(s, v, b)) /\ (Passes(s, v, b)' <=> Passes(s, v, b))
        /\ \A b \in Bufs : AtQueue(s, b)' <=> AtQueue(s, b)
    BY <1>5 DEF Holds, Passes, AtQueue
  <1>7. ASSUME NEW b \in Bufs \ {c}
        PROVE  /\ Unmoved(s, b) /\ (In(s, b)' <=> In(s, b))
               /\ refcnt'[s][b] = refcnt[s][b]
               /\ b \in gone'[s] <=> b \in gone[s]
    <2>1. \A at : PollAt(s, b, at)' <=> PollAt(s, b, at)
      BY <1>2, <1>3, BufsAssumption DEF PollAt
    <2>2. Unmoved(s, b)
      <3>1. \A v \in Returners :
              (Holds(s, v, b)' <=> Holds(s, v, b)) /\ (Passes(s, v, b)' <=> Passes(s, v, b))
        BY <1>6
      <3> QED
        BY <1>3, <1>4, <1>5, <2>1, <3>1 DEF Unmoved
    <2> QED
      BY <1>5, <1>6, <2>1, <2>2, UnmovedPlaces DEF In
  <1>8. /\ Holds(s, "chan", c)' <=> Holds(s, "chan", c)
        /\ Holds(s, "disp", c)' <=> Holds(s, "disp", c)
        /\ Holds(s, "proc", c)' <=> Holds(s, "proc", c)
        /\ Holds(s, "app", c)' <=> Holds(s, "app", c)
        /\ Passing(s, c)' <=> Passing(s, c)
        /\ \A v \in Returners : Passes(s, v, c)' <=> Passes(s, v, c)
        /\ AtQueue(s, c)' <=> AtQueue(s, c)
    <2>1. /\ \A v \in Returners :
               (Holds(s, v, c)' <=> Holds(s, v, c)) /\ (Passes(s, v, c)' <=> Passes(s, v, c))
          /\ AtQueue(s, c)' <=> AtQueue(s, c)
      BY <1>4, <1>6
    <2>2. Passing(s, c)' <=> Passing(s, c)
      BY <2>1 DEF Passing
    <2> QED
      BY <2>1, <2>2 DEF Returners
  <1>9. /\ ~ PollAt(s, c, {"chan"}) /\ ~ PollAt(s, c, {"chan"})'
         /\ ~ PollAt(s, c, {"ref"}) /\ ~ PollAt(s, c, {"ref"})'
         /\ ~ PollAt(s, c, {"chan", "node"}) /\ ~ PollAt(s, c, {"chan", "node"})'
         /\ ~ PollAt(s, c, {"count", "ref"}) /\ PollAt(s, c, {"count", "ref"})'
    BY <1>2, <1>3, BufsAssumption DEF PollAt
  <1>10. Places(s, c) /\ Book(s, c)
    BY <1>4 DEF Books
  <1>11. c \in Range(driver[s].frames) /\ c \notin Range(driver'[s].frames)
    BY <1>4
  <1>12. Places(s, c)'
    <2>1. \A v, u \in Returners : Passes(s, v, c)' /\ Passes(s, u, c)' => v = u
      BY <1>8, <1>10 DEF Places
    <2> QED
      BY <1>3, <1>5, <1>8, <1>9, <1>10, <1>11, <2>1
         DEF Places, Apart2, Apart3, Apart4, Apart5
  <1>13. /\ C(s, c)' <=> C(s, c)
         /\ P(s, c)' <=> P(s, c)
         /\ A(s, c)' <=> A(s, c)
         /\ D(s, c)' /\ D(s, c)
         /\ Waiting(s, c)' <=> Waiting(s, c)
    BY <1>5, <1>8, <1>9, <1>11 DEF C, P, A, D, Waiting
  <1>14. (Taken(s, c)' <=> Taken(s, c)) /\ T(s, c)' = T(s, c)
    BY <1>13 DEF Taken, T, One
  <1>15. Book(s, c)'
    BY <1>5, <1>10, <1>13, <1>14 DEF Book
  <1>16. In(s, c)' <=> In(s, c)
    BY <1>5, <1>8, <1>9, <1>14 DEF In
  <1>17. Once(nodes'[s]) /\ Once(halQ'[s]) /\ queued'[s] = queued[s]
    BY <1>5 DEF Books
  <1> QED
    BY <1>4, <1>7, <1>12, <1>13, <1>15, <1>16, <1>17, MoveBooks

LEMMA PollDequeueStep ==
    ASSUME IInv, NEW s \in Streams, PollDequeue(s)
    PROVE  Worked
  <1>1. PICK c : c = Head(driver[s].frames)
    OBVIOUS
  <1>2. /\ TypeOK /\ RetInv /\ PollInv /\ StreamInv(s) /\ Lined(s)
        /\ driver \in [Streams -> [empty : SUBSET Bufs, frames : Seq(Bufs)]]
        /\ driver[s].frames \in Seq(Bufs) /\ driver[s].frames # <<>>
        /\ poll.stream = None /\ poll.ready \subseteq Streams
        /\ s \in entries /\ state[s] = "ACTIVE"
    BY DEF IInv, TypeOK, StreamInv, PollInv, PollDequeue
  <1>3. s \in streaming /\ Live(s) /\ Books(s) /\ ~ Still(s)
    BY <1>2 DEF Lined, Live, StreamInv, Still
  <1>4. c \in Bufs /\ Tail(driver[s].frames) \in Seq(Bufs)
    BY <1>1, <1>2, TailFacts
  <1>5. UNCHANGED <<env, state, refcnt, queued, streaming, entries, polled, pipe,
                    status, alive, nodes, disp, halOpen, halQ, halExit, proc, app,
                    chan, ret, gone, ctl>>
    BY DEF PollDequeue, libVars, cbVars, halVars
  <1>6. /\ driver' \in [Streams -> [empty : SUBSET Bufs, frames : Seq(Bufs)]]
        /\ driver'[s].empty = driver[s].empty
        /\ \A t \in Streams \ {s} : driver'[t] = driver[t]
    <2>1. [driver[s] EXCEPT !.frames = Tail(@)] \in [empty : SUBSET Bufs, frames : Seq(Bufs)]
      BY <1>2, <1>4
    <2>2. driver' = [driver EXCEPT ![s] = [driver[s] EXCEPT !.frames = Tail(@)]]
      BY <1>2 DEF PollDequeue
    <2> QED
      BY <1>2, <2>1, <2>2
  <1>7. poll' = [at |-> "count", ready |-> poll.ready \ {s}, stream |-> s, buf |-> c]
    BY <1>1 DEF PollDequeue
  <1>8. TypeOK'
    <2>1. poll' \in [at : {"poll", "count", "ref", "chan", "node"},
                     ready : SUBSET Streams, stream : Streams \cup {None},
                     buf : Bufs \cup {None}]
      BY <1>2, <1>4, <1>7
    <2> QED
      BY <1>2, <1>5, <1>6, <2>1 DEF TypeOK
  <1>9. PollInv' /\ RetInv'
    BY <1>2, <1>4, <1>5, <1>7, BufsAssumption DEF PollInv, RetInv
  <1>10. ASSUME NEW t \in Streams \ {s}
         PROVE  Untouched(t) /\ (t \in entries' <=> t \in entries)
    <2>1. poll.stream # t /\ poll'.stream # t
      BY <1>2, <1>7, BufsAssumption
    <2> QED
      BY <1>5, <1>6, <2>1 DEF Untouched
  <1>11. StreamInv(s)'
    <2>1. Lined(s)'
      BY <1>2, <1>3, <1>5 DEF Lined, Idle
    <2> QED
      BY <1>2, <1>3, <1>5, <2>1, DequeueBooks DEF StreamInv, Live
  <1>12. (Fresh(s) => Fresh(s)') /\ (Undone(s) => Undone(s)')
    BY <1>2 DEF Fresh, Undone
  <1>13. (env.stops \/ env.fails) /\ s \in streaming => (driver'[s].empty = {} => Still(s)')
    BY <1>2, <1>3, <1>6, KeptPart DEF IInv, Kept1
  <1> QED
    BY <1>2, <1>5, <1>8, <1>9, <1>10, <1>11, <1>12, <1>13, WorkedOf

(* The buffer in the poll thread's hands. *)
LEMMA PollHas ==
    ASSUME IInv, poll.at # "poll"
    PROVE  \E s \in Streams, c \in Bufs :
             /\ s = poll.stream /\ c = poll.buf
             /\ TypeOK /\ RetInv /\ PollInv /\ StreamInv(s) /\ Lined(s)
             /\ s \in streaming /\ state[s] = "ACTIVE" /\ Live(s) /\ Books(s)
             /\ Whole(s) /\ ~ Still(s) /\ Places(s, c) /\ Book(s, c)
             /\ \A at : PollAt(s, c, at) <=> poll.at \in at
             /\ env.stops \/ env.fails => driver[s].empty # {}
  <1>1. /\ TypeOK /\ RetInv /\ PollInv /\ \A s \in Streams : StreamInv(s)
        /\ poll.stream \in Streams \cup {None} /\ poll.buf \in Bufs \cup {None}
    BY DEF IInv, TypeOK
  <1>2. PICK s \in Streams : s = poll.stream
    BY <1>1 DEF PollInv
  <1>3. PICK c \in Bufs : c = poll.buf
    BY <1>1 DEF PollInv
  <1>4. /\ StreamInv(s) /\ Lined(s) /\ s \in streaming /\ state[s] = "ACTIVE"
        /\ Live(s) /\ Books(s) /\ Whole(s) /\ ~ Still(s)
    BY <1>1, <1>2 DEF StreamInv, Lined, Live, Still
  <1>5. Places(s, c) /\ Book(s, c)
    BY <1>4 DEF Books
  <1>6. \A at : PollAt(s, c, at) <=> poll.at \in at
    BY <1>2, <1>3 DEF PollAt
  <1>7. env.stops \/ env.fails => driver[s].empty # {}
    BY <1>1, <1>4, KeptPart DEF IInv, Kept1
  <1> QED
    BY <1>1, <1>2, <1>3, <1>4, <1>5, <1>6, <1>7

(* The poll thread goes on with its buffer. *)
PollGoes(s, c, at) ==
    /\ poll.at # "poll" /\ poll.stream = s /\ poll.buf = c
    /\ poll' = [poll EXCEPT !.at = at]
    /\ UNCHANGED <<driver, nodes, disp, halQ, app, ret, gone>>

LEMMA PollGoesFacts ==
    ASSUME IInv, NEW s \in Streams, NEW c \in Bufs,
           NEW at \in {"ref", "chan", "node"}, PollGoes(s, c, at)
    PROVE  /\ poll'.at = at /\ poll'.stream = s /\ poll'.buf = c
           /\ poll' \in [at : {"poll", "count", "ref", "chan", "node"},
                         ready : SUBSET Streams, stream : Streams \cup {None},
                         buf : Bufs \cup {None}]
           /\ \A b \in Bufs \ {c}, ats \in {{"chan"}, {"chan", "node"}, {"ref"}, {"count", "ref"}} :
                PollAt(s, b, ats)' <=> PollAt(s, b, ats)
           /\ \A ats : PollAt(s, c, ats)' <=> at \in ats
           /\ \A b \in Bufs, v \in Returners :
                (Holds(s, v, b)' <=> Holds(s, v, b)) /\ (Passes(s, v, b)' <=> Passes(s, v, b))
           /\ \A b \in Bufs : Passing(s, b)' <=> Passing(s, b)
           /\ \A b \in Bufs : AtQueue(s, b)' <=> AtQueue(s, b)
           /\ \A b \in Bufs \ {c} : chan'[s] \ {c} = chan[s] \ {c} =>
                 Unmoved(s, b) /\ (In(s, b)' <=> In(s, b))
  <1>1. /\ poll'.at = at /\ poll'.stream = s /\ poll'.buf = c
        /\ poll' \in [at : {"poll", "count", "ref", "chan", "node"},
                      ready : SUBSET Streams, stream : Streams \cup {None},
                      buf : Bufs \cup {None}]
    BY DEF IInv, TypeOK, PollGoes
  <1>2. \A b \in Bufs \ {c}, ats \in {{"chan"}, {"chan", "node"}, {"ref"}, {"count", "ref"}} :
                PollAt(s, b, ats)' <=> PollAt(s, b, ats)
    BY <1>1 DEF PollGoes, PollAt
  <1>3. \A ats : PollAt(s, c, ats)' <=> at \in ats
    BY <1>1 DEF PollAt
  <1>4. /\ \A b \in Bufs, v \in Returners :
             (Holds(s, v, b)' <=> Holds(s, v, b)) /\ (Passes(s, v, b)' <=> Passes(s, v, b))
        /\ \A b \in Bufs : AtQueue(s, b)' <=> AtQueue(s, b)
    BY DEF Holds, Passes, AtQueue, PollGoes
  <1>5. \A b \in Bufs : Passing(s, b)' <=> Passing(s, b)
    BY DEF Passing, Passes, PollGoes
  <1>6. ASSUME NEW b \in Bufs \ {c}, chan'[s] \ {c} = chan[s] \ {c}
        PROVE  Unmoved(s, b) /\ (In(s, b)' <=> In(s, b))
    <2>1. Unmoved(s, b)
      <3>1. \A v \in Returners :
              (Holds(s, v, b)' <=> Holds(s, v, b)) /\ (Passes(s, v, b)' <=> Passes(s, v, b))
        BY <1>4
      <3>2. b \in chan'[s] <=> b \in chan[s]
        BY <1>6
      <3> QED
        BY <1>2, <3>1, <3>2 DEF Unmoved, PollGoes
    <2> QED
      BY <1>2, <1>4, <2>1, UnmovedPlaces DEF In, PollGoes
  <1> QED
    BY <1>1, <1>2, <1>3, <1>4, <1>5, <1>6

LEMMA PollGoesStep ==
    ASSUME IInv, NEW s \in Streams, NEW c \in Bufs,
           NEW at \in {"ref", "chan", "node"}, PollGoes(s, c, at),
           TypeOK', Books(s)', Whole(s) => Whole(s)', at = "chan" => s \in Bundled,
           UNCHANGED <<env, state, streaming, polled, status, alive, halOpen, halExit,
                       proc, ctl>>,
           \A t \in Streams \ {s} : /\ refcnt'[t] = refcnt[t] /\ queued'[t] = queued[t]
                                    /\ chan'[t] = chan[t]
                                    /\ t \in entries' <=> t \in entries,
           env.stops \/ env.fails => entries' = entries
    PROVE  Worked
  <1>1. /\ TypeOK /\ RetInv /\ PollInv /\ StreamInv(s) /\ Lined(s)
        /\ s \in streaming /\ state[s] = "ACTIVE" /\ Live(s) /\ ~ Still(s)
        /\ env.stops \/ env.fails => driver[s].empty # {}
    BY PollHas DEF PollGoes
  <1>2. /\ poll'.at = at /\ poll'.stream = s /\ poll'.buf = c
    BY PollGoesFacts
  <1>3. UNCHANGED <<driver, nodes, disp, halQ, app, ret, gone>> /\ poll.stream = s
    BY DEF PollGoes
  <1>4. PollInv' /\ RetInv'
    BY <1>1, <1>2, <1>3, BufsAssumption DEF PollInv, RetInv
  <1>5. ASSUME NEW t \in Streams \ {s}
        PROVE  Untouched(t) /\ (t \in entries' <=> t \in entries)
    BY <1>2, <1>3 DEF Untouched
  <1>6. Lined(s)'
    BY <1>1, <1>3 DEF Lined, Idle
  <1>7. StreamInv(s)'
    BY <1>1, <1>6 DEF StreamInv, Live
  <1>8. (Fresh(s) => Fresh(s)') /\ (Undone(s) => Undone(s)')
    BY <1>1 DEF Fresh, Undone
  <1>9. (env.stops \/ env.fails) /\ s \in streaming =>
          /\ driver'[s].empty = {} => Still(s)'
          /\ poll'.stream = s => \/ s \in entries'
                                 \/ poll.stream = s /\ s \notin entries
          /\ s \in entries' => s \in entries
    BY <1>1, <1>3
  <1> QED
    BY <1>4, <1>5, <1>7, <1>8, <1>9, WorkedOf

LEMMA PollCountStep ==
    ASSUME IInv, PollCount
    PROVE  Worked
  <1>1. poll.at # "poll" /\ poll.at = "count"
    BY DEF PollCount
  <1>2. PICK s \in Streams, c \in Bufs :
             /\ s = poll.stream /\ c = poll.buf
             /\ TypeOK /\ Live(s) /\ Books(s) /\ Places(s, c) /\ Book(s, c)
             /\ \A at : PollAt(s, c, at) <=> poll.at \in at
             /\ env.stops \/ env.fails => driver[s].empty # {}
    BY <1>1, PollHas
  <1>3. PollGoes(s, c, "ref")
    BY <1>1, <1>2 DEF PollGoes, PollCount, drvVars, cbVars, halVars
  <1>4. /\ UNCHANGED <<env, state, refcnt, streaming, polled, status, alive, halOpen,
                       halExit, proc, chan, ctl>>
        /\ queued' = [queued EXCEPT ![s] = @ - 1]
        /\ IF queued'[s] = 0 THEN DelFd(s) ELSE UNCHANGED <<entries, pipe>>
    BY <1>2 DEF PollCount, drvVars, cbVars, halVars
  <1>5. UNCHANGED <<driver, nodes, disp, halQ, app, ret, gone>>
    BY <1>3 DEF PollGoes
  <1>6. /\ \A b \in Bufs \ {c} : Unmoved(s, b) /\ (In(s, b)' <=> In(s, b))
        /\ \A ats : PollAt(s, c, ats)' <=> "ref" \in ats
        /\ \A v \in Returners :
             (Holds(s, v, c)' <=> Holds(s, v, c)) /\ (Passes(s, v, c)' <=> Passes(s, v, c))
        /\ Passing(s, c)' <=> Passing(s, c)
        /\ AtQueue(s, c)' <=> AtQueue(s, c)
    BY <1>3, <1>4, PollGoesFacts
  <1>7. /\ PollAt(s, c, {"chan"})' <=> PollAt(s, c, {"chan"})
        /\ PollAt(s, c, {"count", "ref"})' <=> PollAt(s, c, {"count", "ref"})
        /\ PollAt(s, c, {"chan", "node"})' <=> PollAt(s, c, {"chan", "node"})
        /\ PollAt(s, c, {"count", "ref"}) /\ ~ PollAt(s, c, {"ref"}) /\ PollAt(s, c, {"ref"})'
    BY <1>1, <1>2, <1>6
  <1>8. Unmoved(s, c)
    BY <1>4, <1>5, <1>6, <1>7 DEF Unmoved
  <1>9. ~ Taken(s, c) /\ c \notin gone[s] /\ ~ Passing(s, c)
    <2>1. D(s, c) /\ ~ Passing(s, c)
      BY <1>2, <1>7 DEF D, Places, Apart4, Apart3, Apart2
    <2> QED
      BY <1>2, <2>1 DEF Book
  <1>10. In(s, c) /\ ~ In(s, c)'
    <2>1. ~ AtQueue(s, c)
      BY <1>9 DEF Passing, Passes, AtQueue
    <2> QED
      BY <1>7, <1>9, <2>1 DEF In
  <1>11. queued \in [Streams -> 0..Cardinality(Bufs)] /\ Cardinality(Bufs) \in Nat
    BY <1>2, FS_CardinalityType, BufsAssumption DEF TypeOK
  <1>12. queued[s] >= 1 /\ queued'[s] = queued[s] - 1
    BY <1>2, <1>10, <1>11, <1>4, CountedOne
  <1>13. Books(s)' /\ (Whole(s) => Whole(s)')
    <2>1. \A b \in Bufs : Unmoved(s, b)
      BY <1>6, <1>8
    <2>2. \A b \in Bufs : Places(s, b)' /\ Book(s, b)'
      BY <1>2, <1>4, <1>5, <2>1, UnmovedBook DEF Books
    <2>3. queued'[s] = Cardinality(Counted(s)')
      BY <1>2, <1>6, <1>10, <1>12, CountedMove DEF Books
    <2>4. Whole(s) => Whole(s)'
      BY <1>5, <2>1, UnmovedPlaces DEF Whole
    <2> QED
      BY <1>2, <1>5, <2>2, <2>3, <2>4 DEF Books
  <1>14. env.stops \/ env.fails => entries' = entries
    <2>1. ASSUME env.stops \/ env.fails
          PROVE  queued'[s] # 0
      <3>1. PICK e \in Bufs : e \in driver[s].empty
        <4>1. driver \in [Streams -> [empty : SUBSET Bufs, frames : Seq(Bufs)]]
          BY <1>2 DEF TypeOK
        <4> QED
          BY <1>2, <2>1, <4>1
      <3>2. In(s, e) /\ e # c
        BY <1>2, <1>7, <3>1, EmptyCounted
      <3> QED
        BY <1>2, <1>10, <1>12, <3>2, CountedTwo
    <2> QED
      BY <1>4, <2>1
  <1>15. TypeOK'
    <2>1. queued' \in [Streams -> 0..Cardinality(Bufs)]
      <3>1. queued[s] - 1 \in 0..Cardinality(Bufs)
        BY <1>11, <1>12
      <3> QED
        BY <1>4, <1>11, <3>1
    <2>2. entries' \subseteq Streams /\ pipe' \in Seq({"SYNC", "ASYNC"})
      <3>1. entries \subseteq Streams /\ pipe \in Seq({"SYNC", "ASYNC"})
        BY <1>2 DEF TypeOK
      <3> QED
        BY <1>4, <3>1 DEF DelFd
    <2>3. poll' \in [at : {"poll", "count", "ref", "chan", "node"},
                     ready : SUBSET Streams, stream : Streams \cup {None},
                     buf : Bufs \cup {None}]
      BY <1>3, PollGoesFacts
    <2> QED
      BY <1>2, <1>4, <1>5, <2>1, <2>2, <2>3 DEF TypeOK
  <1>16. \A t \in Streams \ {s} : /\ refcnt'[t] = refcnt[t] /\ queued'[t] = queued[t]
                                  /\ chan'[t] = chan[t]
                                  /\ t \in entries' <=> t \in entries
    BY <1>4, <1>11 DEF DelFd
  <1> QED
    BY <1>3, <1>4, <1>13, <1>14, <1>15, <1>16, PollGoesStep

LEMMA HoldersFacts ==
    ASSUME NEW s \in Streams
    PROVE  /\ Holders(s) = One(s \in Bundled) + One(s \in HasCb)
           /\ Holders(s) \in {1, 2} /\ (s \in Bundled \/ s \in HasCb)
  BY SinkAssumption DEF Holders, One

LEMMA PollRefStep ==
    ASSUME IInv, PollRef
    PROVE  Worked
  <1>1. poll.at # "poll" /\ poll.at = "ref"
    BY DEF PollRef
  <1>2. PICK s \in Streams, c \in Bufs :
             /\ s = poll.stream /\ c = poll.buf
             /\ TypeOK /\ Live(s) /\ Books(s) /\ Places(s, c) /\ Book(s, c)
             /\ \A at : PollAt(s, c, at) <=> poll.at \in at
    BY <1>1, PollHas
  <1>3. PICK at \in {"chan", "node"} : /\ at = (IF s \in Bundled THEN "chan" ELSE "node")
                                       /\ PollGoes(s, c, at)
    BY <1>1, <1>2 DEF PollGoes, PollRef, drvVars, cbVars, halVars
  <1>4. /\ UNCHANGED <<env, state, queued, driver, streaming, entries, polled, pipe,
                       status, alive, halOpen, halExit, proc, chan, ctl>>
        /\ refcnt' = [refcnt EXCEPT ![s][c] = (@ + Holders(s)) % 256]
    BY <1>2 DEF PollRef, drvVars, cbVars, halVars
  <1>5. UNCHANGED <<driver, nodes, disp, halQ, app, ret, gone>>
    BY <1>3 DEF PollGoes
  <1>6. /\ \A b \in Bufs \ {c} : Unmoved(s, b) /\ (In(s, b)' <=> In(s, b))
        /\ \A ats : PollAt(s, c, ats)' <=> at \in ats
        /\ \A v \in Returners :
             (Holds(s, v, c)' <=> Holds(s, v, c)) /\ (Passes(s, v, c)' <=> Passes(s, v, c))
        /\ Passing(s, c)' <=> Passing(s, c)
        /\ AtQueue(s, c)' <=> AtQueue(s, c)
    BY <1>3, <1>4, PollGoesFacts
  <1>7. /\ PollAt(s, c, {"chan"})' <=> s \in Bundled
        /\ ~ PollAt(s, c, {"count", "ref"})'
        /\ PollAt(s, c, {"chan", "node"})'
        /\ PollAt(s, c, {"count", "ref"}) /\ PollAt(s, c, {"ref"})
        /\ ~ PollAt(s, c, {"chan"}) /\ ~ PollAt(s, c, {"chan", "node"})
    BY <1>1, <1>2, <1>3, <1>6
  <1>8. D(s, c) /\ ~ Taken(s, c) /\ c \notin gone[s] /\ ~ Passing(s, c)
        /\ c \notin driver[s].empty /\ c \notin Range(driver[s].frames)
    <2>1. /\ D(s, c) /\ ~ Passing(s, c)
          /\ c \notin driver[s].empty /\ c \notin Range(driver[s].frames)
      BY <1>2, <1>7 DEF D, Places, Apart4, Apart3, Apart2
    <2> QED
      BY <1>2, <2>1 DEF Book
  <1>9. /\ Holds(s, "chan", c)' <=> Holds(s, "chan", c)
        /\ Holds(s, "disp", c)' <=> Holds(s, "disp", c)
        /\ Holds(s, "proc", c)' <=> Holds(s, "proc", c)
        /\ Holds(s, "app", c)' <=> Holds(s, "app", c)
    BY <1>6 DEF Returners
  <1>10. /\ c \notin chan[s] /\ ~ Holds(s, "chan", c)
         /\ c \notin Range(nodes[s]) /\ disp[s] # c /\ ~ Holds(s, "disp", c)
         /\ c \notin Range(halQ[s]) /\ c \notin app[s] /\ ~ Holds(s, "proc", c)
         /\ ~ Holds(s, "app", c)
    BY <1>8 DEF Taken, C, P, A
  <1>11. Places(s, c)'
    <2>1. \A v, u \in Returners : Passes(s, v, c)' /\ Passes(s, u, c)' => v = u
      BY <1>2, <1>6 DEF Places
    <2> QED
      BY <1>4, <1>5, <1>6, <1>7, <1>8, <1>9, <1>10, <2>1
         DEF Places, Apart2, Apart3, Apart4, Apart5
  <1>12. /\ C(s, c)' <=> s \in Bundled
         /\ P(s, c)' <=> s \in HasCb
         /\ ~ A(s, c)' /\ ~ D(s, c)'
    BY <1>4, <1>5, <1>6, <1>7, <1>8, <1>9, <1>10 DEF C, P, A, D
  <1>13. T(s, c)' = Holders(s) /\ Taken(s, c)'
    BY <1>12, HoldersFacts DEF T, Taken, One
  <1>14. refcnt'[s][c] = Holders(s)
         /\ refcnt' \in [Streams -> [Bufs -> 0..255]]
         /\ \A b \in Bufs \ {c} : refcnt'[s][b] = refcnt[s][b]
         /\ \A t \in Streams \ {s} : refcnt'[t] = refcnt[t]
    <2>1. refcnt \in [Streams -> [Bufs -> 0..255]]
      BY <1>2 DEF TypeOK
    <2>2. refcnt[s][c] = 0
      BY <1>2, <1>8, TakenFacts DEF Book
    <2>3. Holders(s) \in 0..255 /\ (0 + Holders(s)) % 256 = Holders(s)
      BY HoldersFacts
    <2>4. refcnt' = [refcnt EXCEPT ![s][c] = Holders(s)]
      BY <1>4, <2>2, <2>3
    <2> QED
      BY <2>1, <2>3, <2>4
  <1>15. Book(s, c)'
    BY <1>5, <1>8, <1>12, <1>13, <1>14 DEF Book
  <1>16. In(s, c)' <=> In(s, c)
    BY <1>7, <1>13 DEF In
  <1>17. Books(s)' /\ (Whole(s) => Whole(s)')
    <2>1. Once(driver'[s].frames) /\ Once(nodes'[s]) /\ Once(halQ'[s]) /\ queued'[s] = queued[s]
      BY <1>2, <1>4, <1>5 DEF Books
    <2>2. \A b \in Bufs \ {c} : b \in gone'[s] <=> b \in gone[s]
      BY <1>5
    <2> QED
      BY <1>2, <1>6, <1>11, <1>13, <1>14, <1>15, <1>16, <2>1, <2>2, MoveBooks
  <1>18. TypeOK'
    <2>1. poll' \in [at : {"poll", "count", "ref", "chan", "node"},
                     ready : SUBSET Streams, stream : Streams \cup {None},
                     buf : Bufs \cup {None}]
      BY <1>3, PollGoesFacts
    <2>2. UNCHANGED <<env, state, queued, driver, streaming, entries, polled, pipe,
                      status, alive, nodes, disp, halOpen, halQ, halExit, proc, app,
                      chan, ret, gone, ctl>>
      BY <1>4, <1>5
    <2>3. TypeOK /\ refcnt' \in [Streams -> [Bufs -> 0..255]]
      BY <1>2, <1>14
    <2> QED
      BY <2>1, <2>2, <2>3 DEF TypeOK
  <1> QED
    BY <1>3, <1>4, <1>14, <1>17, <1>18, PollGoesStep

LEMMA PollChannelStep ==
    ASSUME IInv, PollChannel
    PROVE  Worked
  <1>1. poll.at # "poll" /\ poll.at = "chan"
    BY DEF PollChannel
  <1>2. PICK s \in Streams, c \in Bufs :
             /\ s = poll.stream /\ c = poll.buf
             /\ TypeOK /\ Live(s) /\ Books(s) /\ Places(s, c) /\ Book(s, c)
             /\ \A at : PollAt(s, c, at) <=> poll.at \in at
    BY <1>1, PollHas
  <1>3. PollGoes(s, c, "node")
    BY <1>1, <1>2 DEF PollGoes, PollChannel, drvVars, cbVars, halVars
  <1>4. /\ UNCHANGED <<env, state, refcnt, queued, streaming, entries, polled, pipe,
                       status, alive, halOpen, halExit, proc, ctl>>
        /\ chan' = [chan EXCEPT ![s] = @ \cup {c}]
    BY <1>2 DEF PollChannel, libVars, drvVars, cbVars, halVars
  <1>5. UNCHANGED <<driver, nodes, disp, halQ, app, ret, gone>>
    BY <1>3 DEF PollGoes
  <1>6. /\ chan' \in [Streams -> SUBSET Bufs] /\ chan'[s] = chan[s] \cup {c}
        /\ \A t \in Streams \ {s} : chan'[t] = chan[t]
    <2>1. chan \in [Streams -> SUBSET Bufs]
      BY <1>2 DEF TypeOK
    <2> QED
      BY <1>4, <2>1
  <1>7. /\ \A b \in Bufs \ {c} : Unmoved(s, b) /\ (In(s, b)' <=> In(s, b))
        /\ \A ats : PollAt(s, c, ats)' <=> "node" \in ats
        /\ \A v \in Returners :
             (Holds(s, v, c)' <=> Holds(s, v, c)) /\ (Passes(s, v, c)' <=> Passes(s, v, c))
        /\ Passing(s, c)' <=> Passing(s, c)
        /\ AtQueue(s, c)' <=> AtQueue(s, c)
    BY <1>3, <1>6, PollGoesFacts
  <1>8. /\ ~ PollAt(s, c, {"chan"})' /\ PollAt(s, c, {"chan"})
        /\ ~ PollAt(s, c, {"count", "ref"})' /\ ~ PollAt(s, c, {"count", "ref"})
        /\ PollAt(s, c, {"chan", "node"})' /\ PollAt(s, c, {"chan", "node"})
        /\ ~ PollAt(s, c, {"ref"})' /\ ~ PollAt(s, c, {"ref"})
    BY <1>1, <1>2, <1>7
  <1>9. /\ Holds(s, "chan", c)' <=> Holds(s, "chan", c)
        /\ Holds(s, "disp", c)' <=> Holds(s, "disp", c)
        /\ Holds(s, "proc", c)' <=> Holds(s, "proc", c)
        /\ Holds(s, "app", c)' <=> Holds(s, "app", c)
    BY <1>7 DEF Returners
  <1>10. c \in chan'[s] /\ c \notin chan[s] /\ ~ Holds(s, "chan", c)
    BY <1>2, <1>6, <1>8 DEF Places, Apart3, Apart2
  <1>11. Places(s, c)'
    <2>1. \A v, u \in Returners : Passes(s, v, c)' /\ Passes(s, u, c)' => v = u
      BY <1>2, <1>7 DEF Places
    <2> QED
      BY <1>2, <1>5, <1>7, <1>8, <1>9, <1>10, <2>1
         DEF Places, Apart2, Apart3, Apart4, Apart5
  <1>12. /\ C(s, c)' <=> C(s, c)
         /\ P(s, c)' <=> P(s, c)
         /\ A(s, c)' <=> A(s, c)
         /\ D(s, c)' <=> D(s, c)
         /\ Waiting(s, c)' <=> Waiting(s, c)
         /\ C(s, c)
    BY <1>5, <1>7, <1>8, <1>9, <1>10 DEF C, P, A, D, Waiting
  <1>13. (Taken(s, c)' <=> Taken(s, c)) /\ T(s, c)' = T(s, c) /\ Taken(s, c)
    BY <1>12 DEF Taken, T, One
  <1>14. Book(s, c)'
    BY <1>2, <1>4, <1>5, <1>12, <1>13 DEF Book
  <1>15. In(s, c)' <=> In(s, c)
    BY <1>13 DEF In
  <1>16. Books(s)' /\ (Whole(s) => Whole(s)')
    <2>1. Once(driver'[s].frames) /\ Once(nodes'[s]) /\ Once(halQ'[s]) /\ queued'[s] = queued[s]
      BY <1>2, <1>4, <1>5 DEF Books
    <2>2. \A b \in Bufs \ {c} : /\ b \in gone'[s] <=> b \in gone[s]
                                /\ refcnt'[s][b] = refcnt[s][b]
      BY <1>4, <1>5
    <2> QED
      BY <1>2, <1>7, <1>11, <1>13, <1>14, <1>15, <2>1, <2>2, MoveBooks
  <1>17. TypeOK'
    <2>1. poll' \in [at : {"poll", "count", "ref", "chan", "node"},
                     ready : SUBSET Streams, stream : Streams \cup {None},
                     buf : Bufs \cup {None}]
      BY <1>3, PollGoesFacts
    <2>2. UNCHANGED <<env, state, refcnt, queued, driver, streaming, entries, polled,
                      pipe, status, alive, nodes, disp, halOpen, halQ, halExit, proc,
                      app, ret, gone, ctl>>
      BY <1>4, <1>5
    <2>3. TypeOK /\ chan' \in [Streams -> SUBSET Bufs]
      BY <1>2, <1>6
    <2> QED
      BY <2>1, <2>2, <2>3 DEF TypeOK
  <1> QED
    BY <1>3, <1>4, <1>6, <1>16, <1>17, PollGoesStep

(* Nothing is lost between the poll thread and the callback thread: a stream
   with a callback has its thread as long as the driver fills its buffers. *)
LEMMA NodeBooks ==
    ASSUME IInv, PollNode, NEW s \in Streams, NEW c \in Bufs,
           s = poll.stream, c = poll.buf, Books(s), Whole(s),
           s \in HasCb => s \in alive,
           \A at : PollAt(s, c, at) <=> poll.at \in at
    PROVE  Books(s)' /\ Whole(s)'
  <1>1. /\ TypeOK /\ nodes \in [Streams -> Seq(Bufs)] /\ nodes[s] \in Seq(Bufs)
        /\ poll.at = "node"
    BY DEF IInv, TypeOK, PollNode
  <1>2. UNCHANGED <<refcnt, queued, driver, disp, halQ, app, chan, ret, gone>>
    BY DEF PollNode, libVars, drvVars, halVars
  <1>3. poll'.stream = None /\ poll'.buf = None /\ poll'.at = "poll"
    BY DEF PollNode, PollRest
  <1>4. Places(s, c) /\ Book(s, c) /\ (D(s, c) \/ Taken(s, c) \/ c \in gone[s])
    BY DEF Books, Whole
  <1>5. \/ /\ s \in HasCb /\ nodes'[s] = Append(nodes[s], c)
        \/ /\ s \notin HasCb /\ nodes'[s] = nodes[s]
    BY <1>1 DEF PollNode
  <1>6. /\ PollAt(s, c, {"chan", "node"}) /\ ~ PollAt(s, c, {"chan"})
        /\ ~ PollAt(s, c, {"count", "ref"}) /\ ~ PollAt(s, c, {"ref"})
    BY <1>1
  <1>7. \A b \in Bufs : \A at : ~ PollAt(s, b, at)'
    BY <1>3, BufsAssumption DEF PollAt
  <1>8. s \in HasCb => c \notin Range(nodes[s])
    BY <1>4, <1>6 DEF Places, Apart4, Apart3, Apart2
  <1>9. /\ Once(nodes'[s])
        /\ \A b : b \in Range(nodes'[s]) <=> b \in Range(nodes[s]) \/ (s \in HasCb /\ b = c)
    <2>1. Once(nodes[s])
      BY DEF Books
    <2>2. CASE s \in HasCb
      <3>1. nodes'[s] = Append(nodes[s], c)
        BY <1>5, <2>2
      <3>2. /\ \A x : x \in Range(Append(nodes[s], c)) <=> x = c \/ x \in Range(nodes[s])
            /\ Once(Append(nodes[s], c))
        BY <1>1, <1>8, <2>1, <2>2, AppendFacts
      <3> QED
        BY <2>2, <3>1, <3>2
    <2>3. CASE s \notin HasCb
      BY <1>5, <2>1, <2>3
    <2> QED
      BY <2>2, <2>3
  <1>10. /\ \A b \in Bufs, v \in Returners :
              (Holds(s, v, b)' <=> Holds(s, v, b)) /\ (Passes(s, v, b)' <=> Passes(s, v, b))
         /\ \A b \in Bufs : AtQueue(s, b)' <=> AtQueue(s, b)
    BY <1>2 DEF Holds, Passes, AtQueue
  <1>11. ASSUME NEW b \in Bufs \ {c}
         PROVE  /\ Unmoved(s, b) /\ (In(s, b)' <=> In(s, b))
                /\ refcnt'[s][b] = refcnt[s][b]
                /\ b \in gone'[s] <=> b \in gone[s]
    <2>1. \A at : ~ PollAt(s, b, at)' /\ ~ PollAt(s, b, at)
      BY <1>3, BufsAssumption DEF PollAt
    <2>2. Unmoved(s, b)
      <3>1. \A v \in Returners :
              (Holds(s, v, b)' <=> Holds(s, v, b)) /\ (Passes(s, v, b)' <=> Passes(s, v, b))
        BY <1>10
      <3>2. b \in Range(nodes'[s]) <=> b \in Range(nodes[s])
        BY <1>9
      <3> QED
        BY <1>2, <2>1, <3>1, <3>2 DEF Unmoved
    <2> QED
      BY <1>2, <1>10, <2>1, <2>2, UnmovedPlaces DEF In
  <1>12. /\ Holds(s, "chan", c)' <=> Holds(s, "chan", c)
         /\ Holds(s, "disp", c)' <=> Holds(s, "disp", c)
         /\ Holds(s, "proc", c)' <=> Holds(s, "proc", c)
         /\ Holds(s, "app", c)' <=> Holds(s, "app", c)
         /\ Passing(s, c)' <=> Passing(s, c)
         /\ \A v \in Returners : Passes(s, v, c)' <=> Passes(s, v, c)
         /\ AtQueue(s, c)' <=> AtQueue(s, c)
    <2>1. /\ \A v \in Returners :
               (Holds(s, v, c)' <=> Holds(s, v, c)) /\ (Passes(s, v, c)' <=> Passes(s, v, c))
          /\ AtQueue(s, c)' <=> AtQueue(s, c)
      BY <1>10
    <2>2. Passing(s, c)' <=> Passing(s, c)
      BY <2>1 DEF Passing
    <2> QED
      BY <2>1, <2>2 DEF Returners
  <1>13. /\ ~ PollAt(s, c, {"chan"})' /\ ~ PollAt(s, c, {"chan", "node"})'
         /\ ~ PollAt(s, c, {"count", "ref"})' /\ ~ PollAt(s, c, {"ref"})'
    BY <1>7
  <1>14. c \in Range(nodes'[s]) <=> c \in Range(nodes[s]) \/ s \in HasCb
    BY <1>9
  <1>15. Places(s, c)'
    <2>1. \A v, u \in Returners : Passes(s, v, c)' /\ Passes(s, u, c)' => v = u
      BY <1>4, <1>12 DEF Places
    <2> QED
      BY <1>2, <1>4, <1>6, <1>12, <1>13, <1>14, <2>1
         DEF Places, Apart2, Apart3, Apart4, Apart5
  <1>16. /\ C(s, c)' <=> C(s, c)
         /\ P(s, c)' <=> P(s, c)
         /\ A(s, c)' <=> A(s, c)
         /\ D(s, c)' <=> D(s, c)
         /\ Waiting(s, c)' <=> Waiting(s, c)
    BY <1>2, <1>6, <1>12, <1>13, <1>14 DEF C, P, A, D, Waiting
  <1>17. (Taken(s, c)' <=> Taken(s, c)) /\ T(s, c)' = T(s, c)
    BY <1>16 DEF Taken, T, One
  <1>18. Book(s, c)'
    BY <1>2, <1>4, <1>16, <1>17 DEF Book
  <1>19. In(s, c)' <=> In(s, c)
    BY <1>2, <1>6, <1>12, <1>13, <1>17 DEF In
  <1>20. Once(driver'[s].frames) /\ Once(halQ'[s]) /\ queued'[s] = queued[s]
    BY <1>2 DEF Books
  <1>21. D(s, c)' \/ Taken(s, c)' \/ c \in gone'[s]
    BY <1>2, <1>4, <1>16, <1>17
  <1> QED
    BY <1>9, <1>11, <1>15, <1>18, <1>19, <1>20, <1>21, MoveBooks

LEMMA PollNodeStep ==
    ASSUME IInv, PollNode
    PROVE  Worked
  <1>1. poll.at # "poll" /\ poll.at = "node"
    BY DEF PollNode
  <1>2. PICK s \in Streams, c \in Bufs :
             /\ s = poll.stream /\ c = poll.buf
             /\ TypeOK /\ RetInv /\ PollInv /\ StreamInv(s) /\ Lined(s)
             /\ s \in streaming /\ state[s] = "ACTIVE" /\ Live(s) /\ Books(s)
             /\ Whole(s) /\ ~ Still(s)
             /\ \A at : PollAt(s, c, at) <=> poll.at \in at
             /\ env.stops \/ env.fails => driver[s].empty # {}
    BY <1>1, PollHas
  <1>3. UNCHANGED <<env, state, refcnt, queued, driver, streaming, entries, polled,
                    pipe, status, alive, disp, halOpen, halQ, halExit, proc, app, chan,
                    ret, gone, ctl>>
    BY DEF PollNode, libVars, drvVars, halVars
  <1>4. s \in HasCb => s \in alive
    BY <1>2 DEF Lined
  <1>5. /\ nodes' \in [Streams -> Seq(Bufs)]
        /\ \A t \in Streams \ {s} : nodes'[t] = nodes[t]
        /\ s \notin alive => nodes'[s] = nodes[s]
    <2>1. nodes \in [Streams -> Seq(Bufs)]
      BY <1>2 DEF TypeOK
    <2>2. Append(nodes[s], c) \in Seq(Bufs)
      BY <2>1
    <2>3. nodes' = [nodes EXCEPT ![s] = IF s \in HasCb \cap alive
                                          THEN Append(nodes[s], c) ELSE nodes[s]]
      BY <1>2, <2>1 DEF PollNode
    <2> QED
      BY <2>1, <2>2, <2>3
  <1>6. poll' = [at |-> "poll", ready |-> poll.ready, stream |-> None, buf |-> None]
    BY DEF PollNode, PollRest
  <1>7. TypeOK'
    <2>1. poll' \in [at : {"poll", "count", "ref", "chan", "node"},
                     ready : SUBSET Streams, stream : Streams \cup {None},
                     buf : Bufs \cup {None}]
      <3>1. poll.ready \in SUBSET Streams
        BY <1>2 DEF TypeOK
      <3> QED
        BY <1>6, <3>1
    <2>2. TypeOK /\ nodes' \in [Streams -> Seq(Bufs)]
      BY <1>2, <1>5
    <2> QED
      BY <1>3, <2>1, <2>2 DEF TypeOK
  <1>8. PollInv' /\ RetInv'
    BY <1>2, <1>3, <1>6 DEF PollInv, RetInv
  <1>9. ASSUME NEW t \in Streams \ {s}
        PROVE  Untouched(t) /\ (t \in entries' <=> t \in entries)
    <2>1. poll.stream # t /\ poll'.stream # t
      BY <1>2, <1>6, BufsAssumption
    <2> QED
      BY <1>3, <1>5, <2>1 DEF Untouched
  <1>10. poll'.stream # s
    BY <1>6, BufsAssumption
  <1>11. StreamInv(s)'
    <2>1. Books(s)' /\ Whole(s)'
      BY <1>2, <1>4, NodeBooks
    <2>2. Lined(s)'
      BY <1>2, <1>3, <1>5, <1>10 DEF Lined, Idle
    <2> QED
      BY <1>2, <1>3, <2>1, <2>2 DEF StreamInv, Live
  <1>12. (Fresh(s) => Fresh(s)') /\ (Undone(s) => Undone(s)')
    BY <1>2 DEF Fresh, Undone
  <1> QED
    BY <1>2, <1>3, <1>7, <1>8, <1>9, <1>10, <1>11, <1>12, WorkedOf

LEMMA WorkStep ==
    ASSUME Reserved, IInv,
           \/ Poll \/ ChannelThread
           \/ \E s \in Streams : \/ Fill(s) \/ CallbackThread(s) \/ HalThread(s)
                                 \/ AppReturns(s) \/ Return(s, "app")
    PROVE  Worked
  <1>1. CASE Poll
    BY <1>1, PollCommandStep, PollFramesStep, PollSkipStep, PollDequeueStep,
       PollCountStep, PollRefStep, PollChannelStep, PollNodeStep DEF Poll
  <1>2. CASE ChannelThread
    BY <1>2, ChannelReturnsStep, ReturnStep DEF ChannelThread, Returners
  <1>3. ASSUME NEW s \in Streams,
               \/ Fill(s) \/ CallbackThread(s) \/ HalThread(s)
               \/ AppReturns(s) \/ Return(s, "app")
        PROVE  Worked
    BY <1>3, FillStep, DispatchStep, DataNotifyStep, ProcFrameStep, ProcFlushStep,
       ProcReturnStep, ProcEndStep, AppReturnsStep, ReturnStep
       DEF CallbackThread, HalThread, Returners
  <1> QED
    BY <1>1, <1>2, <1>3

-----------------------------------------------------------------------------
(* The order of the streams *)

Orders(q) ==
    /\ \A k \in 1..Count : q[k] \in Streams
    /\ \A j, k \in 1..Count : q[j] = q[k] => j = k
    /\ \A s \in Streams : \E k \in 1..Count : q[k] = s

LEMMA CountFacts ==
    /\ Count \in Nat /\ 1 \in 1..Count /\ Count \in 1..Count
    /\ DOMAIN Slots = 1..Count /\ Orders(Slots)
  <1>1. Count \in Nat /\ DOMAIN Slots = 1..Count
    BY SlotsAssumption, LenProperties DEF Count
  <1>2. Count # 0
    BY SlotsAssumption, EmptySeq DEF Count
  <1>3. \A k \in 1..Count : Slots[k] \in Streams
    BY <1>1, SlotsAssumption DEF Range
  <1>4. \A s \in Streams : \E k \in 1..Count : Slots[k] = s
    BY <1>1, SlotsAssumption DEF Range
  <1> QED
    BY <1>1, <1>2, <1>3, <1>4, SlotsAssumption DEF Orders

LEMMA SwapOrders ==
    ASSUME NEW i \in 1..Count, NEW j \in 1..Count
    PROVE  Orders(Swap(Slots, i, j))
  <1>1. PICK q : q = Swap(Slots, i, j)
    OBVIOUS
  <1>2. \A k \in 1..Count :
          q[k] = IF k = j THEN Slots[i] ELSE IF k = i THEN Slots[j] ELSE Slots[k]
    BY <1>1, CountFacts DEF Swap
  <1>3. \A k \in 1..Count : q[k] \in Streams
    BY <1>2, CountFacts DEF Orders
  <1>4. \A k, l \in 1..Count : q[k] = q[l] => k = l
    BY <1>2, CountFacts DEF Orders
  <1>5. ASSUME NEW s \in Streams
        PROVE  \E k \in 1..Count : q[k] = s
    <2>1. PICK k \in 1..Count : Slots[k] = s
      BY CountFacts DEF Orders
    <2>2. CASE k = i
      BY <1>2, <2>1, <2>2
    <2>3. CASE k = j
      BY <1>2, <2>1, <2>3
    <2>4. CASE k # i /\ k # j
      BY <1>2, <2>1, <2>4
    <2> QED
      BY <2>2, <2>3, <2>4
  <1> QED
    BY <1>1, <1>3, <1>4, <1>5 DEF Orders

LEMMA OrdersFacts == Orders(StartOrder) /\ Orders(StopOrder)
  <1>1. MetaSlot \in 1..Count
    <2>1. CASE Meta \in Streams
      <3>1. \E i \in DOMAIN Slots : Slots[i] = Meta
        BY <2>1, CountFacts DEF Orders
      <3> QED
        BY <2>1, <3>1, CountFacts DEF MetaSlot
    <2>2. CASE Meta \notin Streams
      BY <2>2, CountFacts DEF MetaSlot
    <2> QED
      BY <2>1, <2>2
  <1>2. Orders(StartOrder)
    BY <1>1, CountFacts, SwapOrders DEF StartOrder
  <1>3. Orders(StopOrder)
    BY <1>1, CountFacts, SwapOrders DEF StopOrder, Count
  <1> QED
    BY <1>2, <1>3

LEMMA CtlFacts ==
    ASSUME TypeOK
    PROVE  /\ ctl.i \in 1..Count /\ ctl.top \in 1..Count /\ ctl.undo \in BOOLEAN
           /\ Count \in Nat
           /\ StartOrder[ctl.i] \in Streams /\ Stopping \in Streams
  <1>1. ctl.i \in 1..Count /\ ctl.top \in 1..Count /\ ctl.undo \in BOOLEAN
    BY DEF TypeOK
  <1> QED
    BY <1>1, CountFacts, OrdersFacts DEF Stopping, Orders

-----------------------------------------------------------------------------
(* The other threads leave the start and the stop where they are. *)

LEMMA WorkedIInv ==
    ASSUME IInv, Worked
    PROVE  IInv'
  <1>1. TypeOK /\ Phase /\ Steady /\ TypeOK' /\ Framed
    BY DEF IInv, Worked
  <1>2. UNCHANGED <<env, state, streaming, ctl>>
    BY <1>1 DEF Framed
  <1>3. /\ \A t \in Streams : Fresh(t) => Fresh(t)'
        /\ \A t \in Streams : Undone(t) => Undone(t)'
        /\ \A t \in Streams : proc[t] = "gone" => proc'[t] = "gone"
    BY <1>1 DEF Framed
  <1>4. Phase'
    <2>1. AllGone => AllGone'
      BY <1>3 DEF AllGone
    <2>2. /\ \A j \in 1..Count : StartOrder[j] \in Streams /\ StopOrder[j] \in Streams
          /\ \A j \in 1..Count : Slots[j] \in Streams
          /\ \A j \in 1..ctl.i - 1 : j \in 1..Count
          /\ Stopping' = Stopping
      <3>1. /\ \A j \in 1..Count : StartOrder[j] \in Streams /\ StopOrder[j] \in Streams
            /\ \A j \in 1..Count : Slots[j] \in Streams
        BY OrdersFacts, CountFacts DEF Orders
      <3>2. ctl.i \in 1..Count /\ Count \in Nat
        BY <1>1, CtlFacts
      <3>3. \A j \in 1..ctl.i - 1 : j \in 1..Count
        BY <3>2
      <3>4. Stopping' = Stopping
        BY <1>2 DEF Stopping
      <3> QED
        BY <3>1, <3>3, <3>4
    <2>3. ctl.at = "down" => (\A s \in Streams : Fresh(s)') /\ AllGone'
      BY <1>1, <1>3, <2>1 DEF Phase
    <2>4. ctl.at \in {"reg", "on", "onwait", "onfail"} =>
            \A j \in 1..Count :
              /\ j < ctl.i => state[StartOrder[j]] = "ACTIVE"
              /\ j > ctl.i => Fresh(StartOrder[j])'
              /\ j = ctl.i => IF ctl.at = "reg" THEN Fresh(StartOrder[j])'
                              ELSE state[StartOrder[j]] = "REG"
      BY <1>1, <1>3, <2>2 DEF Phase
    <2>5. ctl.at \in {"halstop", "haljoin"} => \A j \in 1..ctl.i - 1 : proc'[Slots[j]] = "gone"
      BY <1>1, <1>3, <2>2 DEF Phase
    <2>6. ctl.at \in StopPhase /\ ctl.undo =>
            \A j \in 1..Count :
              /\ j < ctl.i => state[StartOrder[j]] = "BUFFED"
              /\ ctl.i <= j /\ j < ctl.top => state[StartOrder[j]] = "ACTIVE"
              /\ ctl.i <= j /\ j = ctl.top => state[StartOrder[j]] \in {"REG", "BUFFED"}
              /\ j > ctl.top => Fresh(StartOrder[j])'
      BY <1>1, <1>3, <2>2 DEF Phase
    <2>7. ctl.at = "release" => /\ \A s \in Streams : state[s] = "BUFFED" \/ Fresh(s)'
                                /\ ~ctl.undo => AllGone'
      BY <1>1, <1>3, <2>1 DEF Phase
    <2>8. ctl.at \in {"halstop", "haljoin"} /\ ctl.undo => \A s \in Streams : Undone(s)'
      BY <1>1, <1>3 DEF Phase
    <2>9. ctl.at \in StopPhase /\ ~ctl.undo => AllGone'
      BY <1>1, <2>1 DEF Phase
    <2> QED
      BY <1>1, <1>2, <2>2, <2>3, <2>4, <2>5, <2>6, <2>7, <2>8, <2>9 DEF Phase
  <1>5. Kept' /\ Steady'
    BY <1>1, <1>2, KeptPart DEF Worked, Steady
  <1> QED
    BY <1>4, <1>5 DEF IInv, Worked

-----------------------------------------------------------------------------
(* The thread that starts and stops the channel *)

LEMMA SameStreams ==
    ASSUME IInv, \A t \in Streams : Untouched(t),
           UNCHANGED <<state, ret, poll>>,
           ctl.at = "up" /\ ctl'.at # "up" => \A t \in Streams : Idle(t, "app")
    PROVE  /\ PollInv' /\ RetInv' /\ \A t \in Streams : StreamInv(t)'
           /\ \A t \in Streams : Fresh(t) => Fresh(t)'
           /\ \A t \in Streams : Undone(t) => Undone(t)'
           /\ AllGone => AllGone'
           /\ \A t \in Streams : Still(t)' <=> Still(t)
  <1>1. /\ RetInv /\ PollInv /\ \A t \in Streams : StreamInv(t)
    BY DEF IInv
  <1>2. PollInv'
    BY <1>1 DEF PollInv
  <1>3. RetInv'
    BY <1>1 DEF RetInv, Idle
  <1>4. \A t \in Streams : StreamInv(t)'
    BY <1>1, UntouchedInv
  <1>5. /\ \A t \in Streams : Fresh(t) => Fresh(t)'
        /\ \A t \in Streams : Undone(t) => Undone(t)'
        /\ \A t \in Streams : proc'[t] = proc[t]
    BY UntouchedFramed DEF Untouched
  <1> QED
    BY <1>2, <1>3, <1>4, <1>5, UntouchedUnmoved DEF AllGone

LEMMA CtlTo ==
    ASSUME TypeOK, NEW at, NEW i, To(at, i)
    PROVE  /\ ctl'.at = at /\ ctl'.i = i /\ ctl'.top = ctl.top /\ ctl'.undo = ctl.undo
           /\ i \in 1..Count /\ at \in {"down", "reg", "on", "onwait", "onfail", "up",
                 "halstop", "haljoin", "stop", "wait", "off", "join", "release"} =>
               ctl' \in [at : {"down", "reg", "on", "onwait", "onfail", "up", "halstop",
                      "haljoin", "stop", "wait", "off", "join", "release"},
                i : 1..Count, top : 1..Count, undo : BOOLEAN]
  BY DEF TypeOK, To

LEMMA CtlUndo ==
    ASSUME TypeOK, Undo
    PROVE  /\ ctl'.at = "stop" /\ ctl'.i = 1 /\ ctl'.top = ctl.i /\ ctl'.undo
           /\ ctl' \in [at : {"down", "reg", "on", "onwait", "onfail", "up", "halstop",
                      "haljoin", "stop", "wait", "off", "join", "release"},
                i : 1..Count, top : 1..Count, undo : BOOLEAN]
  BY CtlFacts, CountFacts DEF Undo

LEMMA HalStopStep ==
    ASSUME IInv, HalStop
    PROVE  IInv'
  <1>1. /\ TypeOK /\ Phase /\ Kept /\ Steady /\ ctl.at = "up" /\ env.stops
        /\ \A t \in Streams : Idle(t, "app") /\ To("halstop", 1)
    BY DEF IInv, HalStop
  <1>2. UNCHANGED <<env, state, refcnt, queued, driver, streaming, entries, polled,
                    pipe, status, poll, alive, nodes, disp, halOpen, halQ, halExit,
                    proc, app, chan, ret, gone>>
    BY DEF HalStop, libVars, drvVars, pollVars, cbVars, halVars
  <1>3. /\ ctl'.at = "halstop" /\ ctl'.i = 1 /\ ctl'.top = ctl.top /\ ctl'.undo = ctl.undo
    BY <1>1, CtlTo DEF HalStop
  <1>4. TypeOK'
    <2>1. ctl' \in [at : {"down", "reg", "on", "onwait", "onfail", "up", "halstop",
                      "haljoin", "stop", "wait", "off", "join", "release"},
                i : 1..Count, top : 1..Count, undo : BOOLEAN]
      BY <1>1, CtlTo, CountFacts DEF HalStop
    <2> QED
      BY <1>1, <1>2, <2>1 DEF TypeOK
  <1>5. \A t \in Streams : Untouched(t)
    BY <1>2 DEF Untouched
  <1>6. /\ PollInv' /\ RetInv' /\ \A t \in Streams : StreamInv(t)'
        /\ \A t \in Streams : Still(t)' <=> Still(t)
    BY <1>1, <1>2, <1>5, SameStreams
  <1>7. Phase'
    BY <1>1, <1>2, <1>3 DEF Phase, StopPhase
  <1>8. Kept' /\ Steady'
    <2>1. streaming \subseteq Streams
      BY <1>1 DEF TypeOK
    <2> QED
      BY <1>1, <1>2, <1>3, <1>6, <2>1 DEF Kept, Steady
  <1> QED
    BY <1>4, <1>6, <1>7, <1>8 DEF IInv

LEMMA HalExitStep ==
    ASSUME IInv, HalExit
    PROVE  IInv'
  <1>1. /\ TypeOK /\ Phase /\ Kept /\ Steady /\ ctl.at = "halstop" /\ To("haljoin", ctl.i)
        /\ ctl.i \in 1..Count
    BY CtlFacts DEF IInv, HalExit
  <1>2. UNCHANGED <<env, state, refcnt, queued, driver, streaming, entries, polled,
                    pipe, status, poll, alive, nodes, disp, halOpen, halQ,
                    proc, app, chan, ret, gone>>
    BY DEF HalExit, libVars, drvVars, pollVars, cbVars
  <1>3. /\ ctl'.at = "haljoin" /\ ctl'.i = ctl.i /\ ctl'.top = ctl.top /\ ctl'.undo = ctl.undo
    BY <1>1, CtlTo
  <1>4. TypeOK'
    <2>1. ctl' \in [at : {"down", "reg", "on", "onwait", "onfail", "up", "halstop",
                      "haljoin", "stop", "wait", "off", "join", "release"},
                i : 1..Count, top : 1..Count, undo : BOOLEAN]
      BY <1>1, CtlTo
    <2>2. halExit' \subseteq Streams
      BY <1>1, CountFacts DEF HalExit, TypeOK, Orders
    <2> QED
      BY <1>1, <1>2, <2>1, <2>2 DEF TypeOK
  <1>5. \A t \in Streams : Untouched(t)
    BY <1>2 DEF Untouched
  <1>6. /\ PollInv' /\ RetInv' /\ \A t \in Streams : StreamInv(t)'
        /\ \A t \in Streams : Undone(t) => Undone(t)'
        /\ \A t \in Streams : Still(t)' <=> Still(t)
    BY <1>1, <1>2, <1>5, SameStreams
  <1>7. Phase'
    BY <1>1, <1>2, <1>3, <1>6 DEF Phase, StopPhase
  <1>8. Kept' /\ Steady'
    <2>1. streaming \subseteq Streams
      BY <1>1 DEF TypeOK
    <2> QED
      BY <1>1, <1>2, <1>3, <1>6, <2>1 DEF Kept, Steady
  <1> QED
    BY <1>4, <1>6, <1>7, <1>8 DEF IInv

(* The HAL's threads have ended: after a start that failed every stream is as
   it was before. *)
LEMMA AfterUndo ==
    ASSUME IInv, NEW s \in Streams, Undone(s), proc[s] = "gone"
    PROVE  Fresh(s)
  <1>1. Lined(s)
    BY DEF IInv, StreamInv
  <1>2. s \notin streaming /\ s \notin alive
    BY <1>1 DEF Lined, Undone
  <1> QED
    BY <1>1, <1>2 DEF Lined, Undone, Fresh, Still, NoBufs, Idle

LEMMA HalJoinStep ==
    ASSUME IInv, HalJoin
    PROVE  IInv'
  <1>1. /\ TypeOK /\ Phase /\ Kept /\ Steady /\ ctl.at = "haljoin"
        /\ proc[Slots[ctl.i]] = "gone"
        /\ ctl.i \in 1..Count /\ ctl.top \in 1..Count /\ ctl.undo \in BOOLEAN /\ Count \in Nat
    BY CtlFacts DEF IInv, HalJoin
  <1>2. UNCHANGED <<env, state, refcnt, queued, driver, streaming, entries, polled,
                    pipe, status, poll, alive, nodes, disp, halOpen, halQ, halExit,
                    proc, app, chan, ret, gone>>
    BY DEF HalJoin, libVars, drvVars, pollVars, cbVars, halVars
  <1>3. \/ ctl.i < Count /\ To("halstop", ctl.i + 1)
        \/ ctl.i = Count /\ ctl.undo /\ To("down", 1)
        \/ ctl.i = Count /\ ~ ctl.undo /\ To("stop", 1)
    BY <1>1 DEF HalJoin
  <1>4. /\ ctl'.top = ctl.top /\ ctl'.undo = ctl.undo
        /\ \/ ctl.i < Count /\ ctl'.at = "halstop" /\ ctl'.i = ctl.i + 1
           \/ ctl.i = Count /\ ctl.undo /\ ctl'.at = "down" /\ ctl'.i = 1
           \/ ctl.i = Count /\ ~ ctl.undo /\ ctl'.at = "stop" /\ ctl'.i = 1
    BY <1>1, <1>3, CtlTo
  <1>5. TypeOK'
    <2>1. ctl.i < Count => ctl.i + 1 \in 1..Count
      BY <1>1
    <2>2. ctl' \in [at : {"down", "reg", "on", "onwait", "onfail", "up", "halstop",
                      "haljoin", "stop", "wait", "off", "join", "release"},
                i : 1..Count, top : 1..Count, undo : BOOLEAN]
      BY <1>1, <1>3, <2>1, CtlTo, CountFacts
    <2> QED
      BY <1>1, <1>2, <2>2 DEF TypeOK
  <1>6. \A t \in Streams : Untouched(t)
    BY <1>2 DEF Untouched
  <1>7. /\ PollInv' /\ RetInv' /\ \A t \in Streams : StreamInv(t)'
        /\ \A t \in Streams : Fresh(t) => Fresh(t)'
        /\ \A t \in Streams : Undone(t) => Undone(t)'
        /\ AllGone => AllGone'
        /\ \A t \in Streams : Still(t)' <=> Still(t)
    BY <1>1, <1>2, <1>6, SameStreams
  <1>8. \A j \in 1..ctl.i : proc[Slots[j]] = "gone"
    <2>1. \A j \in 1..ctl.i : j = ctl.i \/ j \in 1..ctl.i - 1
      BY <1>1
    <2> QED
      BY <1>1, <2>1 DEF Phase
  <1>9. ctl.i = Count => AllGone
    BY <1>8, CountFacts DEF AllGone, Orders
  <1>10. CASE ctl.i < Count /\ ctl'.at = "halstop" /\ ctl'.i = ctl.i + 1
    <2>1. \A j \in 1..ctl'.i - 1 : proc'[Slots[j]] = "gone"
      BY <1>1, <1>2, <1>8, <1>10
    <2>2. Phase'
      BY <1>1, <1>2, <1>4, <1>7, <1>10, <2>1 DEF Phase, StopPhase
    <2>3. Kept' /\ Steady'
      <3>1. streaming \subseteq Streams
        BY <1>1 DEF TypeOK
      <3> QED
        BY <1>1, <1>2, <1>7, <1>10, <3>1 DEF Kept, Steady
    <2> QED
      BY <1>5, <1>7, <2>2, <2>3 DEF IInv
  <1>11. CASE ctl.i = Count /\ ctl.undo /\ ctl'.at = "down" /\ ctl'.i = 1
    <2>1. \A t \in Streams : Fresh(t)
      BY <1>1, <1>9, <1>11, AfterUndo DEF Phase, AllGone
    <2>2. Phase'
      BY <1>1, <1>2, <1>4, <1>7, <1>9, <1>11, <2>1 DEF Phase, StopPhase
    <2>3. Kept' /\ Steady'
      <3>1. streaming \subseteq Streams
        BY <1>1 DEF TypeOK
      <3> QED
        BY <1>1, <1>2, <1>7, <1>11, <3>1 DEF Kept, Steady
    <2> QED
      BY <1>5, <1>7, <2>2, <2>3 DEF IInv
  <1>12. CASE ctl.i = Count /\ ~ ctl.undo /\ ctl'.at = "stop" /\ ctl'.i = 1
    <2>1. \A j \in 1..Count : StopOrder[j] \in Streams
      BY OrdersFacts DEF Orders
    <2>2. \A t \in Streams : state[t] = "ACTIVE"
      BY <1>1, <1>12 DEF Phase
    <2>3. Phase'
      BY <1>1, <1>2, <1>4, <1>7, <1>9, <1>12, <2>1, <2>2 DEF Phase, StopPhase
    <2>4. Kept' /\ Steady'
      <3>1. streaming \subseteq Streams
        BY <1>1 DEF TypeOK
      <3> QED
        BY <1>1, <1>2, <1>7, <1>12, <3>1 DEF Kept, Steady
    <2> QED
      BY <1>5, <1>7, <2>3, <2>4 DEF IInv
  <1> QED
    BY <1>4, <1>10, <1>11, <1>12

LEMMA StreamOnUndoStep ==
    ASSUME IInv, StreamOnUndo
    PROVE  IInv'
  <1>1. /\ TypeOK /\ Phase /\ Kept /\ Steady /\ ctl.at \in {"onwait", "onfail"} /\ Undo
        /\ ctl.i \in 1..Count
    BY CtlFacts DEF IInv, StreamOnUndo
  <1>2. UNCHANGED <<env, state, refcnt, queued, driver, streaming, entries, polled,
                    pipe, status, poll, alive, nodes, disp, halOpen, halQ, halExit,
                    proc, app, chan, ret, gone>>
    BY DEF StreamOnUndo, libVars, drvVars, pollVars, cbVars, halVars
  <1>3. /\ ctl'.at = "stop" /\ ctl'.i = 1 /\ ctl'.top = ctl.i /\ ctl'.undo
    BY <1>1, CtlUndo
  <1>4. TypeOK'
    <2>1. ctl' \in [at : {"down", "reg", "on", "onwait", "onfail", "up", "halstop",
                      "haljoin", "stop", "wait", "off", "join", "release"},
                i : 1..Count, top : 1..Count, undo : BOOLEAN]
      BY <1>1, CtlUndo
    <2> QED
      BY <1>1, <1>2, <2>1 DEF TypeOK
  <1>5. \A t \in Streams : Untouched(t)
    BY <1>2 DEF Untouched
  <1>6. /\ PollInv' /\ RetInv' /\ \A t \in Streams : StreamInv(t)'
        /\ \A t \in Streams : Fresh(t) => Fresh(t)'
        /\ \A t \in Streams : Still(t)' <=> Still(t)
    BY <1>1, <1>2, <1>5, SameStreams
  <1>7. Phase'
    <2>1. \A j \in 1..Count :
            /\ 1 <= j /\ j < ctl.i => state[StartOrder[j]] = "ACTIVE"
            /\ j = ctl.i => state[StartOrder[j]] = "REG"
            /\ j > ctl.i => Fresh(StartOrder[j])'
      <3>1. \A j \in 1..Count : StartOrder[j] \in Streams
        BY OrdersFacts DEF Orders
      <3> QED
        BY <1>1, <1>6, <3>1 DEF Phase
    <2>2. 1 <= ctl.i
      BY <1>1, CountFacts
    <2>3. \A j \in 1..Count : ~ (j < 1)
      BY CountFacts
    <2> QED
      BY <1>1, <1>2, <1>3, <2>1, <2>2, <2>3 DEF Phase, StopPhase
  <1>8. Kept' /\ Steady'
    <2>1. streaming \subseteq Streams
      BY <1>1 DEF TypeOK
    <2> QED
      BY <1>1, <1>2, <1>3, <1>6, <2>1 DEF Kept, Steady
  <1> QED
    BY <1>4, <1>6, <1>7, <1>8 DEF IInv

LEMMA StopWaitStep ==
    ASSUME IInv, StopWait
    PROVE  IInv'
  <1>1. /\ TypeOK /\ Phase /\ Kept /\ Steady /\ ctl.at = "wait" /\ To("off", ctl.i)
        /\ ctl.i \in 1..Count /\ status
    BY CtlFacts DEF IInv, StopWait
  <1>2. UNCHANGED <<env, state, refcnt, queued, driver, streaming, entries, polled,
                    pipe, status, poll, alive, nodes, disp, halOpen, halQ, halExit,
                    proc, app, chan, ret, gone>>
    BY DEF StopWait, libVars, drvVars, pollVars, cbVars, halVars
  <1>3. /\ ctl'.at = "off" /\ ctl'.i = ctl.i /\ ctl'.top = ctl.top /\ ctl'.undo = ctl.undo
        /\ (Stopping' = Stopping)
    BY <1>1, CtlTo DEF Stopping
  <1>4. TypeOK'
    <2>1. ctl' \in [at : {"down", "reg", "on", "onwait", "onfail", "up", "halstop",
                      "haljoin", "stop", "wait", "off", "join", "release"},
                i : 1..Count, top : 1..Count, undo : BOOLEAN]
      BY <1>1, CtlTo
    <2> QED
      BY <1>1, <1>2, <2>1 DEF TypeOK
  <1>5. \A t \in Streams : Untouched(t)
    BY <1>2 DEF Untouched
  <1>6. /\ PollInv' /\ RetInv' /\ \A t \in Streams : StreamInv(t)'
        /\ \A t \in Streams : Fresh(t) => Fresh(t)'
        /\ AllGone => AllGone'
        /\ \A t \in Streams : Still(t)' <=> Still(t)
    BY <1>1, <1>2, <1>5, SameStreams
  <1>7. Phase'
    <2>1. \A j \in 1..Count : StartOrder[j] \in Streams
      BY OrdersFacts DEF Orders
    <2> QED
      BY <1>1, <1>2, <1>3, <1>6, <2>1 DEF Phase, StopPhase
  <1>8. Kept' /\ Steady'
    <2>1. streaming \subseteq Streams
      BY <1>1 DEF TypeOK
    <2> QED
      BY <1>1, <1>2, <1>3, <1>6, <2>1 DEF Kept, Steady
  <1> QED
    BY <1>4, <1>6, <1>7, <1>8 DEF IInv

(* The stream leaves the poll set, and the caller waits until the poll thread
   has seen it. *)
LEMMA DelFdFacts ==
    ASSUME TypeOK, NEW s \in Streams, NEW wait, NEW done, DelFdSync(s, wait, done),
           wait \in {"onwait", "wait"}, done \in {"onfail", "off"}
    PROVE  /\ entries' = entries \ {s}
           /\ pipe' \in Seq({"SYNC", "ASYNC"}) /\ status' \in BOOLEAN
           /\ ctl' \in [at : {"down", "reg", "on", "onwait", "onfail", "up", "halstop",
                      "haljoin", "stop", "wait", "off", "join", "release"},
                i : 1..Count, top : 1..Count, undo : BOOLEAN]
           /\ ctl'.i = ctl.i /\ ctl'.top = ctl.top /\ ctl'.undo = ctl.undo
           /\ \/ s \in entries /\ ~ status' /\ ctl'.at = wait
              \/ s \notin entries /\ ctl'.at = done
  <1>1. ctl.i \in 1..Count /\ pipe \in Seq({"SYNC", "ASYNC"}) /\ status \in BOOLEAN
    BY DEF TypeOK
  <1>2. CASE s \in entries
    <2>1. /\ To(wait, ctl.i) /\ pipe' = Append(pipe, "SYNC") /\ status' = FALSE
          /\ entries' = entries \ {s}
      BY <1>2 DEF DelFdSync
    <2>2. pipe' \in Seq({"SYNC", "ASYNC"})
      BY <1>1, <2>1
    <2> QED
      BY <1>1, <1>2, <2>1, <2>2, CtlTo
  <1>3. CASE s \notin entries
    <2>1. To(done, ctl.i) /\ UNCHANGED <<entries, pipe, status>>
      BY <1>3 DEF DelFdSync
    <2> QED
      BY <1>1, <1>3, <2>1, CtlTo
  <1> QED
    BY <1>2, <1>3

LEMMA StreamOnFailsStep ==
    ASSUME IInv, StreamOnFails
    PROVE  IInv'
  <1>1. PICK s \in Streams : s = StartOrder[ctl.i]
    BY CtlFacts DEF IInv
  <1>2. /\ TypeOK /\ Phase /\ Kept /\ Steady /\ ctl.at = "on" /\ env.fails
        /\ DelFdSync(s, "onwait", "onfail") /\ ctl.i \in 1..Count
        /\ state[s] = "REG" /\ Lined(s)
    <2>1. TypeOK /\ Phase /\ ctl.at = "on" /\ ctl.i \in 1..Count
      BY CtlFacts DEF IInv, StreamOnFails
    <2>2. state[s] = "REG"
      BY <1>1, <2>1 DEF Phase
    <2> QED
      BY <1>1, <2>1, <2>2 DEF IInv, StreamInv, StreamOnFails
  <1>3. UNCHANGED <<env, state, refcnt, queued, driver, streaming, polled,
                    poll, alive, nodes, disp, halOpen, halQ, halExit,
                    proc, app, chan, ret, gone>>
    BY DEF StreamOnFails, libVars, drvVars, cbVars, halVars
  <1>4. /\ entries' = entries \ {s}
        /\ pipe' \in Seq({"SYNC", "ASYNC"}) /\ status' \in BOOLEAN
        /\ ctl' \in [at : {"down", "reg", "on", "onwait", "onfail", "up", "halstop",
                      "haljoin", "stop", "wait", "off", "join", "release"},
                i : 1..Count, top : 1..Count, undo : BOOLEAN]
        /\ ctl'.i = ctl.i /\ ctl'.top = ctl.top /\ ctl'.undo = ctl.undo
        /\ ctl'.at \in {"onwait", "onfail"}
    BY <1>2, DelFdFacts
  <1>5. TypeOK'
    BY <1>2, <1>3, <1>4 DEF TypeOK
  <1>6. \A t \in Streams : Untouched(t)
    BY <1>3 DEF Untouched
  <1>7. /\ PollInv' /\ RetInv' /\ \A t \in Streams : StreamInv(t)'
        /\ \A t \in Streams : Fresh(t) => Fresh(t)'
        /\ \A t \in Streams : Still(t)' <=> Still(t)
    BY <1>2, <1>3, <1>6, SameStreams
  <1>8. Phase'
    <2>1. \A j \in 1..Count : StartOrder[j] \in Streams
      BY OrdersFacts DEF Orders
    <2> QED
      BY <1>2, <1>3, <1>4, <1>7, <2>1 DEF Phase, StopPhase
  <1>9. Kept' /\ Steady'
    <2>1. streaming \subseteq Streams /\ s \notin streaming
      BY <1>2 DEF TypeOK, Lined
    <2> QED
      BY <1>2, <1>3, <1>4, <1>7, <2>1 DEF Kept, Steady
  <1> QED
    BY <1>5, <1>7, <1>8, <1>9 DEF IInv

LEMMA StopDelStep ==
    ASSUME IInv, StopDel
    PROVE  IInv'
  <1>1. PICK s \in Streams : s = Stopping
    BY CtlFacts DEF IInv
  <1>2. /\ TypeOK /\ Phase /\ Kept /\ Steady /\ ctl.at = "stop" /\ state[s] = "ACTIVE"
        /\ DelFdSync(s, "wait", "off") /\ ctl.i \in 1..Count
    BY <1>1, CtlFacts DEF IInv, StopDel
  <1>3. UNCHANGED <<env, state, refcnt, queued, driver, streaming, polled,
                    poll, alive, nodes, disp, halOpen, halQ, halExit,
                    proc, app, chan, ret, gone>>
    BY DEF StopDel, libVars, drvVars, cbVars, halVars
  <1>4. /\ entries' = entries \ {s}
        /\ pipe' \in Seq({"SYNC", "ASYNC"}) /\ status' \in BOOLEAN
        /\ ctl' \in [at : {"down", "reg", "on", "onwait", "onfail", "up", "halstop",
                      "haljoin", "stop", "wait", "off", "join", "release"},
                i : 1..Count, top : 1..Count, undo : BOOLEAN]
        /\ ctl'.i = ctl.i /\ ctl'.top = ctl.top /\ ctl'.undo = ctl.undo
        /\ \/ s \in entries /\ ~ status' /\ ctl'.at = "wait"
           \/ s \notin entries /\ ctl'.at = "off"
    BY <1>2, DelFdFacts
  <1>5. Stopping' = s
    BY <1>1, <1>4 DEF Stopping
  <1>6. TypeOK'
    BY <1>2, <1>3, <1>4 DEF TypeOK
  <1>7. \A t \in Streams : Untouched(t)
    BY <1>3 DEF Untouched
  <1>8. /\ PollInv' /\ RetInv' /\ \A t \in Streams : StreamInv(t)'
        /\ \A t \in Streams : Fresh(t) => Fresh(t)'
        /\ AllGone => AllGone'
        /\ \A t \in Streams : Still(t)' <=> Still(t)
    BY <1>2, <1>3, <1>7, SameStreams
  <1>9. Phase'
    <2>1. \A j \in 1..Count : StartOrder[j] \in Streams
      BY OrdersFacts DEF Orders
    <2>2. ctl'.at \in {"wait", "off"}
      BY <1>4
    <2> QED
      BY <1>2, <1>3, <1>4, <1>5, <1>8, <2>1, <2>2 DEF Phase, StopPhase
  <1>10. Kept' /\ Steady'
    <2>1. streaming \subseteq Streams
      BY <1>2 DEF TypeOK
    <2>2. env.stops \/ env.fails
      BY <1>2 DEF Steady
    <2>3. ASSUME NEW t \in streaming
          PROVE  /\ driver[t].empty = {} => Still(t)'
                 /\ poll.stream = t => t \in entries' \/ (ctl'.at = "wait" /\ s = t /\ ~status')
                 /\ ctl'.at \in {"wait", "off"} /\ s = t => t \notin entries'
      BY <1>2, <1>4, <1>8, <2>1, <2>2 DEF Kept
    <2> QED
      BY <1>3, <1>5, <2>2, <2>3 DEF Kept, Steady
  <1> QED
    BY <1>6, <1>8, <1>9, <1>10 DEF IInv

LEMMA HalStartStep ==
    ASSUME IInv, HalStart
    PROVE  IInv'
  <1>1. /\ TypeOK /\ Phase /\ RetInv /\ PollInv /\ ctl.at = "down"
        /\ \A s \in Streams : Fresh(s) /\ StreamInv(s)
    BY DEF IInv, HalStart, Phase
  <1>2. /\ UNCHANGED <<env, state, refcnt, queued, driver, streaming, entries, polled,
                       pipe, status, poll, alive, nodes, disp, halQ, app, chan, ret,
                       gone>>
        /\ halOpen' = Streams /\ halExit' = {}
        /\ proc' = [s \in Streams |-> "idle"]
        /\ ctl' = [at |-> "reg", i |-> 1, top |-> Count, undo |-> FALSE]
    BY DEF HalStart, libVars, drvVars, pollVars, cbVars
  <1>3. TypeOK'
    <2>1. ctl' \in [at : {"down", "reg", "on", "onwait", "onfail", "up", "halstop",
                      "haljoin", "stop", "wait", "off", "join", "release"},
                i : 1..Count, top : 1..Count, undo : BOOLEAN]
      BY <1>2, CountFacts
    <2>2. proc' \in [Streams -> {"gone", "idle", "flush"}] /\ halOpen' \subseteq Streams
          /\ halExit' \subseteq Streams
      BY <1>2
    <2> QED
      BY <1>1, <1>2, <2>1, <2>2 DEF TypeOK
  <1>4. PollInv' /\ RetInv'
    BY <1>1, <1>2 DEF PollInv, RetInv
  <1>5. ASSUME NEW s \in Streams
        PROVE  StreamInv(s)' /\ Fresh(s)' /\ s \notin streaming
    <2>1. Still(s)' <=> Still(s)
      BY <1>2 DEF Still, Idle
    <2>2. Fresh(s)'
      BY <1>1, <1>2, <2>1 DEF Fresh
    <2>3. /\ ~ Live(s)' /\ ~ Live(s) /\ Dead(s) /\ Lined(s)
      BY <1>1, <1>2 DEF Live, Fresh, StreamInv
    <2>4. Dead(s)'
      BY <1>2, <2>1, <2>3 DEF Dead, Decs, AtStep
    <2>5. Lined(s)'
      BY <1>1, <1>2, <2>1, <2>3 DEF Lined, Idle, Fresh
    <2>6. s \notin streaming /\ state[s] # "REG"
      BY <1>1, <2>3 DEF Lined, Fresh
    <2> QED
      BY <1>2, <2>2, <2>3, <2>4, <2>5, <2>6 DEF StreamInv
  <1>6. Phase'
    <2>1. \A j \in 1..Count : StartOrder[j] \in Streams
      BY OrdersFacts DEF Orders
    <2>2. \A j \in 1..Count : ~ (j < 1)
      BY CountFacts
    <2> QED
      BY <1>2, <1>5, <2>1, <2>2 DEF Phase, StopPhase
  <1>7. Kept' /\ Steady'
    <2>1. streaming \subseteq Streams
      BY <1>1 DEF TypeOK
    <2> QED
      BY <1>2, <1>5, <2>1 DEF Kept, Steady
  <1> QED
    BY <1>3, <1>4, <1>5, <1>6, <1>7 DEF IInv

LEMMA OneStream ==
    ASSUME IInv, NEW s \in Streams, \A t \in Streams \ {s} : Untouched(t)
    PROVE  \A t \in Streams \ {s} : /\ StreamInv(t)'
                                    /\ Fresh(t) => Fresh(t)'
                                    /\ Still(t)' <=> Still(t)
                                    /\ state'[t] = state[t] /\ proc'[t] = proc[t]
  BY UntouchedInv, UntouchedFramed, UntouchedUnmoved DEF IInv, Untouched

LEMMA FreshCalls ==
    ASSUME IInv, NEW s \in Streams, Fresh(s), ctl.at # "up"
    PROVE  /\ chan[s] = {} /\ halQ[s] = <<>> /\ nodes[s] = <<>> /\ disp[s] = None
           /\ driver[s].frames = <<>> /\ poll.stream # s
           /\ \A w \in Returners : Idle(s, w)
           /\ \A b \in Bufs, w \in Returners : ~ Holds(s, w, b) /\ ~ Passes(s, w, b)
           /\ \A b \in Bufs : ~ AtQueue(s, b)
           /\ Dead(s) /\ Lined(s) /\ s \notin streaming /\ s \notin alive
  <1>1. Idle(s, "app")
    BY DEF IInv, RetInv, Idle, Returners
  <1>2. \A w \in Returners : Idle(s, w)
    BY <1>1 DEF Fresh, Still, Returners
  <1>3. Dead(s) /\ Lined(s)
    BY DEF IInv, StreamInv, Live, Fresh
  <1> QED
    BY <1>2, <1>3 DEF Fresh, Still, Lined, Holds, Passes, AtQueue, Idle, None

LEMMA RegBooks ==
    ASSUME IInv, NEW s \in Streams, Fresh(s), ctl.at # "up",
           refcnt'[s] = [b \in Bufs |-> IF b \in InitReg[s] THEN 0 ELSE 1],
           queued'[s] = Cardinality(InitReg[s]),
           driver'[s].empty = InitReg[s], driver'[s].frames = driver[s].frames,
           app'[s] = Bufs \ InitReg[s], gone'[s] = {},
           UNCHANGED <<nodes, disp, halQ, chan, ret, poll>>
    PROVE  Books(s)' /\ Whole(s)'
  <1>1. InitReg[s] \subseteq Bufs
    BY InitRegAssumption
  <1>2. /\ chan'[s] = {} /\ halQ'[s] = <<>> /\ nodes'[s] = <<>> /\ disp'[s] = None
        /\ driver'[s].frames = <<>> /\ poll'.stream # s
    BY FreshCalls
  <1>3. ASSUME NEW b \in Bufs
        PROVE  /\ Places(s, b)' /\ Book(s, b)' /\ (In(s, b)' <=> b \in InitReg[s])
               /\ D(s, b)' \/ Taken(s, b)'
    <2>1. /\ \A w \in Returners : ~ Holds(s, w, b)' /\ ~ Passes(s, w, b)'
          /\ ~ AtQueue(s, b)'
      BY FreshCalls DEF Holds, Passes, AtQueue
    <2>2. /\ ~ PollAt(s, b, {"chan"})' /\ ~ PollAt(s, b, {"chan", "node"})'
          /\ ~ PollAt(s, b, {"count", "ref"})' /\ ~ PollAt(s, b, {"ref"})'
      BY <1>2 DEF PollAt
    <2>3. /\ b \notin Range(nodes'[s]) /\ b \notin Range(halQ'[s])
          /\ b \notin Range(driver'[s].frames)
      BY <1>2, EmptyFacts
    <2>4. disp'[s] # b /\ b \notin chan'[s] /\ b \notin gone'[s]
      BY <1>2, BufsAssumption
    <2>5. ~ Passing(s, b)'
      BY <2>1 DEF Passing
    <2>6. /\ ~ Holds(s, "chan", b)' /\ ~ Holds(s, "disp", b)'
          /\ ~ Holds(s, "proc", b)' /\ ~ Holds(s, "app", b)'
      BY <2>1 DEF Returners
    <2>7. b \in app'[s] <=> b \notin InitReg[s]
      OBVIOUS
    <2>8. Places(s, b)'
      BY <2>1, <2>2, <2>3, <2>4, <2>5, <2>6, <2>7
         DEF Places, Apart2, Apart3, Apart4, Apart5
    <2>9. /\ ~ C(s, b)' /\ ~ P(s, b)' /\ ~ Waiting(s, b)'
          /\ A(s, b)' <=> b \notin InitReg[s]
          /\ D(s, b)' <=> b \in InitReg[s]
      BY <2>2, <2>3, <2>4, <2>5, <2>6, <2>7 DEF C, P, A, D, Waiting
    <2>10. /\ T(s, b)' = IF b \in InitReg[s] THEN 0 ELSE 1
           /\ Taken(s, b)' <=> b \notin InitReg[s]
      BY <2>9 DEF T, One, Taken
    <2>11. refcnt'[s][b] = IF b \in InitReg[s] THEN 0 ELSE 1
      OBVIOUS
    <2>12. Book(s, b)'
      BY <2>4, <2>9, <2>10, <2>11 DEF Book
    <2> QED
      BY <2>1, <2>2, <2>4, <2>8, <2>9, <2>10, <2>12 DEF In
  <1>4. Counted(s)' = InitReg[s]
    BY <1>1, <1>3 DEF Counted
  <1>5. Once(driver'[s].frames) /\ Once(nodes'[s]) /\ Once(halQ'[s])
    BY <1>2, EmptyFacts
  <1> QED
    BY <1>3, <1>4, <1>5 DEF Books, Whole

LEMMA RegBufStep ==
    ASSUME IInv, RegBuf
    PROVE  IInv'
  <1>1. PICK s \in Streams : s = StartOrder[ctl.i]
    BY CtlFacts DEF IInv
  <1>2. /\ TypeOK /\ Phase /\ Kept /\ Steady /\ RetInv /\ PollInv /\ ctl.at = "reg"
        /\ Fresh(s) /\ ctl.i \in 1..Count /\ To("on", ctl.i)
    <2>1. TypeOK /\ Phase /\ Kept /\ Steady /\ RetInv /\ PollInv /\ ctl.at = "reg" /\ ctl.i \in 1..Count
      BY CtlFacts DEF IInv, RegBuf
    <2> QED
      BY <1>1, <2>1 DEF Phase, RegBuf
  <1>3. /\ UNCHANGED <<env, streaming, polled, status, poll, alive, nodes, disp, halOpen,
                       halQ, halExit, proc, chan, ret>>
        /\ state' = [state EXCEPT ![s] = "REG"]
        /\ refcnt' = [refcnt EXCEPT ![s] =
                        [b \in Bufs |-> IF b \in InitReg[s] THEN 0 ELSE 1]]
        /\ queued' = [queued EXCEPT ![s] = Cardinality(InitReg[s])]
        /\ driver' = [driver EXCEPT ![s].empty = InitReg[s]]
        /\ app' = [app EXCEPT ![s] = Bufs \ InitReg[s]]
        /\ gone' = [gone EXCEPT ![s] = {}]
        /\ IF InitReg[s] # {} THEN AddFd(s) ELSE UNCHANGED <<entries, pipe>>
    BY <1>1 DEF RegBuf, cbVars
  <1>4. /\ ctl'.at = "on" /\ ctl'.i = ctl.i /\ ctl'.top = ctl.top /\ ctl'.undo = ctl.undo
        /\ ctl' \in [at : {"down", "reg", "on", "onwait", "onfail", "up", "halstop",
                      "haljoin", "stop", "wait", "off", "join", "release"},
                i : 1..Count, top : 1..Count, undo : BOOLEAN]
    BY <1>2, CtlTo
  <1>5. InitReg[s] \subseteq Bufs /\ Cardinality(InitReg[s]) \in 0..Cardinality(Bufs)
    <2>1. InitReg[s] \subseteq Bufs
      BY InitRegAssumption
    <2> QED
      BY <2>1, FS_Subset, FS_CardinalityType, BufsAssumption
  <1>6. /\ state \in [Streams -> States] /\ refcnt \in [Streams -> [Bufs -> 0..255]]
        /\ queued \in [Streams -> 0..Cardinality(Bufs)]
        /\ driver \in [Streams -> [empty : SUBSET Bufs, frames : Seq(Bufs)]]
        /\ app \in [Streams -> SUBSET Bufs] /\ gone \in [Streams -> SUBSET Bufs]
        /\ entries \subseteq Streams /\ pipe \in Seq({"SYNC", "ASYNC"})
        /\ streaming \subseteq Streams
    BY <1>2 DEF TypeOK
  <1>7. /\ state' \in [Streams -> States] /\ state'[s] = "REG"
        /\ \A t \in Streams \ {s} : state'[t] = state[t]
    BY <1>3, <1>6 DEF States
  <1>8. /\ refcnt' \in [Streams -> [Bufs -> 0..255]]
        /\ refcnt'[s] = [b \in Bufs |-> IF b \in InitReg[s] THEN 0 ELSE 1]
        /\ \A t \in Streams \ {s} : refcnt'[t] = refcnt[t]
    BY <1>3, <1>6
  <1>9. /\ queued' \in [Streams -> 0..Cardinality(Bufs)]
        /\ queued'[s] = Cardinality(InitReg[s])
        /\ \A t \in Streams \ {s} : queued'[t] = queued[t]
    BY <1>3, <1>5, <1>6
  <1>10. /\ driver' \in [Streams -> [empty : SUBSET Bufs, frames : Seq(Bufs)]]
         /\ driver'[s].empty = InitReg[s] /\ driver'[s].frames = driver[s].frames
         /\ \A t \in Streams \ {s} : driver'[t] = driver[t]
    <2>1. [driver[s] EXCEPT !.empty = InitReg[s]] \in [empty : SUBSET Bufs, frames : Seq(Bufs)]
      <3>1. driver[s] \in [empty : SUBSET Bufs, frames : Seq(Bufs)]
        BY <1>6
      <3>2. InitReg[s] \in SUBSET Bufs
        BY <1>5
      <3> QED
        BY <3>1, <3>2
    <2>2. driver' = [driver EXCEPT ![s] = [driver[s] EXCEPT !.empty = InitReg[s]]]
      <3>1. driver' = [driver EXCEPT ![s].empty = InitReg[s]]
        BY <1>3
      <3> QED
        BY <1>6, <3>1
    <2> QED
      BY <1>6, <2>1, <2>2
  <1>11. /\ app' \in [Streams -> SUBSET Bufs] /\ app'[s] = Bufs \ InitReg[s]
         /\ gone' \in [Streams -> SUBSET Bufs] /\ gone'[s] = {}
         /\ \A t \in Streams \ {s} : app'[t] = app[t] /\ gone'[t] = gone[t]
    BY <1>3, <1>6
  <1>12. /\ entries' \subseteq Streams /\ pipe' \in Seq({"SYNC", "ASYNC"})
         /\ \A t \in entries : t \in entries'
    <2>1. /\ (entries' = entries \cup {s} \/ entries' = entries)
          /\ (pipe' = Append(pipe, "ASYNC") \/ pipe' = pipe)
      BY <1>3 DEF AddFd
    <2>2. entries' \subseteq Streams /\ \A t \in entries : t \in entries'
      BY <1>6, <2>1
    <2>3. pipe' \in Seq({"SYNC", "ASYNC"})
      <3>1. pipe \in Seq({"SYNC", "ASYNC"})
        BY <1>6
      <3>2. Append(pipe, "ASYNC") \in Seq({"SYNC", "ASYNC"})
        BY <3>1
      <3> QED
        BY <2>1, <3>1, <3>2
    <2> QED
      BY <2>2, <2>3
  <1>13. UNCHANGED <<env, streaming, polled, status, poll, alive, nodes, disp, halOpen,
                     halQ, halExit, proc, chan, ret>>
    BY <1>3
  <1>14. TypeOK'
    <2>1. TypeOK
      BY <1>2
    <2>2. /\ state' \in [Streams -> States] /\ refcnt' \in [Streams -> [Bufs -> 0..255]]
          /\ queued' \in [Streams -> 0..Cardinality(Bufs)]
          /\ driver' \in [Streams -> [empty : SUBSET Bufs, frames : Seq(Bufs)]]
          /\ app' \in [Streams -> SUBSET Bufs] /\ gone' \in [Streams -> SUBSET Bufs]
          /\ entries' \subseteq Streams /\ pipe' \in Seq({"SYNC", "ASYNC"})
      BY <1>7, <1>8, <1>9, <1>10, <1>11, <1>12
    <2> QED
      BY <1>4, <1>13, <2>1, <2>2 DEF TypeOK
  <1>15. \A t \in Streams \ {s} : Untouched(t)
    BY <1>7, <1>8, <1>9, <1>10, <1>11, <1>13 DEF Untouched
  <1>16. \A t \in Streams \ {s} : /\ StreamInv(t)'
                                  /\ Fresh(t) => Fresh(t)'
                                  /\ Still(t)' <=> Still(t)
    BY <1>15, OneStream
  <1>17. StreamInv(s)'
    <2>1. Books(s)' /\ Whole(s)'
      BY <1>2, <1>8, <1>9, <1>10, <1>11, <1>13, RegBooks
    <2>2. Still(s)'
      BY <1>2, <1>10, <1>13, FreshCalls DEF Still, Idle, Returners
    <2>3. Lined(s)'
      BY <1>2, <1>7, <1>10, <1>13, <2>2, FreshCalls DEF Lined, Idle, Still
    <2> QED
      BY <1>7, <2>1, <2>3 DEF StreamInv, Live
  <1>18. PollInv' /\ RetInv'
    BY <1>2, <1>4, <1>13 DEF PollInv, RetInv
  <1>19. Phase'
    <2>1. \A j \in 1..Count : /\ StartOrder[j] \in Streams
                              /\ StartOrder[j] = s => j = ctl.i
      BY <1>1, <1>2, OrdersFacts DEF Orders
    <2>2. \A j \in 1..Count :
            /\ j < ctl.i => state'[StartOrder[j]] = "ACTIVE"
            /\ j > ctl.i => Fresh(StartOrder[j])'
            /\ j = ctl.i => state'[StartOrder[j]] = "REG"
      <3>1. ASSUME NEW j \in 1..Count, j # ctl.i
            PROVE  /\ state'[StartOrder[j]] = state[StartOrder[j]]
                   /\ Fresh(StartOrder[j]) => Fresh(StartOrder[j])'
        BY <1>7, <1>16, <2>1, <3>1
      <3>2. \A j \in 1..Count : (j < ctl.i \/ j > ctl.i) => j # ctl.i
        BY CtlFacts, <1>2
      <3> QED
        BY <1>1, <1>2, <1>7, <3>1, <3>2 DEF Phase
    <2> QED
      BY <1>2, <1>4, <2>2 DEF Phase, StopPhase
  <1>20. Kept' /\ Steady'
    <2>1. s \notin streaming
      BY <1>2, FreshCalls
    <2>2. Steady'
      BY <1>4 DEF Steady
    <2>3. ASSUME env.stops \/ env.fails, NEW t \in streaming
          PROVE  /\ driver'[t].empty = {} => Still(t)'
                 /\ poll.stream = t => t \in entries'
      BY <1>2, <1>6, <1>10, <1>12, <1>16, <2>1, <2>3 DEF Kept
    <2>4. Kept'
      BY <1>4, <1>13, <2>3 DEF Kept
    <2> QED
      BY <2>2, <2>4
  <1> QED
    BY <1>14, <1>16, <1>17, <1>18, <1>19, <1>20 DEF IInv

LEMMA RegBufFailsStep ==
    ASSUME IInv, RegBufFails
    PROVE  IInv'
  <1>1. PICK s \in Streams : s = StartOrder[ctl.i]
    BY CtlFacts DEF IInv
  <1>2. /\ TypeOK /\ Phase /\ Kept /\ Steady /\ RetInv /\ PollInv /\ ctl.at = "reg"
        /\ Fresh(s) /\ ctl.i \in 1..Count /\ Undo /\ env.fails /\ ~ ctl.undo
    <2>1. /\ TypeOK /\ Phase /\ Kept /\ Steady /\ RetInv /\ PollInv /\ ctl.at = "reg"
          /\ ctl.i \in 1..Count
      BY CtlFacts DEF IInv, RegBufFails
    <2> QED
      BY <1>1, <2>1 DEF Phase, RegBufFails
  <1>3. PICK Q \in SUBSET InitReg[s] :
         /\ state' = [state EXCEPT ![s] = "BUFFED"]
         /\ queued' = [queued EXCEPT ![s] = Cardinality(Q)]
         /\ driver' = [driver EXCEPT ![s].empty = Q]
         /\ IF Q # {} THEN AddFd(s) ELSE DelFd(s)
    BY <1>1 DEF RegBufFails
  <1>4. /\ UNCHANGED <<env, refcnt, streaming, polled, status, poll, alive, nodes, disp,
                       halOpen, halQ, halExit, proc, chan, ret>>
        /\ app' = [app EXCEPT ![s] = {}]
        /\ gone' = [gone EXCEPT ![s] = {}]
    BY <1>1 DEF RegBufFails, cbVars
  <1>5. /\ ctl'.at = "stop" /\ ctl'.i = 1 /\ ctl'.top = ctl.i /\ ctl'.undo
        /\ ctl' \in [at : {"down", "reg", "on", "onwait", "onfail", "up", "halstop",
                      "haljoin", "stop", "wait", "off", "join", "release"},
                i : 1..Count, top : 1..Count, undo : BOOLEAN]
    BY <1>2, CtlUndo
  <1>6. /\ Q \subseteq Bufs /\ Cardinality(Q) \in 0..Cardinality(Bufs)
    <2>1. Q \subseteq Bufs
      BY InitRegAssumption
    <2> QED
      BY <2>1, FS_Subset, FS_CardinalityType, BufsAssumption
  <1>7. /\ state \in [Streams -> States]
        /\ queued \in [Streams -> 0..Cardinality(Bufs)]
        /\ driver \in [Streams -> [empty : SUBSET Bufs, frames : Seq(Bufs)]]
        /\ app \in [Streams -> SUBSET Bufs] /\ gone \in [Streams -> SUBSET Bufs]
        /\ entries \subseteq Streams /\ pipe \in Seq({"SYNC", "ASYNC"})
        /\ streaming \subseteq Streams
    BY <1>2 DEF TypeOK
  <1>8. /\ state' \in [Streams -> States] /\ state'[s] = "BUFFED"
        /\ \A t \in Streams \ {s} : state'[t] = state[t]
    BY <1>3, <1>7 DEF States
  <1>9. /\ queued' \in [Streams -> 0..Cardinality(Bufs)]
        /\ queued'[s] = Cardinality(Q)
        /\ \A t \in Streams \ {s} : queued'[t] = queued[t]
    BY <1>3, <1>6, <1>7
  <1>10. /\ driver' \in [Streams -> [empty : SUBSET Bufs, frames : Seq(Bufs)]]
         /\ driver'[s].frames = driver[s].frames
         /\ \A t \in Streams \ {s} : driver'[t] = driver[t]
    <2>1. [driver[s] EXCEPT !.empty = Q] \in [empty : SUBSET Bufs, frames : Seq(Bufs)]
      BY <1>6, <1>7
    <2>2. driver' = [driver EXCEPT ![s] = [driver[s] EXCEPT !.empty = Q]]
      BY <1>3, <1>7
    <2> QED
      BY <1>7, <2>1, <2>2
  <1>11. /\ app' \in [Streams -> SUBSET Bufs] /\ app'[s] = {}
         /\ gone' \in [Streams -> SUBSET Bufs]
         /\ \A t \in Streams \ {s} : app'[t] = app[t] /\ gone'[t] = gone[t]
    BY <1>4, <1>7
  <1>12. /\ entries' \subseteq Streams /\ pipe' \in Seq({"SYNC", "ASYNC"})
         /\ \A t \in entries \ {s} : t \in entries'
    <2>1. /\ (entries' = entries \cup {s} \/ entries' = entries \ {s})
          /\ (pipe' = Append(pipe, "ASYNC") \/ pipe' = pipe)
      BY <1>3 DEF AddFd, DelFd
    <2>2. entries' \subseteq Streams /\ \A t \in entries \ {s} : t \in entries'
      BY <1>7, <2>1
    <2>3. pipe' \in Seq({"SYNC", "ASYNC"})
      <3>1. pipe \in Seq({"SYNC", "ASYNC"})
        BY <1>7
      <3>2. Append(pipe, "ASYNC") \in Seq({"SYNC", "ASYNC"})
        BY <3>1
      <3> QED
        BY <2>1, <3>1, <3>2
    <2> QED
      BY <2>2, <2>3
  <1>13. UNCHANGED <<env, refcnt, streaming, polled, status, poll, alive, nodes, disp,
                     halOpen, halQ, halExit, proc, chan, ret>>
    BY <1>4
  <1>14. TypeOK'
    <2>1. TypeOK
      BY <1>2
    <2>2. /\ state' \in [Streams -> States]
          /\ queued' \in [Streams -> 0..Cardinality(Bufs)]
          /\ driver' \in [Streams -> [empty : SUBSET Bufs, frames : Seq(Bufs)]]
          /\ app' \in [Streams -> SUBSET Bufs] /\ gone' \in [Streams -> SUBSET Bufs]
          /\ entries' \subseteq Streams /\ pipe' \in Seq({"SYNC", "ASYNC"})
      BY <1>8, <1>9, <1>10, <1>11, <1>12
    <2> QED
      BY <1>5, <1>13, <2>1, <2>2 DEF TypeOK
  <1>15. \A t \in Streams \ {s} : Untouched(t)
    BY <1>8, <1>9, <1>10, <1>11, <1>13 DEF Untouched
  <1>16. \A t \in Streams \ {s} : /\ StreamInv(t)'
                                  /\ Fresh(t) => Fresh(t)'
                                  /\ Still(t)' <=> Still(t)
    BY <1>15, OneStream
  <1>17. StreamInv(s)'
    <2>1. /\ \A w \in Returners : Idle(s, w)
          /\ Dead(s) /\ Lined(s) /\ s \notin streaming /\ s \notin alive
      BY <1>2, FreshCalls
    <2>2. Still(s)'
      BY <1>2, <1>10, <1>13, FreshCalls DEF Still, Idle, Returners
    <2>3. Dead(s)'
      <3>1. /\ \A b : Decs(s, b)' = Decs(s, b)
            /\ AtStep(s, "ioctl")' = 0 /\ AtStep(s, "queue")' = 0
        BY <1>13, <2>1 DEF Decs, AtStep, One, Idle, None, Returners
      <3> QED
        BY <1>6, <1>9, <1>11, <1>13, <2>1, <2>2, <3>1 DEF Dead
    <2>4. Lined(s)'
      BY <1>2, <1>8, <1>10, <1>13, <2>1, <2>2 DEF Lined, Idle, Still
    <2> QED
      BY <1>8, <1>13, <2>1, <2>3, <2>4 DEF StreamInv, Live
  <1>18. PollInv' /\ RetInv'
    BY <1>2, <1>5, <1>13 DEF PollInv, RetInv
  <1>19. Phase'
    <2>1. \A j \in 1..Count : /\ StartOrder[j] \in Streams
                              /\ StartOrder[j] = s => j = ctl.i
      BY <1>1, <1>2, OrdersFacts DEF Orders
    <2>2. \A j \in 1..Count :
            /\ j < ctl.i => state'[StartOrder[j]] = "ACTIVE"
            /\ j > ctl.i => Fresh(StartOrder[j])'
            /\ j = ctl.i => state'[StartOrder[j]] = "BUFFED"
            /\ ~ (j < 1)
      <3>1. ASSUME NEW j \in 1..Count, j # ctl.i
            PROVE  /\ state'[StartOrder[j]] = state[StartOrder[j]]
                   /\ Fresh(StartOrder[j]) => Fresh(StartOrder[j])'
        BY <1>8, <1>16, <2>1, <3>1
      <3>2. \A j \in 1..Count : (j < ctl.i \/ j > ctl.i => j # ctl.i) /\ ~ (j < 1)
        BY CtlFacts, <1>2
      <3> QED
        BY <1>1, <1>2, <1>8, <3>1, <3>2 DEF Phase
    <2>3. 1 <= ctl.i
      BY <1>2, CountFacts
    <2> QED
      BY <1>2, <1>5, <2>2, <2>3 DEF Phase, StopPhase
  <1>20. Kept' /\ Steady'
    <2>1. s \notin streaming
      BY <1>2, FreshCalls
    <2>2. Steady'
      BY <1>2, <1>13 DEF Steady
    <2>3. ASSUME env.stops \/ env.fails, NEW t \in streaming
          PROVE  /\ driver'[t].empty = {} => Still(t)'
                 /\ poll.stream = t => t \in entries'
      BY <1>2, <1>7, <1>10, <1>12, <1>16, <2>1, <2>3 DEF Kept
    <2>4. Kept'
      BY <1>5, <1>13, <2>3 DEF Kept
    <2> QED
      BY <2>2, <2>4
  <1> QED
    BY <1>14, <1>16, <1>17, <1>18, <1>19, <1>20 DEF IInv

LEMMA SameBooks ==
    ASSUME NEW s, UNCHANGED <<refcnt, queued, nodes, disp, halQ, app, chan, ret, poll, gone>>,
           driver'[s] = driver[s]
    PROVE  /\ Books(s) => Books(s)'
           /\ Whole(s) => Whole(s)'
           /\ Still(s)' <=> Still(s)
  <1>1. Still(s)' <=> Still(s)
    BY DEF Still, Idle
  <1>2. ASSUME NEW b
        PROVE  Unmoved(s, b) /\ (In(s, b)' <=> In(s, b))
    <2>1. /\ \A v \in Returners : /\ Holds(s, v, b)' <=> Holds(s, v, b)
                                  /\ Passes(s, v, b)' <=> Passes(s, v, b)
          /\ AtQueue(s, b)' <=> AtQueue(s, b)
          /\ \A at : PollAt(s, b, at)' <=> PollAt(s, b, at)
      BY DEF Holds, Passes, AtQueue, PollAt
    <2>2. Unmoved(s, b)
      BY <2>1 DEF Unmoved
    <2> QED
      BY <2>1, <2>2, UnmovedPlaces DEF In
  <1>3. Counted(s)' = Counted(s)
    BY <1>2 DEF Counted
  <1>4. \A b \in Bufs : Places(s, b) /\ Book(s, b) => Places(s, b)' /\ Book(s, b)'
    BY <1>2, UnmovedBook
  <1>5. Whole(s) => Whole(s)'
    BY <1>2, UnmovedPlaces DEF Whole
  <1> QED
    BY <1>1, <1>3, <1>4, <1>5 DEF Books

LEMMA StreamOnStep ==
    ASSUME IInv, StreamOn
    PROVE  IInv'
  <1>1. PICK s \in Streams : s = StartOrder[ctl.i]
    BY CtlFacts DEF IInv
  <1>2. /\ TypeOK /\ Phase /\ Kept /\ Steady /\ RetInv /\ PollInv /\ ctl.at = "on"
        /\ state[s] = "REG" /\ StreamInv(s) /\ Lined(s) /\ Books(s) /\ Whole(s) /\ Still(s)
        /\ ctl.i \in 1..Count /\ ~ ctl.undo /\ Count \in Nat
    <2>1. /\ TypeOK /\ Phase /\ Kept /\ Steady /\ RetInv /\ PollInv /\ ctl.at = "on"
          /\ ctl.i \in 1..Count /\ Count \in Nat /\ StreamInv(s)
      BY CtlFacts DEF IInv, StreamOn
    <2>2. state[s] = "REG" /\ ~ ctl.undo
      BY <1>1, <2>1 DEF Phase
    <2> QED
      BY <2>1, <2>2 DEF StreamInv, Live, Lined
  <1>3. /\ UNCHANGED <<env, refcnt, queued, driver, entries, polled, pipe, status, poll,
                       nodes, disp, halOpen, halQ, halExit, proc, app, chan, ret, gone>>
        /\ state' = [state EXCEPT ![s] = "ACTIVE"]
        /\ alive' = IF s \in HasCb THEN alive \cup {s} ELSE alive
        /\ streaming' = streaming \cup {s}
        /\ \/ ctl.i = Count /\ To("up", 1)
           \/ ctl.i < Count /\ To("reg", ctl.i + 1)
    BY <1>1, <1>2 DEF StreamOn, pollVars, halVars
  <1>4. UNCHANGED <<env, refcnt, queued, driver, entries, polled, pipe, status, poll,
                    nodes, disp, halOpen, halQ, halExit, proc, app, chan, ret, gone>>
    BY <1>3
  <1>5. /\ ctl'.top = ctl.top /\ ctl'.undo = ctl.undo
        /\ \/ ctl.i = Count /\ ctl'.at = "up" /\ ctl'.i = 1
           \/ ctl.i < Count /\ ctl'.at = "reg" /\ ctl'.i = ctl.i + 1
        /\ ctl' \in [at : {"down", "reg", "on", "onwait", "onfail", "up", "halstop",
                      "haljoin", "stop", "wait", "off", "join", "release"},
                i : 1..Count, top : 1..Count, undo : BOOLEAN]
    <2>1. ctl.i < Count => ctl.i + 1 \in 1..Count
      BY <1>2
    <2> QED
      BY <1>2, <1>3, <2>1, CtlTo, CountFacts
  <1>6. /\ state' \in [Streams -> States] /\ state'[s] = "ACTIVE"
        /\ \A t \in Streams \ {s} : state'[t] = state[t]
    <2>1. state \in [Streams -> States]
      BY <1>2 DEF TypeOK
    <2> QED
      BY <1>3, <2>1 DEF States
  <1>7. /\ alive' \subseteq HasCb /\ streaming' \subseteq Streams /\ streaming \subseteq Streams
        /\ s \in streaming' /\ (s \in HasCb => s \in alive')
        /\ \A t \in Streams \ {s} : (t \in streaming' <=> t \in streaming) /\ (t \in alive' <=> t \in alive)
    <2>1. alive \subseteq HasCb /\ streaming \subseteq Streams
      BY <1>2 DEF TypeOK
    <2> QED
      BY <1>3, <2>1
  <1>8. TypeOK'
    <2>1. TypeOK
      BY <1>2
    <2> QED
      BY <1>4, <1>5, <1>6, <1>7, <2>1 DEF TypeOK
  <1>9. \A t \in Streams \ {s} : Untouched(t)
    BY <1>4, <1>6, <1>7 DEF Untouched
  <1>10. \A t \in Streams \ {s} : /\ StreamInv(t)'
                                  /\ Fresh(t) => Fresh(t)'
                                  /\ Still(t)' <=> Still(t)
    BY <1>9, OneStream
  <1>11. Books(s)' /\ Whole(s)' /\ Still(s)'
    BY <1>2, <1>4, SameBooks
  <1>12. StreamInv(s)'
    <2>1. s \in alive' => s \in HasCb
      BY <1>7
    <2>2. Lined(s)'
      BY <1>2, <1>4, <1>6, <1>7 DEF Lined, Idle, Still
    <2> QED
      BY <1>6, <1>11, <2>2 DEF StreamInv, Live
  <1>13. PollInv' /\ RetInv'
    BY <1>2, <1>4 DEF PollInv, RetInv
  <1>14. Phase'
    <2>1. \A j \in 1..Count : /\ StartOrder[j] \in Streams
                              /\ StartOrder[j] = s => j = ctl.i
      BY <1>1, <1>2, OrdersFacts DEF Orders
    <2>2. \A j \in 1..Count :
            /\ j <= ctl.i => state'[StartOrder[j]] = "ACTIVE"
            /\ j > ctl.i => Fresh(StartOrder[j])'
      <3>1. ASSUME NEW j \in 1..Count, j # ctl.i
            PROVE  /\ state'[StartOrder[j]] = state[StartOrder[j]]
                   /\ Fresh(StartOrder[j]) => Fresh(StartOrder[j])'
        BY <1>6, <1>10, <2>1, <3>1
      <3>2. \A j \in 1..Count : /\ j > ctl.i => j # ctl.i
                                /\ j <= ctl.i => j = ctl.i \/ (j # ctl.i /\ j < ctl.i)
        BY <1>2
      <3> QED
        BY <1>1, <1>2, <1>6, <3>1, <3>2 DEF Phase
    <2>3. CASE ctl.i = Count /\ ctl'.at = "up" /\ ctl'.i = 1
      <3>1. \A j \in 1..Count : j <= ctl.i
        BY <1>2, <2>3
      <3>2. \A t \in Streams : state'[t] = "ACTIVE"
        BY <2>2, <3>1, OrdersFacts DEF Orders
      <3> QED
        BY <1>2, <1>5, <2>3, <3>2 DEF Phase, StopPhase
    <2>4. CASE ctl.i < Count /\ ctl'.at = "reg" /\ ctl'.i = ctl.i + 1
      <3>1. \A j \in 1..Count : /\ j < ctl'.i => j <= ctl.i
                                /\ j >= ctl'.i => j > ctl.i
                                /\ j > ctl'.i => j > ctl.i
                                /\ j = ctl'.i => j > ctl.i
        BY <1>2, <2>4
      <3> QED
        BY <1>2, <1>5, <2>2, <2>4, <3>1 DEF Phase, StopPhase
    <2> QED
      BY <1>5, <2>3, <2>4
  <1>15. Kept' /\ Steady'
    <2>1. Steady'
      BY <1>5 DEF Steady
    <2>2. ASSUME env.stops \/ env.fails, NEW t \in streaming'
          PROVE  /\ driver[t].empty = {} => Still(t)'
                 /\ poll.stream = t => t \in entries
      <3>1. CASE t = s
        BY <1>2, <1>11, <3>1 DEF Still
      <3>2. CASE t # s
        BY <1>2, <1>7, <1>10, <2>2, <3>2 DEF Kept
      <3> QED
        BY <3>1, <3>2
    <2>3. Kept'
      BY <1>4, <1>5, <2>2 DEF Kept
    <2> QED
      BY <2>1, <2>3
  <1> QED
    BY <1>8, <1>10, <1>12, <1>13, <1>14, <1>15 DEF IInv

LEMMA OffBooks ==
    ASSUME NEW s, UNCHANGED <<refcnt, queued, nodes, disp, halQ, app, chan, ret, poll, gone>>,
           driver'[s] = NoBufs, Books(s)
    PROVE  Books(s)'
  <1>1. driver'[s].empty = {} /\ Range(driver'[s].frames) = {} /\ Once(driver'[s].frames)
    BY EmptyFacts DEF NoBufs
  <1>2. ASSUME NEW b \in Bufs
        PROVE  Places(s, b)' /\ Book(s, b)' /\ (In(s, b)' <=> In(s, b))
    <2>1. Places(s, b) /\ Book(s, b)
      BY <1>2 DEF Books
    <2>2. /\ \A v \in Returners : /\ Holds(s, v, b)' <=> Holds(s, v, b)
                                  /\ Passes(s, v, b)' <=> Passes(s, v, b)
          /\ AtQueue(s, b)' <=> AtQueue(s, b)
          /\ \A at : PollAt(s, b, at)' <=> PollAt(s, b, at)
      BY DEF Holds, Passes, AtQueue, PollAt
    <2>3. /\ Holds(s, "chan", b)' <=> Holds(s, "chan", b)
          /\ Holds(s, "disp", b)' <=> Holds(s, "disp", b)
          /\ Holds(s, "proc", b)' <=> Holds(s, "proc", b)
          /\ Holds(s, "app", b)' <=> Holds(s, "app", b)
          /\ Passing(s, b)' <=> Passing(s, b)
      BY <2>2 DEF Returners, Passing
    <2>4. /\ C(s, b)' <=> C(s, b)
          /\ P(s, b)' <=> P(s, b)
          /\ A(s, b)' <=> A(s, b)
          /\ D(s, b)' => D(s, b)
          /\ Waiting(s, b)' <=> Waiting(s, b)
      BY <1>1, <2>2, <2>3 DEF C, P, A, D, Waiting
    <2>5. (Taken(s, b)' <=> Taken(s, b)) /\ T(s, b)' = T(s, b)
      BY <2>4 DEF Taken, T, One
    <2>6. Places(s, b)'
      BY <1>1, <2>1, <2>2, <2>3 DEF Places, Apart2, Apart3, Apart4, Apart5
    <2>7. Book(s, b)'
      BY <2>1, <2>4, <2>5 DEF Book
    <2> QED
      BY <2>2, <2>5, <2>6, <2>7 DEF In
  <1>3. Counted(s)' = Counted(s)
    BY <1>2 DEF Counted
  <1> QED
    BY <1>1, <1>2, <1>3 DEF Books

LEMMA StreamOffStep ==
    ASSUME IInv, StreamOff
    PROVE  IInv'
  <1>1. PICK s \in Streams : s = Stopping
    BY CtlFacts DEF IInv
  <1>2. /\ TypeOK /\ Phase /\ Kept /\ Steady /\ RetInv /\ PollInv /\ ctl.at = "off"
        /\ state[s] = "ACTIVE" /\ Lined(s) /\ Books(s) /\ ctl.i \in 1..Count
        /\ env.stops \/ env.fails
    <2>1. /\ TypeOK /\ Phase /\ Kept /\ Steady /\ RetInv /\ PollInv /\ ctl.at = "off"
          /\ ctl.i \in 1..Count /\ StreamInv(s)
      BY CtlFacts DEF IInv, StreamOff
    <2>2. state[s] = "ACTIVE"
      BY <1>1, <2>1 DEF Phase
    <2>3. env.stops \/ env.fails
      BY <2>1 DEF Steady
    <2> QED
      BY <2>1, <2>2, <2>3 DEF StreamInv, Live
  <1>3. /\ streaming' = streaming \ {s} /\ driver' = [driver EXCEPT ![s] = NoBufs]
        /\ To("join", ctl.i)
    BY <1>1 DEF StreamOff, NoBufs
  <1>4. UNCHANGED <<env, state, refcnt, queued, entries, polled, pipe, status, poll, alive,
                    nodes, disp, halOpen, halQ, halExit, proc, app, chan, ret, gone>>
    BY DEF StreamOff, libVars, pollVars, cbVars, halVars
  <1>5. /\ ctl'.at = "join" /\ ctl'.i = ctl.i /\ ctl'.top = ctl.top /\ ctl'.undo = ctl.undo
        /\ Stopping' = s
        /\ ctl' \in [at : {"down", "reg", "on", "onwait", "onfail", "up", "halstop",
                      "haljoin", "stop", "wait", "off", "join", "release"},
                i : 1..Count, top : 1..Count, undo : BOOLEAN]
    BY <1>1, <1>2, <1>3, CtlTo DEF Stopping
  <1>6. /\ driver' \in [Streams -> [empty : SUBSET Bufs, frames : Seq(Bufs)]]
        /\ driver'[s] = NoBufs /\ \A t \in Streams \ {s} : driver'[t] = driver[t]
        /\ streaming \subseteq Streams
    <2>1. /\ driver \in [Streams -> [empty : SUBSET Bufs, frames : Seq(Bufs)]]
          /\ streaming \subseteq Streams
      BY <1>2 DEF TypeOK
    <2>2. NoBufs \in [empty : SUBSET Bufs, frames : Seq(Bufs)]
      BY DEF NoBufs
    <2> QED
      BY <1>3, <2>1, <2>2
  <1>7. TypeOK'
    <2>1. TypeOK /\ streaming' \subseteq Streams
      BY <1>2, <1>3, <1>6
    <2> QED
      BY <1>4, <1>5, <1>6, <2>1 DEF TypeOK
  <1>8. \A t \in Streams \ {s} : Untouched(t)
    BY <1>3, <1>4, <1>6 DEF Untouched
  <1>9. \A t \in Streams \ {s} : /\ StreamInv(t)'
                                 /\ Fresh(t) => Fresh(t)'
                                 /\ Still(t)' <=> Still(t)
    BY <1>8, OneStream
  <1>10. poll.stream # s
    BY <1>1, <1>2 DEF Kept, Lined
  <1>11. StreamInv(s)'
    <2>1. Books(s)'
      BY <1>2, <1>4, <1>6, OffBooks
    <2>2. s \notin streaming' /\ driver'[s].frames = <<>>
      BY <1>3, <1>6 DEF NoBufs
    <2>3. Lined(s)'
      BY <1>2, <1>4, <1>10, <2>2 DEF Lined, Idle
    <2> QED
      BY <1>2, <1>4, <2>1, <2>2, <2>3 DEF StreamInv, Live
  <1>12. PollInv' /\ RetInv'
    BY <1>2, <1>4, <1>5 DEF PollInv, RetInv
  <1>13. Phase'
    <2>1. \A j \in 1..Count : StartOrder[j] \in Streams
      BY OrdersFacts DEF Orders
    <2>2. \A t \in Streams : Fresh(t) => Fresh(t)'
      BY <1>2, <1>9 DEF Fresh
    <2>3. AllGone => AllGone'
      BY <1>4 DEF AllGone
    <2>4. Stopping' \notin streaming'
      BY <1>3, <1>5
    <2> QED
      BY <1>1, <1>2, <1>4, <1>5, <2>1, <2>2, <2>3, <2>4 DEF Phase, StopPhase
  <1>14. Kept' /\ Steady'
    <2>1. Steady'
      BY <1>2, <1>4 DEF Steady
    <2>2. ASSUME NEW t \in streaming'
          PROVE  /\ driver'[t].empty = {} => Still(t)'
                 /\ poll.stream = t => t \in entries
      BY <1>2, <1>3, <1>6, <1>9 DEF Kept
    <2>3. Kept'
      BY <1>4, <1>5, <2>2 DEF Kept
    <2> QED
      BY <2>1, <2>3
  <1> QED
    BY <1>7, <1>9, <1>11, <1>12, <1>13, <1>14 DEF IInv

-----------------------------------------------------------------------------
(* The calls that are between the count and the driver when a stream gives up
   its buffers *)

LEMMA RemovedTwice ==
    ASSUME NEW K, IsFiniteSet(K), NEW c, NEW d, c # d
    PROVE  /\ c \in K /\ d \in K => 2 <= Cardinality(K)
           /\ c \in K => 1 <= Cardinality(K)
  <1>1. Cardinality(K) \in Nat
    BY FS_CardinalityType
  <1>2. ASSUME c \in K
        PROVE  IsFiniteSet(K \ {c}) /\ Cardinality(K \ {c}) = Cardinality(K) - 1
    BY <1>2, FS_RemoveElement
  <1>3. ASSUME c \in K, d \in K
        PROVE  Cardinality((K \ {c}) \ {d}) = Cardinality(K \ {c}) - 1
    <2>1. d \in K \ {c} /\ IsFiniteSet(K \ {c})
      BY <1>2, <1>3
    <2> QED
      BY <2>1, FS_RemoveElement
  <1>4. /\ c \in K => Cardinality(K \ {c}) \in Nat
        /\ c \in K => Cardinality((K \ {c}) \ {d}) \in Nat
    <2>1. ASSUME c \in K
          PROVE  IsFiniteSet(K \ {c}) /\ IsFiniteSet((K \ {c}) \ {d})
      <3>1. IsFiniteSet(K \ {c})
        BY <1>2, <2>1
      <3>2. (K \ {c}) \ {d} \subseteq K \ {c}
        OBVIOUS
      <3> QED
        BY <3>1, <3>2, FS_Subset
    <2> QED
      BY <2>1, FS_CardinalityType
  <1>5. ASSUME c \in K PROVE 1 <= Cardinality(K)
    BY <1>1, <1>2, <1>4, <1>5
  <1>6. ASSUME c \in K, d \in K PROVE 2 <= Cardinality(K)
    BY <1>1, <1>2, <1>3, <1>4, <1>6
  <1> QED
    BY <1>5, <1>6

LEMMA LeftOut ==
    ASSUME NEW K \in SUBSET Bufs, NEW c \in Bufs \ K, NEW d \in Bufs \ K, c # d
    PROVE  /\ Cardinality(K) + 2 <= Cardinality(Bufs)
           /\ Cardinality(K) + 1 <= Cardinality(Bufs)
  <1>1. IsFiniteSet(Bufs \ K)
    BY FS_Subset, BufsAssumption
  <1>2. 2 <= Cardinality(Bufs \ K)
    BY <1>1, RemovedTwice
  <1>3. Cardinality(Bufs \ K) = Cardinality(Bufs) - Cardinality(Bufs \cap K)
    BY BufsAssumption, FS_Difference
  <1>4. Bufs \cap K = K /\ IsFiniteSet(K)
    BY FS_Subset, BufsAssumption
  <1>5. Cardinality(K) \in Nat /\ Cardinality(Bufs) \in Nat
    BY <1>4, FS_CardinalityType, BufsAssumption
  <1> QED
    BY <1>2, <1>3, <1>4, <1>5

LEMMA LeftOutOne ==
    ASSUME NEW K \in SUBSET Bufs, NEW c \in Bufs \ K
    PROVE  Cardinality(K) + 1 <= Cardinality(Bufs)
  <1>1. IsFiniteSet(K) /\ IsFiniteSet(K \cup {c}) /\ K \cup {c} \subseteq Bufs
    BY FS_Subset, FS_AddElement, BufsAssumption
  <1>2. Cardinality(K \cup {c}) = Cardinality(K) + 1
    BY <1>1, FS_AddElement
  <1>3. Cardinality(K \cup {c}) <= Cardinality(Bufs)
    BY <1>1, FS_Subset, BufsAssumption
  <1> QED
    BY <1>2, <1>3

LEMMA OneIn ==
    ASSUME NEW K, IsFiniteSet(K), NEW c \in K
    PROVE  1 <= Cardinality(K)
  <1>1. Cardinality(K) \in Nat
    BY FS_CardinalityType
  <1>2. Cardinality(K) # 0
    BY FS_EmptySet
  <1> QED
    BY <1>1, <1>2

LEMMA CallsCounted ==
    ASSUME TypeOK, RetInv, NEW s \in Streams, Books(s)
    PROVE  /\ AtStep(s, "ioctl") <= queued[s]
           /\ queued[s] + AtStep(s, "queue") <= Cardinality(Bufs)
  <1> DEFINE K == Counted(s)
             step(w) == ret[s][w].step
             buf(w) == ret[s][w].buf
  <1>1. /\ K \in SUBSET Bufs /\ IsFiniteSet(K) /\ Cardinality(K) = queued[s]
        /\ Cardinality(K) \in Nat /\ Cardinality(Bufs) \in Nat
        /\ Cardinality(K) <= Cardinality(Bufs)
    <2>1. K \in SUBSET Bufs /\ Cardinality(K) = queued[s]
      BY DEF Counted, Books
    <2>2. IsFiniteSet(K) /\ Cardinality(K) <= Cardinality(Bufs)
      BY <2>1, FS_Subset, BufsAssumption
    <2> QED
      BY <2>1, <2>2, FS_CardinalityType, BufsAssumption
  <1>2. ASSUME NEW w \in {"chan", "proc"}, step(w) \in {"queue", "ioctl"}
        PROVE  buf(w) \in Bufs /\ Passes(s, w, buf(w)) /\ w \in Returners
    <2>1. w \in Returners
      BY DEF Returners
    <2>2. buf(w) \in Bufs \cup {None}
      BY <2>1 DEF TypeOK
    <2>3. buf(w) # None
      BY <1>2, <2>1 DEF RetInv, None
    <2> QED
      BY <1>2, <2>1, <2>2, <2>3 DEF Passes
  <1>3. ASSUME step("chan") \in {"queue", "ioctl"}, step("proc") \in {"queue", "ioctl"}
        PROVE  buf("chan") # buf("proc")
    BY <1>2, <1>3 DEF Books, Places
  <1>4. ASSUME NEW w \in {"chan", "proc"}, step(w) = "ioctl"
        PROVE  buf(w) \in K
    <2>1. PICK b \in Bufs : b = buf(w)
      BY <1>2, <1>4
    <2>2. Passes(s, w, b) /\ w \in Returners
      BY <1>2, <1>4, <2>1
    <2>3. D(s, b) /\ Passing(s, b)
      BY <2>2 DEF D, Passing
    <2>4. Places(s, b) /\ Book(s, b)
      BY DEF Books
    <2>5. ~ Taken(s, b) /\ b \notin gone[s]
      BY <2>3, <2>4 DEF Book
    <2>6. ~ PollAt(s, b, {"ref"})
      <3>1. ~ PollAt(s, b, {"count", "ref"})
        BY <2>3, <2>4 DEF Places, Apart2, Apart3, Apart4
      <3> QED
        BY <3>1 DEF PollAt
    <2>7. ~ AtQueue(s, b)
      <3>1. ASSUME NEW v \in Returners, ret[s][v].step = "queue", ret[s][v].buf = b
            PROVE  FALSE
        <4>1. Passes(s, v, b)
          BY <3>1 DEF Passes
        <4>2. v = w
          BY <2>2, <2>4, <4>1 DEF Places
        <4> QED
          BY <1>4, <3>1, <4>2
      <3> QED
        BY <3>1 DEF AtQueue
    <2> QED
      BY <2>1, <2>5, <2>6, <2>7 DEF In, Counted
  <1>5. ASSUME NEW w \in {"chan", "proc"}, step(w) = "queue"
        PROVE  buf(w) \in Bufs \ K
    <2>1. buf(w) \in Bufs /\ w \in Returners
      BY <1>2, <1>5
    <2>2. AtQueue(s, buf(w))
      BY <1>5, <2>1 DEF AtQueue
    <2> QED
      BY <2>1, <2>2 DEF In, Counted
  <1>6. /\ step("chan") = "ioctl" => 1 <= Cardinality(K)
        /\ step("proc") = "ioctl" => 1 <= Cardinality(K)
        /\ step("chan") = "ioctl" /\ step("proc") = "ioctl" => 2 <= Cardinality(K)
    BY <1>1, <1>3, <1>4, OneIn, RemovedTwice
  <1>7. /\ step("chan") = "queue" => Cardinality(K) + 1 <= Cardinality(Bufs)
        /\ step("proc") = "queue" => Cardinality(K) + 1 <= Cardinality(Bufs)
        /\ step("chan") = "queue" /\ step("proc") = "queue" =>
             Cardinality(K) + 2 <= Cardinality(Bufs)
    BY <1>1, <1>3, <1>5, LeftOut, LeftOutOne
  <1> HIDE DEF K
  <1>8. AtStep(s, "ioctl") <= Cardinality(K)
    BY <1>1, <1>6 DEF AtStep, One
  <1>9. Cardinality(K) + AtStep(s, "queue") <= Cardinality(Bufs)
    BY <1>1, <1>7 DEF AtStep, One
  <1> QED
    BY <1>1, <1>8, <1>9

-----------------------------------------------------------------------------
(* A stream gives up its buffers: the next one, or the channel's threads *)

LEMMA NextStopFacts ==
    ASSUME TypeOK, ctl.at \in StopPhase, ctl.i <= ctl.top, NextStop
    PROVE  /\ ctl'.top = ctl.top /\ ctl'.undo = ctl.undo
           /\ \/ ctl.i < ctl.top /\ ctl'.at = "stop" /\ ctl'.i = ctl.i + 1
              \/ ctl.i = ctl.top /\ ctl'.at = "release" /\ ctl'.i = 1
           /\ ctl' \in [at : {"down", "reg", "on", "onwait", "onfail", "up", "halstop",
                      "haljoin", "stop", "wait", "off", "join", "release"},
                i : 1..Count, top : 1..Count, undo : BOOLEAN]
  <1>1. ctl.i \in 1..Count /\ ctl.top \in 1..Count /\ Count \in Nat
    BY CtlFacts
  <1>2. \/ ctl.i < ctl.top /\ ctl.i + 1 \in 1..Count /\ To("stop", ctl.i + 1)
        \/ ctl.i = ctl.top /\ To("release", 1)
    BY <1>1 DEF NextStop
  <1> QED
    BY <1>2, CtlTo, CountFacts

LEMMA StopNext ==
    ASSUME IInv, NEW s \in Streams, s = Stopping, ctl.at \in {"stop", "join"}, NextStop,
           \A t \in Streams \ {s} : Untouched(t), StreamInv(s)',
           state' \in [Streams -> States], state'[s] = "BUFFED", ~ Fresh(s),
           refcnt' \in [Streams -> [Bufs -> 0..255]],
           driver' \in [Streams -> [empty : SUBSET Bufs, frames : Seq(Bufs)]],
           alive' \subseteq HasCb, s \notin streaming,
           UNCHANGED <<env, queued, streaming, entries, polled, pipe, status, poll, nodes,
                       disp, halOpen, halQ, halExit, proc, app, chan, ret, gone>>
    PROVE  IInv'
  <1>1. /\ TypeOK /\ Phase /\ Kept /\ Steady /\ RetInv /\ PollInv
        /\ ctl.i \in 1..Count /\ ctl.top \in 1..Count /\ ctl.undo \in BOOLEAN
        /\ Count \in Nat /\ ctl.i <= ctl.top /\ ctl.at \in StopPhase
        /\ streaming \subseteq Streams
    <2>1. /\ TypeOK /\ Phase /\ Kept /\ Steady /\ RetInv /\ PollInv
          /\ ctl.at \in StopPhase /\ streaming \subseteq Streams
      BY DEF IInv, StopPhase, TypeOK
    <2> QED
      BY <2>1, CtlFacts DEF Phase
  <1>2. /\ ctl'.top = ctl.top /\ ctl'.undo = ctl.undo
        /\ \/ ctl.i < ctl.top /\ ctl'.at = "stop" /\ ctl'.i = ctl.i + 1
           \/ ctl.i = ctl.top /\ ctl'.at = "release" /\ ctl'.i = 1
        /\ ctl' \in [at : {"down", "reg", "on", "onwait", "onfail", "up", "halstop",
                      "haljoin", "stop", "wait", "off", "join", "release"},
                i : 1..Count, top : 1..Count, undo : BOOLEAN]
    BY <1>1, NextStopFacts
  <1>3. TypeOK'
    BY <1>1, <1>2 DEF TypeOK
  <1>4. \A t \in Streams \ {s} : /\ StreamInv(t)' /\ (Still(t)' <=> Still(t))
                                 /\ Fresh(t) => Fresh(t)'
                                 /\ state'[t] = state[t] /\ driver'[t] = driver[t]
    BY OneStream DEF Untouched
  <1>5. PollInv' /\ RetInv'
    BY <1>1, <1>2 DEF PollInv, RetInv
  <1>6. \A j \in 1..Count : /\ StartOrder[j] \in Streams /\ StopOrder[j] \in Streams
                            /\ ctl.undo /\ StartOrder[j] = s => j = ctl.i
                            /\ ~ ctl.undo /\ StopOrder[j] = s => j = ctl.i
    BY <1>1, OrdersFacts DEF Orders, Stopping
  <1>7. ASSUME ~ ctl.undo
        PROVE  /\ ctl.top = Count /\ AllGone'
               /\ \A j \in 1..Count : state'[StopOrder[j]] = IF j <= ctl.i THEN "BUFFED" ELSE "ACTIVE"
    <2>1. ctl.top = Count /\ AllGone
      BY <1>1, <1>7 DEF Phase
    <2>2. ASSUME NEW j \in 1..Count, j # ctl.i
          PROVE  state'[StopOrder[j]] = IF j < ctl.i THEN "BUFFED" ELSE "ACTIVE"
      BY <1>1, <1>4, <1>6, <1>7, <2>2 DEF Phase
    <2>3. StopOrder[ctl.i] = s
      BY <1>7 DEF Stopping
    <2>4. \A j \in 1..Count : /\ j # ctl.i => (j < ctl.i <=> j <= ctl.i)
                              /\ j = ctl.i => j <= ctl.i
      BY <1>1
    <2>5. ASSUME NEW j \in 1..Count
          PROVE  state'[StopOrder[j]] = IF j <= ctl.i THEN "BUFFED" ELSE "ACTIVE"
      BY <2>2, <2>3, <2>4
    <2> QED
      BY <2>1, <2>5 DEF AllGone
  <1>8. ASSUME ctl.undo
        PROVE  \A j \in 1..Count :
                 /\ j <= ctl.i => state'[StartOrder[j]] = "BUFFED"
                 /\ ctl.i < j /\ j < ctl.top => state'[StartOrder[j]] = "ACTIVE"
                 /\ ctl.i < j /\ j = ctl.top => state'[StartOrder[j]] \in {"REG", "BUFFED"}
                 /\ j > ctl.top => Fresh(StartOrder[j])'
    <2>1. ASSUME NEW j \in 1..Count, j # ctl.i
          PROVE  /\ j < ctl.i => state'[StartOrder[j]] = "BUFFED"
                 /\ ctl.i <= j /\ j < ctl.top => state'[StartOrder[j]] = "ACTIVE"
                 /\ ctl.i <= j /\ j = ctl.top => state'[StartOrder[j]] \in {"REG", "BUFFED"}
                 /\ j > ctl.top => Fresh(StartOrder[j])'
      <3>1. /\ j < ctl.i => state[StartOrder[j]] = "BUFFED"
            /\ ctl.i <= j /\ j < ctl.top => state[StartOrder[j]] = "ACTIVE"
            /\ ctl.i <= j /\ j = ctl.top => state[StartOrder[j]] \in {"REG", "BUFFED"}
            /\ j > ctl.top => Fresh(StartOrder[j])
        BY <1>1, <1>8 DEF Phase
      <3>2. StartOrder[j] \in Streams \ {s}
        BY <1>6, <1>8, <2>1
      <3>3. /\ state'[StartOrder[j]] = state[StartOrder[j]]
            /\ Fresh(StartOrder[j]) => Fresh(StartOrder[j])'
        BY <1>4, <3>2
      <3> QED
        BY <3>1, <3>3
    <2>2. StartOrder[ctl.i] = s
      BY <1>8 DEF Stopping
    <2>3. \A j \in 1..Count : /\ j # ctl.i => (j <= ctl.i <=> j < ctl.i)
                              /\ ctl.i < j => ctl.i <= j /\ j # ctl.i
                              /\ j > ctl.top => j # ctl.i
      BY <1>1
    <2> QED
      BY <2>1, <2>2, <2>3
  <1>9. Phase'
    <2>1. CASE ctl.i < ctl.top /\ ctl'.at = "stop" /\ ctl'.i = ctl.i + 1
      <3>1. /\ ctl'.i <= ctl'.top
            /\ \A j \in 1..Count : /\ j < ctl'.i <=> j <= ctl.i
                                   /\ ctl'.i <= j <=> ctl.i < j
        BY <1>1, <1>2, <2>1
      <3>2. CASE ctl.undo
        BY <1>2, <1>8, <2>1, <3>1, <3>2 DEF Phase, StopPhase
      <3>3. CASE ~ ctl.undo
        BY <1>2, <1>7, <2>1, <3>1, <3>3 DEF Phase, StopPhase
      <3> QED
        BY <1>1, <3>2, <3>3
    <2>2. CASE ctl.i = ctl.top /\ ctl'.at = "release" /\ ctl'.i = 1
      <3>1. ASSUME NEW t \in Streams
            PROVE  state'[t] = "BUFFED" \/ Fresh(t)'
        <4>1. CASE ctl.undo
          <5>1. PICK j \in 1..Count : StartOrder[j] = t
            BY OrdersFacts DEF Orders
          <5>2. j <= ctl.i \/ j > ctl.top
            BY <1>1, <2>2
          <5> QED
            BY <1>8, <4>1, <5>1, <5>2
        <4>2. CASE ~ ctl.undo
          <5>1. PICK j \in 1..Count : StopOrder[j] = t
            BY OrdersFacts DEF Orders
          <5>2. j <= ctl.i
            BY <1>1, <1>7, <2>2, <4>2
          <5> QED
            BY <1>7, <4>2, <5>1, <5>2
        <4> QED
          BY <1>1, <4>1, <4>2
      <3> QED
        BY <1>2, <1>7, <2>2, <3>1 DEF Phase, StopPhase
    <2> QED
      BY <1>2, <2>1, <2>2
  <1>10. Kept' /\ Steady'
    <2>1. env.stops \/ env.fails
      BY <1>1 DEF Steady
    <2>2. ASSUME NEW t \in streaming
          PROVE  /\ driver'[t].empty = {} => Still(t)'
                 /\ poll.stream = t => t \in entries
      BY <1>1, <1>4, <2>1 DEF Kept
    <2>3. ctl'.at \in {"stop", "release"}
      BY <1>2
    <2> QED
      BY <2>1, <2>2, <2>3 DEF Kept, Steady
  <1> QED
    BY <1>3, <1>4, <1>5, <1>9, <1>10 DEF IInv

LEMMA UnregTypes ==
    ASSUME TypeOK, NEW s \in Streams, Unreg(s)
    PROVE  /\ state' \in [Streams -> States] /\ state'[s] = "BUFFED"
           /\ refcnt' \in [Streams -> [Bufs -> 0..255]]
           /\ \A b \in Bufs : refcnt'[s][b] = 0
           /\ driver' \in [Streams -> [empty : SUBSET Bufs, frames : Seq(Bufs)]]
           /\ driver'[s] = NoBufs
           /\ \A t \in Streams \ {s} : /\ state'[t] = state[t] /\ refcnt'[t] = refcnt[t]
                                       /\ driver'[t] = driver[t]
  <1>1. /\ state \in [Streams -> States] /\ refcnt \in [Streams -> [Bufs -> 0..255]]
        /\ driver \in [Streams -> [empty : SUBSET Bufs, frames : Seq(Bufs)]]
    BY DEF TypeOK
  <1>2. state' \in [Streams -> States] /\ state'[s] = "BUFFED"
    BY <1>1 DEF Unreg, States
  <1>3. refcnt' \in [Streams -> [Bufs -> 0..255]] /\ \A b \in Bufs : refcnt'[s][b] = 0
    BY <1>1 DEF Unreg
  <1>4. /\ driver' \in [Streams -> [empty : SUBSET Bufs, frames : Seq(Bufs)]]
        /\ driver'[s] = NoBufs
    <2>1. NoBufs \in [empty : SUBSET Bufs, frames : Seq(Bufs)]
      BY DEF NoBufs
    <2> QED
      BY <1>1, <2>1 DEF Unreg, NoBufs
  <1>5. \A t \in Streams \ {s} : /\ state'[t] = state[t] /\ refcnt'[t] = refcnt[t]
                                 /\ driver'[t] = driver[t]
    BY <1>1 DEF Unreg
  <1> QED
    BY <1>2, <1>3, <1>4, <1>5

LEMMA StopJoinStep ==
    ASSUME IInv, StopJoin
    PROVE  IInv'
  <1>1. PICK s \in Streams : s = Stopping
    BY CtlFacts DEF IInv
  <1>2. /\ TypeOK /\ RetInv /\ ctl.at = "join" /\ state[s] = "ACTIVE"
        /\ Books(s) /\ Lined(s) /\ s \notin streaming
    <2>1. TypeOK /\ RetInv /\ Phase /\ ctl.at = "join" /\ StreamInv(s)
      BY DEF IInv, StopJoin
    <2>2. state[s] = "ACTIVE" /\ s \notin streaming
      BY <1>1, <2>1 DEF Phase
    <2> QED
      BY <2>1, <2>2 DEF StreamInv, Live
  <1>3. /\ nodes[s] = <<>> /\ disp[s] = None /\ Idle(s, "disp")
        /\ alive' = alive \ {s} /\ Unreg(s) /\ NextStop
        /\ UNCHANGED <<env, queued, streaming, entries, polled, pipe, status, poll, nodes,
                       disp, halOpen, halQ, halExit, proc, app, chan, ret, gone>>
    BY <1>1 DEF StopJoin, pollVars, halVars
  <1>4. UNCHANGED <<env, queued, streaming, entries, polled, pipe, status, poll, nodes,
                    disp, halOpen, halQ, halExit, proc, app, chan, ret, gone>>
    BY <1>3
  <1>5. /\ state' \in [Streams -> States] /\ state'[s] = "BUFFED"
        /\ refcnt' \in [Streams -> [Bufs -> 0..255]]
        /\ \A b \in Bufs : refcnt'[s][b] = 0
        /\ driver' \in [Streams -> [empty : SUBSET Bufs, frames : Seq(Bufs)]]
        /\ driver'[s] = NoBufs
        /\ \A t \in Streams \ {s} : /\ state'[t] = state[t] /\ refcnt'[t] = refcnt[t]
                                    /\ driver'[t] = driver[t]
    BY <1>2, <1>3, UnregTypes
  <1>6. /\ alive' \subseteq HasCb /\ s \notin alive'
        /\ \A t \in Streams \ {s} : (t \in alive' <=> t \in alive)
    <2>1. alive \subseteq HasCb
      BY <1>2 DEF TypeOK
    <2> QED
      BY <1>3, <2>1
  <1>7. \A t \in Streams \ {s} : Untouched(t)
    BY <1>4, <1>5, <1>6 DEF Untouched
  <1>8. StreamInv(s)'
    <2>1. /\ AtStep(s, "ioctl") <= queued[s]
          /\ queued[s] + AtStep(s, "queue") <= Cardinality(Bufs)
      BY <1>2, CallsCounted
    <2>2. AtStep(s, "ioctl")' = AtStep(s, "ioctl") /\ AtStep(s, "queue")' = AtStep(s, "queue")
      BY <1>4 DEF AtStep
    <2>3. Dead(s)'
      <3>1. driver'[s].empty = {} /\ queued'[s] = queued[s]
        BY <1>4, <1>5 DEF NoBufs
      <3>2. \A b \in Bufs : refcnt'[s][b] = 0
        BY <1>5
      <3> QED
        BY <2>1, <2>2, <3>1, <3>2 DEF Dead
    <2>4. Lined(s)'
      <3>1. driver'[s].frames = <<>>
        BY <1>5 DEF NoBufs
      <3> QED
        BY <1>2, <1>3, <1>4, <1>5, <1>6, <3>1 DEF Lined, Idle
    <2> QED
      BY <1>2, <1>4, <1>5, <2>3, <2>4 DEF StreamInv, Live
  <1>9. ~ Fresh(s)
    BY <1>2 DEF Fresh
  <1> QED
    BY <1>1, <1>2, <1>3, <1>4, <1>5, <1>6, <1>7, <1>8, <1>9, StopNext

LEMMA StopInactiveStep ==
    ASSUME IInv, StopInactive
    PROVE  IInv'
  <1>1. PICK s \in Streams : s = Stopping
    BY CtlFacts DEF IInv
  <1>2. /\ TypeOK /\ RetInv /\ ctl.at = "stop" /\ state[s] \in {"REG", "BUFFED"}
        /\ StreamInv(s) /\ Lined(s) /\ s \notin streaming /\ s \notin alive
    <2>1. /\ TypeOK /\ RetInv /\ Phase /\ ctl.at = "stop" /\ StreamInv(s)
          /\ state[s] # "ACTIVE" /\ ctl.at \in StopPhase
      BY <1>1 DEF IInv, StopInactive, StopPhase
    <2>2. /\ ctl.i \in 1..Count /\ ctl.top \in 1..Count /\ Count \in Nat /\ ctl.i <= ctl.top
          /\ ctl.undo \in BOOLEAN
      BY <2>1, CtlFacts DEF Phase
    <2>3. ctl.undo
      <3>1. ~ (ctl.i < ctl.i)
        BY <2>2
      <3> QED
        BY <1>1, <2>1, <2>2, <3>1 DEF Phase, Stopping
    <2>4. /\ ctl.i <= ctl.i
          /\ ctl.i < ctl.top \/ ctl.i = ctl.top
      BY <2>2
    <2>5. state[s] \in {"REG", "BUFFED"}
      BY <1>1, <2>1, <2>2, <2>3, <2>4 DEF Phase, Stopping
    <2> QED
      BY <2>1, <2>5 DEF StreamInv, Lined
  <1>3. /\ (state[s] = "REG" => Unreg(s))
        /\ (state[s] # "REG" => UNCHANGED <<refcnt, state, driver>>)
        /\ NextStop
        /\ UNCHANGED <<env, queued, streaming, entries, polled, pipe, status, poll, nodes,
                       disp, halOpen, halQ, halExit, proc, app, chan, ret, gone, alive>>
    BY <1>1 DEF StopInactive, pollVars, halVars, cbVars
  <1>4. UNCHANGED <<env, queued, streaming, entries, polled, pipe, status, poll, nodes,
                    disp, halOpen, halQ, halExit, proc, app, chan, ret, gone, alive>>
    BY <1>3
  <1>5. alive' \subseteq HasCb /\ ~ Fresh(s)
    BY <1>2, <1>4 DEF TypeOK, Fresh
  <1>6. CASE state[s] = "REG"
    <2>1. /\ state' \in [Streams -> States] /\ state'[s] = "BUFFED"
          /\ refcnt' \in [Streams -> [Bufs -> 0..255]]
          /\ \A b \in Bufs : refcnt'[s][b] = 0
          /\ driver' \in [Streams -> [empty : SUBSET Bufs, frames : Seq(Bufs)]]
          /\ driver'[s] = NoBufs
          /\ \A t \in Streams \ {s} : /\ state'[t] = state[t] /\ refcnt'[t] = refcnt[t]
                                      /\ driver'[t] = driver[t]
      BY <1>2, <1>3, <1>6, UnregTypes
    <2>2. \A t \in Streams \ {s} : Untouched(t)
      BY <1>4, <2>1 DEF Untouched
    <2>3. Still(s)
      BY <1>2, <1>6 DEF Lined
    <2>4. Dead(s)'
      <3>1. AtStep(s, "ioctl")' = 0 /\ AtStep(s, "queue")' = 0
        BY <1>4, <2>3 DEF AtStep, One, Still, Idle, None
      <3>2. driver'[s].empty = {} /\ queued'[s] = queued[s]
        BY <1>4, <2>1 DEF NoBufs
      <3>3. queued[s] \in 0..Cardinality(Bufs) /\ Cardinality(Bufs) \in Nat
        BY <1>2, BufsAssumption, FS_CardinalityType DEF TypeOK
      <3>4. 0 <= queued[s] /\ queued[s] + 0 <= Cardinality(Bufs)
        BY <3>3
      <3> QED
        BY <2>1, <3>1, <3>2, <3>4 DEF Dead
    <2>5. Lined(s)'
      <3>1. driver'[s].frames = <<>>
        BY <2>1 DEF NoBufs
      <3> QED
        BY <1>2, <1>4, <2>1, <2>3, <3>1 DEF Lined, Idle, Still
    <2>6. StreamInv(s)'
      BY <1>2, <1>4, <2>1, <2>4, <2>5 DEF StreamInv, Live
    <2> QED
      BY <1>1, <1>2, <1>3, <1>4, <1>5, <2>1, <2>2, <2>6, StopNext
  <1>7. CASE state[s] = "BUFFED"
    <2>1. UNCHANGED <<refcnt, state, driver>>
      BY <1>3, <1>7
    <2>2. \A t \in Streams : Untouched(t)
      BY <1>4, <2>1 DEF Untouched
    <2>3. StreamInv(s)'
      BY <1>2, <2>2, UntouchedInv
    <2>4. /\ state' \in [Streams -> States] /\ state'[s] = "BUFFED"
          /\ refcnt' \in [Streams -> [Bufs -> 0..255]]
          /\ driver' \in [Streams -> [empty : SUBSET Bufs, frames : Seq(Bufs)]]
      BY <1>2, <1>7, <2>1 DEF TypeOK
    <2> QED
      BY <1>1, <1>2, <1>3, <1>4, <1>5, <2>2, <2>3, <2>4, StopNext
  <1> QED
    BY <1>2, <1>6, <1>7

LEMMA ReleaseStep ==
    ASSUME IInv, Release
    PROVE  IInv'
  <1>1. /\ TypeOK /\ Phase /\ Steady /\ RetInv /\ PollInv /\ ctl.at = "release"
        /\ ctl.undo \in BOOLEAN /\ (env.stops \/ env.fails)
        /\ \A s \in Streams : StreamInv(s)
    <2>1. TypeOK /\ Steady /\ ctl.at = "release"
      BY DEF IInv, Release
    <2>2. ctl.undo \in BOOLEAN /\ (env.stops \/ env.fails)
      BY <2>1, CtlFacts DEF Steady
    <2> QED
      BY <2>1, <2>2 DEF IInv
  <1>2. /\ \A s \in Streams : chan[s] = {} /\ Idle(s, "chan")
        /\ state' = [s \in Streams |-> "CFG"]
        /\ driver' = [s \in Streams |-> NoBufs]
        /\ (ctl.undo => To("halstop", 1))
        /\ (~ ctl.undo => To("down", 1))
    BY DEF Release, NoBufs
  <1>3. UNCHANGED <<env, refcnt, queued, streaming, entries, polled, pipe, status, poll, alive,
                    nodes, disp, halOpen, halQ, halExit, proc, app, chan, ret, gone>>
    BY DEF Release, pollVars, cbVars, halVars
  <1>4. /\ ctl'.i = 1 /\ ctl'.top = ctl.top /\ ctl'.undo = ctl.undo
        /\ ctl'.at = IF ctl.undo THEN "halstop" ELSE "down"
        /\ ctl' \in [at : {"down", "reg", "on", "onwait", "onfail", "up", "halstop",
                      "haljoin", "stop", "wait", "off", "join", "release"},
                i : 1..Count, top : 1..Count, undo : BOOLEAN]
    BY <1>1, <1>2, CtlTo, CountFacts
  <1>5. TypeOK'
    <2>1. /\ state' \in [Streams -> States]
          /\ driver' \in [Streams -> [empty : SUBSET Bufs, frames : Seq(Bufs)]]
      <3>1. NoBufs \in [empty : SUBSET Bufs, frames : Seq(Bufs)]
        BY DEF NoBufs
      <3> QED
        BY <1>2, <3>1 DEF States
    <2>2. TypeOK
      BY <1>1
    <2> QED
      BY <1>3, <1>4, <2>1, <2>2 DEF TypeOK
  <1>6. PollInv' /\ RetInv'
    BY <1>1, <1>3, <1>4 DEF PollInv, RetInv
  <1>7. ASSUME NEW s \in Streams
        PROVE  /\ StreamInv(s)' /\ s \notin streaming /\ Undone(s)'
               /\ proc[s] = "gone" => Fresh(s)'
    <2>1. state'[s] = "CFG" /\ driver'[s] = NoBufs /\ driver'[s].empty = {} /\ driver'[s].frames = <<>>
      BY <1>2 DEF NoBufs
    <2>2. state[s] \in {"BUFFED", "CFG"}
      BY <1>1 DEF Phase, Fresh
    <2>3. /\ Dead(s) /\ Lined(s) /\ s \notin streaming /\ s \notin alive
      BY <1>1, <2>2 DEF StreamInv, Live, Lined
    <2>4. Dead(s)'
      <3>1. /\ \A b : Decs(s, b)' = Decs(s, b)
            /\ \A step : AtStep(s, step)' = AtStep(s, step)
        BY <1>3 DEF Decs, AtStep
      <3> QED
        BY <1>3, <2>1, <2>3, <3>1 DEF Dead
    <2>5. Lined(s)'
      BY <1>3, <2>1, <2>2, <2>3 DEF Lined, Idle
    <2>6. StreamInv(s)'
      BY <1>3, <2>1, <2>3, <2>4, <2>5 DEF StreamInv, Live
    <2>7. Undone(s)'
      BY <1>2, <1>3, <2>1 DEF Undone, Idle
    <2>8. proc[s] = "gone" => Fresh(s)'
      BY <1>2, <1>3, <2>1, <2>3 DEF Fresh, Still, Lined, Idle
    <2> QED
      BY <2>3, <2>6, <2>7, <2>8
  <1>8. Phase'
    <2>1. CASE ctl.undo
      <3>1. ctl'.at = "halstop" /\ ctl'.undo
        BY <1>4, <2>1
      <3>2. \A j \in 1..ctl'.i - 1 : FALSE
        BY <1>4
      <3> QED
        BY <1>7, <3>1, <3>2 DEF Phase, StopPhase
    <2>2. CASE ~ ctl.undo
      <3>1. ctl'.at = "down" /\ ~ ctl'.undo
        BY <1>4, <2>2
      <3>2. AllGone /\ AllGone' /\ ctl'.top = Count
        BY <1>1, <1>3, <1>4, <2>2 DEF Phase, AllGone
      <3>3. \A t \in Streams : Fresh(t)'
        BY <1>7, <3>2 DEF AllGone
      <3> QED
        BY <3>1, <3>2, <3>3 DEF Phase, StopPhase
    <2> QED
      BY <1>1, <2>1, <2>2
  <1>9. Kept' /\ Steady'
    <2>1. streaming \subseteq Streams
      BY <1>1 DEF TypeOK
    <2>2. \A t \in streaming' : FALSE
      BY <1>3, <1>7, <2>1
    <2> QED
      BY <1>1, <1>3, <2>2 DEF Kept, Steady
  <1> QED
    BY <1>5, <1>6, <1>7, <1>8, <1>9 DEF IInv

LEMMA ControlStep ==
    ASSUME IInv, Control
    PROVE  IInv'
  BY HalStartStep, RegBufStep, RegBufFailsStep, StreamOnStep, StreamOnFailsStep,
     StreamOnUndoStep, HalStopStep, HalExitStep, HalJoinStep, StopDelStep, StopWaitStep,
     StreamOffStep, StopJoinStep, StopInactiveStep, ReleaseStep DEF Control

LEMMA StutterStep ==
    ASSUME IInv, UNCHANGED vars
    PROVE  IInv'
  <1>1. /\ UNCHANGED <<env, state, refcnt, queued, driver, streaming, entries, polled, pipe,
                       status, poll, alive, nodes, disp, halOpen, halQ, halExit, proc, app,
                       chan, ret, gone, ctl>>
        /\ TypeOK /\ Phase /\ Kept /\ Steady
    BY DEF IInv, vars, libVars, drvVars, pollVars, cbVars, halVars
  <1>2. \A t \in Streams : Untouched(t)
    BY <1>1 DEF Untouched
  <1>3. /\ PollInv' /\ RetInv' /\ \A t \in Streams : StreamInv(t)'
        /\ \A t \in Streams : Fresh(t) => Fresh(t)'
        /\ \A t \in Streams : Undone(t) => Undone(t)'
        /\ AllGone => AllGone'
        /\ \A t \in Streams : Still(t)' <=> Still(t)
    BY <1>1, <1>2, SameStreams
  <1>4. TypeOK'
    BY <1>1 DEF TypeOK
  <1>5. Stopping' = Stopping
    BY <1>1 DEF Stopping
  <1>6. Phase'
    <2>1. /\ \A j \in 1..Count : StartOrder[j] \in Streams /\ StopOrder[j] \in Streams
      BY OrdersFacts DEF Orders
    <2> QED
      BY <1>1, <1>3, <1>5, <2>1 DEF Phase
  <1>7. Kept' /\ Steady'
    <2>1. streaming \subseteq Streams
      BY <1>1 DEF TypeOK
    <2> QED
      BY <1>1, <1>3, <1>5, <2>1 DEF Kept, Steady
  <1> QED
    BY <1>3, <1>4, <1>6, <1>7 DEF IInv

LEMMA InitIInv ==
    ASSUME Init
    PROVE  IInv
  <1>1. Cardinality(Bufs) \in Nat /\ 0 \in 0..Cardinality(Bufs) /\ 0 \in 0..255
    BY BufsAssumption, FS_CardinalityType
  <1>2. TypeOK
    <2>1. /\ env \in Envs
          /\ state \in [Streams -> States]
          /\ refcnt \in [Streams -> [Bufs -> 0..255]]
          /\ queued \in [Streams -> 0..Cardinality(Bufs)]
          /\ driver \in [Streams -> [empty : SUBSET Bufs, frames : Seq(Bufs)]]
      BY <1>1 DEF Init, States
    <2>2. /\ streaming \subseteq Streams
          /\ entries \subseteq Streams /\ polled \subseteq Streams
          /\ pipe \in Seq({"SYNC", "ASYNC"}) /\ status \in BOOLEAN
          /\ poll \in [at : {"poll", "count", "ref", "chan", "node"},
                ready : SUBSET Streams, stream : Streams \cup {None},
                buf : Bufs \cup {None}]
          /\ alive \subseteq HasCb
      BY DEF Init
    <2>3. /\ nodes \in [Streams -> Seq(Bufs)] /\ halQ \in [Streams -> Seq(Bufs)]
          /\ disp \in [Streams -> Bufs \cup {None}]
          /\ halOpen \subseteq Streams /\ halExit \subseteq Streams
          /\ proc \in [Streams -> {"gone", "idle", "flush"}]
          /\ app \in [Streams -> SUBSET Bufs]
          /\ chan \in [Streams -> SUBSET Bufs]
          /\ gone \in [Streams -> SUBSET Bufs]
      BY DEF Init
    <2>4. ret \in [Streams -> [Returners -> [step : Steps \cup {None},
                                          buf : Bufs \cup {None}]]]
      BY DEF Init, NoReturn
    <2>5. ctl \in [at : {"down", "reg", "on", "onwait", "onfail", "up", "halstop",
                      "haljoin", "stop", "wait", "off", "join", "release"},
                i : 1..Count, top : 1..Count, undo : BOOLEAN]
      <3>1. Len(Slots) \in 1..Count /\ 1 \in 1..Count
        BY CountFacts DEF Count
      <3> QED
        BY <3>1 DEF Init
    <2> QED
      BY <2>1, <2>2, <2>3, <2>4, <2>5 DEF TypeOK
  <1>3. PollInv /\ RetInv
    BY DEF Init, PollInv, RetInv, NoReturn
  <1>4. ASSUME NEW s \in Streams
        PROVE  StreamInv(s) /\ Fresh(s)
    <2>1. /\ state[s] = "CFG" /\ driver[s] = NoBufs /\ NoBufs.empty = {} /\ NoBufs.frames = <<>>
          /\ chan[s] = {} /\ halQ[s] = <<>> /\ nodes[s] = <<>> /\ disp[s] = None
          /\ poll.stream = None /\ s \notin streaming /\ s \notin alive
          /\ s \notin halOpen /\ proc[s] = "gone" /\ queued[s] = 0
          /\ \A b \in Bufs : refcnt[s][b] = 0
      BY DEF Init, NoBufs
    <2>2. \A w \in Returners : Idle(s, w) /\ ret[s][w].step = None
      BY DEF Init, Idle, NoReturn
    <2>3. Still(s)
      BY <2>1, <2>2, BufsAssumption DEF Still, Returners
    <2>4. Dead(s)
      <3>1. AtStep(s, "ioctl") = 0 /\ AtStep(s, "queue") = 0
        BY <2>2 DEF AtStep, One, Returners, None
      <3>2. 0 <= queued[s] /\ queued[s] + 0 <= Cardinality(Bufs)
        BY <1>1, <2>1
      <3> QED
        BY <2>1, <3>1, <3>2 DEF Dead
    <2>5. Lined(s)
      BY <2>1, <2>2, <2>3 DEF Lined, Returners, Still
    <2> QED
      BY <2>1, <2>3, <2>4, <2>5 DEF StreamInv, Live, Fresh
  <1>5. ctl.at = "down" /\ ~ ctl.undo /\ ctl.top = Count /\ streaming = {}
    BY DEF Init, Count
  <1>6. Phase
    BY <1>4, <1>5 DEF Phase, StopPhase, AllGone, Init
  <1>7. Kept /\ Steady
    BY <1>5 DEF Kept, Steady
  <1> QED
    BY <1>2, <1>3, <1>4, <1>6, <1>7 DEF IInv

LEMMA Inductive ==
    ASSUME Reserved, IInv, [Next]_vars
    PROVE  IInv'
  <1>1. CASE Control
    BY <1>1, ControlStep
  <1>2. CASE \/ Poll \/ ChannelThread
             \/ \E s \in Streams : \/ Fill(s) \/ CallbackThread(s) \/ HalThread(s)
                                   \/ AppReturns(s) \/ Return(s, "app")
    BY <1>2, WorkStep, WorkedIInv
  <1>3. CASE UNCHANGED vars
    BY <1>3, StutterStep
  <1> QED
    BY <1>1, <1>2, <1>3 DEF Next

LEMMA Always ==
    ASSUME Reserved
    PROVE  Spec => []IInv
  <1>1. IInv /\ [Next]_vars => IInv'
    BY Inductive
  <1> QED
    BY <1>1, InitIInv, PTL DEF Spec

-----------------------------------------------------------------------------
(* What it means for the driver, the HAL and the application *)

LEMMA HeldFacts ==
    ASSUME TypeOK, PollInv, RetInv, NEW s \in Streams, NEW b \in Bufs
    PROVE  /\ b \in Held(s) <=> Taken(s, b) \/ PollAt(s, b, {"count", "ref"})
           /\ b \in Returning(s, {"queue", "ioctl"}) <=> Passing(s, b)
           /\ b \in DriverHas(s) <=> b \in driver[s].empty \/ b \in Range(driver[s].frames)
  <1>1. /\ b \in Returning(s, {"check", "dec"}) <=> \E w \in Returners : Holds(s, w, b)
        /\ b \in Returning(s, {"queue", "ioctl"}) <=> Passing(s, b)
    BY DEF Returning, Holds, Passes, Passing
  <1>2. b \in {disp[s]} \ {None} <=> disp[s] = b
    BY BufsAssumption
  <1>3. b \in Reading(s) <=> \/ PollAt(s, b, {"count", "ref"})
                             \/ PollAt(s, b, {"chan"})
                             \/ s \in HasCb /\ PollAt(s, b, {"chan", "node"})
    <2>1. s # None /\ b # None
      BY BufsAssumption
    <2>2. b \in Reading(s) <=> /\ poll.stream = s /\ poll.buf = b
                               /\ (poll.at = "node" => s \in HasCb)
      BY DEF Reading
    <2>3. ASSUME poll.stream = s
          PROVE  poll.at \in {"count", "ref", "chan", "node"}
      BY <2>1, <2>3 DEF PollInv, TypeOK
    <2> QED
      BY <2>1, <2>2, <2>3 DEF PollAt
  <1>4. (\E w \in Returners : Holds(s, w, b)) <=>
          \/ Holds(s, "chan", b) \/ Holds(s, "disp", b)
          \/ Holds(s, "proc", b) \/ Holds(s, "app", b)
    BY DEF Returners
  <1>5. b \in Held(s) <=> \/ b \in chan[s] \/ b \in Range(nodes[s])
                          \/ b \in {disp[s]} \ {None} \/ b \in Range(halQ[s])
                          \/ b \in app[s] \/ b \in Reading(s)
                          \/ b \in Returning(s, {"check", "dec"})
    BY DEF Held
  <1>6. b \in Held(s) <=> Taken(s, b) \/ PollAt(s, b, {"count", "ref"})
    BY <1>1, <1>2, <1>3, <1>4, <1>5 DEF Taken, C, P, A
  <1>7. b \in DriverHas(s) <=> b \in driver[s].empty \/ b \in Range(driver[s].frames)
    BY DEF DriverHas
  <1> QED
    BY <1>1, <1>6, <1>7

LEMMA RangeOf ==
    ASSUME NEW S, NEW q \in Seq(S)
    PROVE  Range(q) \subseteq S
  <1>1. DOMAIN q = 1..Len(q) /\ \A i \in 1..Len(q) : q[i] \in S
    BY ElementOfSeq, LenProperties
  <1> QED
    BY <1>1 DEF Range

LEMMA StreamTypes ==
    ASSUME TypeOK, RetInv, PollInv, NEW s \in Streams
    PROVE  /\ DriverHas(s) \subseteq Bufs /\ Held(s) \subseteq Bufs /\ gone[s] \subseteq Bufs
           /\ \A steps : None \notin steps => Returning(s, steps) \subseteq Bufs
           /\ Reading(s) \subseteq Bufs
  <1>1. DriverHas(s) \subseteq Bufs
    <2>1. driver[s].empty \in SUBSET Bufs /\ driver[s].frames \in Seq(Bufs)
      BY DEF TypeOK
    <2> QED
      BY <2>1, RangeOf DEF DriverHas
  <1>2. ASSUME NEW steps, None \notin steps
        PROVE  Returning(s, steps) \subseteq Bufs
    <2>1. ASSUME NEW w \in Returners, ret[s][w].step \in steps
          PROVE  ret[s][w].buf \in Bufs
      <3>1. ret[s][w].step # None
        BY <1>2, <2>1
      <3>2. ret[s][w].buf # None
        BY <3>1 DEF RetInv
      <3>3. ret[s][w].buf \in Bufs \cup {None}
        BY DEF TypeOK
      <3> QED
        BY <3>2, <3>3
    <2> QED
      BY <2>1 DEF Returning
  <1>3. Reading(s) \subseteq Bufs
    <2>1. poll.buf \in Bufs \cup {None}
      BY DEF TypeOK
    <2>2. poll.stream = s => poll.buf # None
      BY BufsAssumption DEF PollInv
    <2> QED
      BY <2>1, <2>2 DEF Reading
  <1>4. /\ chan[s] \subseteq Bufs /\ app[s] \subseteq Bufs /\ gone[s] \subseteq Bufs
        /\ {disp[s]} \ {None} \subseteq Bufs
        /\ nodes[s] \in Seq(Bufs) /\ halQ[s] \in Seq(Bufs)
    BY DEF TypeOK
  <1>5. Range(nodes[s]) \subseteq Bufs /\ Range(halQ[s]) \subseteq Bufs
    BY <1>4, RangeOf
  <1>6. Returning(s, {"check", "dec"}) \subseteq Bufs
    BY <1>2 DEF None
  <1>7. Held(s) \subseteq Bufs
    BY <1>3, <1>4, <1>5, <1>6 DEF Held
  <1> QED
    BY <1>1, <1>2, <1>3, <1>4, <1>7

LEMMA ApartFromDriver ==
    ASSUME IInv
    PROVE  NotWrittenWhileHeld
  <1>1. ASSUME NEW s \in Streams, NEW b \in DriverHas(s)
        PROVE  b \notin Held(s)
    <2>1. TypeOK /\ PollInv /\ RetInv /\ Phase /\ StreamInv(s)
      BY DEF IInv
    <2>2. b \in Bufs
      BY <2>1, StreamTypes
    <2>3. b \in driver[s].empty \/ b \in Range(driver[s].frames)
      BY <2>1, <2>2, HeldFacts
    <2>4. CASE Live(s)
      <3>1. Places(s, b) /\ Book(s, b)
        BY <2>1, <2>2, <2>4 DEF StreamInv, Books
      <3>2. ~ Taken(s, b) /\ ~ PollAt(s, b, {"count", "ref"})
        BY <2>3, <3>1 DEF Places, Book, D, Apart2, Apart3, Apart4
      <3> QED
        BY <2>1, <2>2, <3>2, HeldFacts
    <2>5. CASE ~ Live(s)
      <3>1. Dead(s) /\ Lined(s) /\ s \notin streaming /\ driver[s].frames = <<>>
        BY <2>1, <2>5 DEF StreamInv, Lined, Live
      <3>2. Still(s) /\ app[s] = {}
        BY <2>3, <3>1, EmptyFacts DEF Dead
      <3>3. Idle(s, "app")
        BY <2>1, <2>5 DEF RetInv, Phase, Live, Idle, Returners
      <3>4. \A w \in Returners : ~ Holds(s, w, b)
        BY <3>2, <3>3 DEF Still, Holds, Idle, Returners, None
      <3>5. /\ ~ Holds(s, "chan", b) /\ ~ Holds(s, "disp", b)
            /\ ~ Holds(s, "proc", b) /\ ~ Holds(s, "app", b)
        BY <3>4 DEF Returners
      <3>6. \A at : ~ PollAt(s, b, at)
        BY <3>2 DEF Still, PollAt
      <3>7. /\ b \notin chan[s] /\ b \notin Range(nodes[s]) /\ disp[s] # b
            /\ b \notin Range(halQ[s])
        BY <2>2, <3>2, EmptyFacts, BufsAssumption DEF Still
      <3>8. ~ Taken(s, b)
        BY <3>2, <3>5, <3>6, <3>7 DEF Taken, C, P, A
      <3> QED
        BY <2>1, <2>2, <3>6, <3>8, HeldFacts
    <2> QED
      BY <2>4, <2>5
  <1> QED
    BY <1>1 DEF NotWrittenWhileHeld

LEMMA AllAccounted ==
    ASSUME IInv
    PROVE  NoneLost
  <1>1. ASSUME NEW s \in streaming
        PROVE  DriverHas(s) \cup Held(s) \cup Returning(s, {"queue", "ioctl"})
                 \cup gone[s] = Bufs
    <2>1. TypeOK /\ PollInv /\ RetInv /\ s \in Streams
      BY DEF IInv, TypeOK
    <2>2. Whole(s)
      BY <2>1 DEF IInv, StreamInv
    <2>3. Returning(s, {"queue", "ioctl"}) \subseteq Bufs
      <3>1. None \notin {"queue", "ioctl"}
        BY DEF None
      <3> QED
        BY <2>1, <3>1, StreamTypes
    <2>4. ASSUME NEW b \in Bufs
          PROVE  \/ b \in DriverHas(s) \/ b \in Held(s)
                 \/ b \in Returning(s, {"queue", "ioctl"}) \/ b \in gone[s]
      BY <2>1, <2>2, HeldFacts DEF Whole, D
    <2> QED
      BY <2>1, <2>3, <2>4, StreamTypes
  <1> QED
    BY <1>1 DEF NoneLost

LEMMA CountIsRight ==
    ASSUME IInv
    PROVE  KernelCount
  <1>1. ASSUME NEW s \in streaming
        PROVE  queued[s] = Cardinality(DriverHas(s))
                           + Cardinality(Returning(s, {"ioctl"}))
                           + (IF poll.at = "count" THEN Cardinality(Reading(s)) ELSE 0)
    <2>1. TypeOK /\ PollInv /\ RetInv /\ s \in Streams /\ StreamInv(s)
      BY DEF IInv, TypeOK
    <2>2. Whole(s) /\ Books(s)
      BY <2>1 DEF StreamInv, Lined, Live
    <2> DEFINE X == DriverHas(s)
               Y == Returning(s, {"ioctl"})
               Z == IF poll.at = "count" THEN Reading(s) ELSE {}
    <2>3. X \subseteq Bufs /\ Y \subseteq Bufs /\ Z \subseteq Bufs
      <3>1. None \notin {"ioctl"}
        BY DEF None
      <3> QED
        BY <2>1, <3>1, StreamTypes
    <2>4. ASSUME NEW b \in Bufs
          PROVE  /\ In(s, b) <=> b \in X \/ b \in Y \/ b \in Z
                 /\ ~ (b \in X /\ b \in Y) /\ ~ (b \in X /\ b \in Z) /\ ~ (b \in Y /\ b \in Z)
      <3>1. /\ b \in X <=> b \in driver[s].empty \/ b \in Range(driver[s].frames)
            /\ b \in Y <=> \E w \in Returners : ret[s][w].step = "ioctl" /\ ret[s][w].buf = b
        BY <2>1, HeldFacts DEF Returning
      <3>2. b \in Z <=> PollAt(s, b, {"count"})
        BY DEF Reading, PollAt
      <3>3. Passing(s, b) <=> AtQueue(s, b) \/ b \in Y
        BY <3>1 DEF Passing, Passes, AtQueue
      <3>4. PollAt(s, b, {"count", "ref"}) <=> PollAt(s, b, {"count"}) \/ PollAt(s, b, {"ref"})
        BY DEF PollAt
      <3>5. ~ (PollAt(s, b, {"count"}) /\ PollAt(s, b, {"ref"}))
        BY DEF PollAt
      <3>6. ~ (AtQueue(s, b) /\ b \in Y)
        <4>1. ASSUME NEW v \in Returners, ret[s][v].step = "queue", ret[s][v].buf = b,
                     NEW w \in Returners, ret[s][w].step = "ioctl", ret[s][w].buf = b
              PROVE  FALSE
          <5>1. Passes(s, v, b) /\ Passes(s, w, b)
            BY <4>1 DEF Passes
          <5>2. v = w
            BY <2>2, <5>1 DEF Books, Places
          <5> QED
            BY <4>1, <5>2
        <4> QED
          BY <3>1, <4>1 DEF AtQueue
      <3>7. /\ Apart4(b \in driver[s].empty, b \in Range(driver[s].frames),
                      Passing(s, b), PollAt(s, b, {"count", "ref"}))
            /\ D(s, b) => ~ Taken(s, b) /\ b \notin gone[s]
            /\ D(s, b) \/ Taken(s, b) \/ b \in gone[s]
        BY <2>2 DEF Books, Places, Book, Whole
      <3> HIDE DEF X, Y, Z
      <3> QED
        BY <3>1, <3>2, <3>3, <3>4, <3>5, <3>6, <3>7 DEF In, D, Apart2, Apart3, Apart4
    <2>5. Counted(s) = (X \cup Y) \cup Z
      BY <2>3, <2>4 DEF Counted
    <2>6. X \cap Y = {} /\ (X \cup Y) \cap Z = {}
      BY <2>3, <2>4
    <2> HIDE DEF X, Y, Z
    <2>7. /\ IsFiniteSet(X) /\ IsFiniteSet(Y) /\ IsFiniteSet(Z) /\ IsFiniteSet(X \cup Y)
      <3>1. X \cup Y \subseteq Bufs
        BY <2>3
      <3> QED
        BY <2>3, <3>1, FS_Subset, BufsAssumption
    <2>8. Cardinality(X \cup Y) = Cardinality(X) + Cardinality(Y)
      <3>1. Cardinality(X \cup Y) = Cardinality(X) + Cardinality(Y) - Cardinality(X \cap Y)
        BY <2>7, FS_Union
      <3>2. Cardinality(X) \in Nat /\ Cardinality(Y) \in Nat
        BY <2>7, FS_CardinalityType
      <3>3. Cardinality(X \cap Y) = 0
        BY <2>6, FS_EmptySet
      <3> QED
        BY <3>1, <3>2, <3>3
    <2>9. Cardinality((X \cup Y) \cup Z) = Cardinality(X \cup Y) + Cardinality(Z)
      <3>1. Cardinality((X \cup Y) \cup Z)
              = Cardinality(X \cup Y) + Cardinality(Z) - Cardinality((X \cup Y) \cap Z)
        BY <2>7, FS_Union
      <3>2. Cardinality(X \cup Y) \in Nat /\ Cardinality(Z) \in Nat
        BY <2>7, FS_CardinalityType
      <3>3. Cardinality((X \cup Y) \cap Z) = 0
        BY <2>6, FS_EmptySet
      <3> QED
        BY <3>1, <3>2, <3>3
    <2>10. Cardinality(Z) = IF poll.at = "count" THEN Cardinality(Reading(s)) ELSE 0
      BY FS_EmptySet DEF Z
    <2>11. queued[s] = Cardinality(X) + Cardinality(Y) + Cardinality(Z)
      BY <2>2, <2>5, <2>8, <2>9 DEF Books
    <2> QED
      BY <2>10, <2>11 DEF X, Y
  <1> QED
    BY <1>1 DEF KernelCount

LEMMA QuietAfterStop ==
    ASSUME IInv
    PROVE  StoppedIsQuiet
  BY DEF IInv, StreamInv, Lined, StoppedIsQuiet

-----------------------------------------------------------------------------
(* The theorems *)

(***************************************************************************)
(* queued_buffer_count stays between zero and the number of buffers        *)
(* through every interleaving of mm_stream_qbuf, mm_stream_read_msm_frame  *)
(* and a start or stop, failed VIDIOC_QBUFs among them.                    *)
(***************************************************************************)
THEOREM StreamsTyped ==
    ASSUME Reserved
    PROVE  Spec => []TypeOK
  <1>1. IInv => TypeOK
    BY DEF IInv
  <1> QED
    BY <1>1, Always, PTL

(***************************************************************************)
(* The hardware never has a buffer that the channel, the callback thread,  *)
(* the display, the encoder or the application still reads: buf_refcnt,    *)
(* incremented by two threads and decremented by four, reaches zero only   *)
(* with the last of them.                                                  *)
(***************************************************************************)
THEOREM HeldBuffersAreSafe ==
    ASSUME Reserved
    PROVE  Spec => []NotWrittenWhileHeld
  BY ApartFromDriver, Always, PTL

(***************************************************************************)
(* While a stream runs, each buffer is with the driver, with a holder, in  *)
(* a call that returns it, or was lost in one of the two known ways.       *)
(***************************************************************************)
THEOREM BuffersAreAccounted ==
    ASSUME Reserved
    PROVE  Spec => []NoneLost
  BY AllAccounted, Always, PTL

(***************************************************************************)
(* queued_buffer_count, kept under its lock but apart from the ioctls, is  *)
(* the number of buffers the driver has, with those on the way to it and   *)
(* from it: the poll set depends on it.                                    *)
(***************************************************************************)
THEOREM CountMatchesDriver ==
    ASSUME Reserved
    PROVE  Spec => []KernelCount
  BY CountIsRight, Always, PTL

(***************************************************************************)
(* When STOP has returned, the poll thread is not in the middle of a frame *)
(* of the stream, as mm_camera_stream.c promises.                          *)
(***************************************************************************)
THEOREM StopIsQuiet ==
    ASSUME Reserved
    PROVE  Spec => []StoppedIsQuiet
  BY QuietAfterStop, Always, PTL
=============================================================================
