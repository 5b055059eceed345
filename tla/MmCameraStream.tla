--------------------------- MODULE MmCameraStream ---------------------------
(***************************************************************************)
(* The buffers of the streams of one channel, from the driver to the HAL   *)
(* and back: mm_camera_stream.c (the stream object), mm_camera_thread.c    *)
(* (the thread that polls the streams' file descriptors and the thread     *)
(* that calls the HAL), and QCameraStream.cpp with its QCameraQueue (the   *)
(* HAL's own thread for the frames of a stream).                           *)
(*                                                                         *)
(* A frame is read by the poll thread and given to the channel, if the     *)
(* stream is bundled, and to the HAL, if it registered a callback.  A      *)
(* counter per buffer says how many of them still have it; whoever takes   *)
(* the counter to zero gives the buffer back to the driver.  The poll      *)
(* thread watches a stream only while the driver has a buffer of it.       *)
(***************************************************************************)
EXTENDS Integers, FiniteSets, Sequences, SequencesExt

CONSTANTS
    Streams,     \* the streams of the channel
    Bufs,        \* the buffers of a stream
    Slots,       \* the streams in the order of their slots in the channel
    Meta,        \* its metadata stream, if it has one
    HasCb,       \* the streams with an asynchronous callback of the HAL
    Bundled,     \* the streams whose frames the channel matches
    InitReg,     \* the buffers a stream gives to the driver when it starts
    Envs,        \* what the environment does: see env
    MaxPipe      \* commands that may still be in the pipe at a start

None == "none"

ASSUME BufsAssumption ==
    IsFiniteSet(Bufs) /\ None \notin Bufs /\ None \notin Streams
ASSUME SlotsAssumption ==
    /\ Slots \in Seq(Streams) /\ Slots # <<>>
    /\ Range(Slots) = Streams
    /\ \A i, j \in DOMAIN Slots : Slots[i] = Slots[j] => i = j
ASSUME SinkAssumption == HasCb \cup Bundled = Streams
ASSUME InitRegAssumption == InitReg \in [Streams -> SUBSET Bufs]
ASSUME EnvAssumption == Envs \subseteq [reserve : [Streams -> Nat], stops : BOOLEAN, fails : BOOLEAN]

VARIABLES
    env,         \* how many buffers of each stream the driver never parts with;
                 \* does the HAL stop the channel; does the driver fail?
    state,       \* the state of each stream object
    refcnt,      \* buf_status[].buf_refcnt
    queued,      \* queued_buffer_count
    driver,      \* the driver's buffers: empty ones, and frames in order
    streaming,   \* between VIDIOC_STREAMON and VIDIOC_STREAMOFF
    entries,     \* the streams in poll_entries
    polled,      \* the streams in poll_fds: what poll() watches
    pipe,        \* the commands to the poll thread
    status,      \* the last synchronous command has been answered
    poll,        \* the poll thread
    alive,       \* the streams whose callback thread runs
    nodes,       \* its queue
    disp,        \* the buffer it works on
    halOpen,     \* the streams whose mDataQ takes frames
    halQ,        \* mDataQ
    halExit,     \* the streams whose HAL thread was told to exit
    proc,        \* the HAL thread of each stream: gone, idle or at work
    app,         \* the buffers the application or the display has
    chan,        \* the buffers the channel's matching queue has
    ret,         \* the calls of mm_stream_buf_done under way
    gone,        \* the buffers that will not come back before a restart
    ctl          \* the thread that starts and stops the channel

libVars == <<state, refcnt, queued>>
drvVars == <<driver, streaming>>
pollVars == <<entries, polled, pipe, status, poll>>
cbVars == <<alive, nodes, disp>>
halVars == <<halOpen, halQ, halExit, proc, app>>
vars == <<env, libVars, drvVars, pollVars, cbVars, halVars, chan, ret, gone, ctl>>

States == {"CFG", "BUFFED", "REG", "ACTIVE"}

(* Who may call mm_stream_buf_done: the channel's thread, the callback
   thread, the HAL's thread of the stream, and the HAL's state machine for
   the application. *)
Returners == {"chan", "disp", "proc", "app"}
Steps == {"check", "dec", "queue", "ioctl"}
NoReturn == [step |-> None, buf |-> None]

DriverHas(s) == driver[s].empty \cup Range(driver[s].frames)
Idle(s, who) == ret[s][who].step = None

Init ==
    /\ env \in Envs
    /\ state = [s \in Streams |-> "CFG"]
    /\ refcnt = [s \in Streams |-> [b \in Bufs |-> 0]]
    /\ queued = [s \in Streams |-> 0]
    /\ driver = [s \in Streams |-> [empty |-> {}, frames |-> <<>>]]
    /\ streaming = {}
    /\ entries = {} /\ polled = {} /\ pipe = <<>> /\ status = TRUE
    /\ poll = [at |-> "poll", ready |-> {}, stream |-> None, buf |-> None]
    /\ alive = {}
    /\ nodes = [s \in Streams |-> <<>>]
    /\ disp = [s \in Streams |-> None]
    /\ halOpen = {} /\ halExit = {}
    /\ halQ = [s \in Streams |-> <<>>]
    /\ proc = [s \in Streams |-> "gone"]
    /\ app = [s \in Streams |-> {}]
    /\ chan = [s \in Streams |-> {}]
    /\ ret = [s \in Streams |-> [who \in Returners |-> NoReturn]]
    /\ gone = [s \in Streams |-> {}]
    /\ ctl = [at |-> "down", i |-> 1, top |-> Len(Slots), undo |-> FALSE]

-----------------------------------------------------------------------------
(* The driver: it fills a buffer it has, but keeps some for the hardware. *)

Fill(s) ==
    /\ s \in streaming
    /\ Cardinality(driver[s].empty) > env.reserve[s]
    /\ \E b \in driver[s].empty :
         driver' = [driver EXCEPT ![s] =
                      [empty |-> @.empty \ {b}, frames |-> Append(@.frames, b)]]
    /\ UNCHANGED <<env, libVars, streaming, pollVars, cbVars, halVars, chan,
                   ret, gone, ctl>>

-----------------------------------------------------------------------------
(* mm_stream_buf_done: one holder gives a buffer back.  The check of the
   counter and its decrement are two critical sections, and the ioctl is
   outside of both. *)

Start(s, who, b) ==
    ret' = [ret EXCEPT ![s][who] = [step |-> "check", buf |-> b]]

Finish(s, who) == ret' = [ret EXCEPT ![s][who] = NoReturn]
Go(s, who, step) == ret' = [ret EXCEPT ![s][who].step = step]

(* The callback thread calls mm_stream_buf_done itself; the others go
   through the state machine of the stream, which wants it ACTIVE. *)
Accepts(s, who, b) ==
    /\ who # "disp" => state[s] = "ACTIVE"
    /\ refcnt[s][b] # 0

BufDoneCheck(s, who) ==
    /\ ret[s][who].step = "check"
    /\ IF Accepts(s, who, ret[s][who].buf)
         THEN Go(s, who, "dec")
         ELSE Finish(s, who)
    /\ UNCHANGED <<env, libVars, drvVars, pollVars, cbVars, halVars, chan,
                   gone, ctl>>

(* Mutant: the counter is signed. *)
Less_Signed(n) == n - 1

(* buf_refcnt is an uint8_t. *)
Less(n) == (n + 255) % 256

BufDoneDec(s, who) ==
    LET b == ret[s][who].buf IN
    /\ ret[s][who].step = "dec"
    /\ refcnt' = [refcnt EXCEPT ![s][b] = Less(@)]
    /\ IF refcnt'[s][b] = 0 THEN Go(s, who, "queue") ELSE Finish(s, who)
    /\ UNCHANGED <<env, state, queued, drvVars, pollVars, cbVars, halVars,
                   chan, gone, ctl>>

(* Mutant: the poll thread is not told to look at poll_entries again. *)
AddFd_Untold(s) == entries' = entries \cup {s} /\ UNCHANGED pipe

(* mm_stream_qbuf, first critical section: the first buffer of the driver
   puts the stream back into the poll set. *)
AddFd(s) ==
    /\ entries' = entries \cup {s}
    /\ pipe' = Append(pipe, "ASYNC")

DelFd(s) ==
    /\ entries' = entries \ {s}
    /\ pipe' = IF s \in entries THEN Append(pipe, "ASYNC") ELSE pipe

QbufCount(s, who) ==
    /\ ret[s][who].step = "queue"
    /\ queued' = [queued EXCEPT ![s] = @ + 1]
    /\ IF queued'[s] = 1 THEN AddFd(s) ELSE UNCHANGED <<entries, pipe>>
    /\ Go(s, who, "ioctl")
    /\ UNCHANGED <<env, state, refcnt, drvVars, polled, status, poll, cbVars,
                   halVars, chan, gone, ctl>>

(* VIDIOC_QBUF works between VIDIOC_REQBUFS(n) and VIDIOC_REQBUFS(0). *)
QbufIoctl(s, who) ==
    LET b == ret[s][who].buf IN
    /\ ret[s][who].step = "ioctl"
    /\ state[s] \in {"REG", "ACTIVE"}
    /\ driver' = [driver EXCEPT ![s].empty = @ \cup {b}]
    /\ Finish(s, who)
    /\ UNCHANGED <<env, libVars, streaming, pollVars, cbVars, halVars, chan,
                   gone, ctl>>

(* Mutant: the count is not taken back when VIDIOC_QBUF fails. *)
QbufFails_KeepsCount(s, who) ==
    /\ ret[s][who].step = "ioctl"
    /\ env.fails \/ state[s] \notin {"REG", "ACTIVE"}
    /\ gone' = [gone EXCEPT ![s] = @ \cup {ret[s][who].buf}]
    /\ Finish(s, who)
    /\ UNCHANGED <<env, libVars, drvVars, pollVars, cbVars, halVars, chan, ctl>>

QbufFails(s, who) ==
    LET b == ret[s][who].buf IN
    /\ ret[s][who].step = "ioctl"
    /\ env.fails \/ state[s] \notin {"REG", "ACTIVE"}
    /\ queued' = [queued EXCEPT ![s] = @ - 1]
    /\ IF queued'[s] = 0 THEN DelFd(s) ELSE UNCHANGED <<entries, pipe>>
    /\ gone' = [gone EXCEPT ![s] = @ \cup {b}]
    /\ Finish(s, who)
    /\ UNCHANGED <<env, state, refcnt, drvVars, polled, status, poll, cbVars,
                   halVars, chan, ctl>>

Return(s, who) ==
    \/ BufDoneCheck(s, who) \/ BufDoneDec(s, who)
    \/ QbufCount(s, who) \/ QbufIoctl(s, who) \/ QbufFails(s, who)

-----------------------------------------------------------------------------
(* The poll thread.  poll() returns for a command in the pipe or for the
   watched streams that have a frame; the command comes first. *)

PollRest == [at |-> "poll", ready |-> {}, stream |-> None, buf |-> None]

(* Mutant: nobody is told that a command was executed. *)
PollCommand_Silent ==
    /\ poll.at = "poll" /\ poll.ready = {} /\ pipe # <<>>
    /\ pipe' = Tail(pipe) /\ polled' = entries
    /\ UNCHANGED <<env, libVars, drvVars, entries, status, poll, cbVars, halVars,
                   chan, ret, gone, ctl>>

PollCommand ==
    /\ poll.at = "poll" /\ poll.ready = {} /\ pipe # <<>>
    /\ pipe' = Tail(pipe)
    /\ polled' = entries
    /\ status' = (status \/ Head(pipe) = "SYNC")
    /\ UNCHANGED <<env, libVars, drvVars, entries, poll, cbVars, halVars, chan,
                   ret, gone, ctl>>

PollFrames ==
    LET ready == {s \in polled \cap streaming : driver[s].frames # <<>>} IN
    /\ poll.at = "poll" /\ poll.ready = {} /\ pipe = <<>>
    /\ ready # {}
    /\ poll' = [poll EXCEPT !.ready = ready]
    /\ UNCHANGED <<env, libVars, drvVars, entries, polled, pipe, status, cbVars,
                   halVars, chan, ret, gone, ctl>>

(* mm_stream_data_notify, if the stream is still in poll_entries: nothing to
   do unless it is ACTIVE and VIDIOC_DQBUF has a frame for it. *)
PollSkip(s) ==
    /\ poll.at = "poll" /\ s \in poll.ready
    /\ \/ s \notin entries
       \/ state[s] # "ACTIVE"
       \/ driver[s].frames = <<>>
    /\ poll' = [poll EXCEPT !.ready = @ \ {s}]
    /\ UNCHANGED <<env, libVars, drvVars, entries, polled, pipe, status, cbVars,
                   halVars, chan, ret, gone, ctl>>

PollDequeue(s) ==
    /\ poll.at = "poll" /\ s \in poll.ready
    /\ s \in entries /\ state[s] = "ACTIVE" /\ driver[s].frames # <<>>
    /\ poll' = [at |-> "count", ready |-> poll.ready \ {s}, stream |-> s,
                buf |-> Head(driver[s].frames)]
    /\ driver' = [driver EXCEPT ![s].frames = Tail(@)]
    /\ UNCHANGED <<env, libVars, streaming, entries, polled, pipe, status,
                   cbVars, halVars, chan, ret, gone, ctl>>

(* mm_stream_read_msm_frame: when the driver has no buffer left, the poll
   thread takes the stream out of its own poll set. *)
PollCount ==
    LET s == poll.stream IN
    /\ poll.at = "count"
    /\ queued' = [queued EXCEPT ![s] = @ - 1]
    /\ IF queued'[s] = 0 THEN DelFd(s) ELSE UNCHANGED <<entries, pipe>>
    /\ poll' = [poll EXCEPT !.at = "ref"]
    /\ UNCHANGED <<env, state, refcnt, drvVars, polled, status, cbVars, halVars,
                   chan, ret, gone, ctl>>

(* Mutants: the channel's reference is not counted; both are always. *)
Holders_CallbackOnly(s) == IF s \in HasCb THEN 1 ELSE 0
Holders_Both(s) == 2

Holders(s) ==
    (IF s \in Bundled THEN 1 ELSE 0) + (IF s \in HasCb THEN 1 ELSE 0)

PollRef ==
    LET s == poll.stream IN
    /\ poll.at = "ref"
    /\ refcnt' = [refcnt EXCEPT ![s][poll.buf] = (@ + Holders(s)) % 256]
    /\ poll' = [poll EXCEPT !.at = IF s \in Bundled THEN "chan" ELSE "node"]
    /\ UNCHANGED <<env, state, queued, drvVars, entries, polled, pipe, status,
                   cbVars, halVars, chan, ret, gone, ctl>>

(* mm_stream_handle_rcvd_buf: first the channel, then the callback thread,
   unless STOP has released it. *)
PollChannel ==
    LET s == poll.stream IN
    /\ poll.at = "chan"
    /\ chan' = [chan EXCEPT ![s] = @ \cup {poll.buf}]
    /\ poll' = [poll EXCEPT !.at = "node"]
    /\ UNCHANGED <<env, libVars, drvVars, entries, polled, pipe, status, cbVars,
                   halVars, ret, gone, ctl>>

PollNode ==
    LET s == poll.stream IN
    /\ poll.at = "node"
    /\ nodes' = [nodes EXCEPT ![s] =
                   IF s \in HasCb \cap alive THEN Append(@, poll.buf) ELSE @]
    /\ poll' = [PollRest EXCEPT !.ready = poll.ready]
    /\ UNCHANGED <<env, libVars, drvVars, entries, polled, pipe, status, alive,
                   disp, halVars, chan, ret, gone, ctl>>

Poll ==
    \/ PollCommand \/ PollFrames
    \/ \E s \in Streams : PollSkip(s) \/ PollDequeue(s)
    \/ PollCount \/ PollRef \/ PollChannel \/ PollNode

-----------------------------------------------------------------------------
(* The callback thread, mm_stream_dispatch_app_data: one more holder for the
   callback, which puts the frame into the queue of the QCameraStream, and
   then the thread's own reference is given back.  The HAL forgets a frame
   that comes after it has closed its queue. *)

Dispatch(s) ==
    /\ disp[s] = None /\ Idle(s, "disp") /\ nodes[s] # <<>>
    /\ disp' = [disp EXCEPT ![s] = Head(nodes[s])]
    /\ nodes' = [nodes EXCEPT ![s] = Tail(@)]
    /\ refcnt' = [refcnt EXCEPT ![s][Head(nodes[s])] = (@ + 1) % 256]
    /\ UNCHANGED <<env, state, queued, drvVars, pollVars, alive, halVars, chan,
                   ret, gone, ctl>>

(* QCameraStream::processDataNotify.  Its queue is closed only when the
   stream is no longer active, so that a refused frame is never returned. *)
DataNotify(s) ==
    LET b == disp[s] IN
    /\ b # None
    /\ IF s \in halOpen
         THEN halQ' = [halQ EXCEPT ![s] = Append(@, b)] /\ UNCHANGED gone
         ELSE gone' = [gone EXCEPT ![s] = @ \cup {b}] /\ UNCHANGED halQ
    /\ Start(s, "disp", b)
    /\ disp' = [disp EXCEPT ![s] = None]
    /\ UNCHANGED <<env, libVars, drvVars, pollVars, alive, nodes, halOpen, halExit, proc, app, chan, ctl>>

-----------------------------------------------------------------------------
(* The HAL's thread of the stream, QCameraStream::dataProcRoutine: the
   callback of the stream returns the frame at once or leaves it with the
   display, the encoder or the application. *)

ProcFrame(s) ==
    /\ proc[s] = "idle" /\ s \notin halExit /\ halQ[s] # <<>>
    /\ Idle(s, "proc")
    /\ halQ' = [halQ EXCEPT ![s] = Tail(@)]
    /\ \/ Start(s, "proc", Head(halQ[s])) /\ UNCHANGED app
       \/ /\ app' = [app EXCEPT ![s] = @ \cup {Head(halQ[s])}]
          /\ UNCHANGED ret
    /\ UNCHANGED <<env, libVars, drvVars, pollVars, cbVars, halOpen,
                   halExit, proc, chan, gone, ctl>>

(* CAMERA_CMD_TYPE_EXIT goes to the head of the queue.  mDataQ.flush() holds
   the lock of the queue while it returns every frame: who enqueues meanwhile
   finds it closed. *)
ProcFlush(s) ==
    /\ proc[s] = "idle" /\ s \in halExit /\ Idle(s, "proc")
    /\ proc' = [proc EXCEPT ![s] = "flush"]
    /\ halOpen' = halOpen \ {s}
    /\ UNCHANGED <<env, libVars, drvVars, pollVars, cbVars, halQ,
                   halExit, app, chan, ret, gone, ctl>>

ProcReturn(s) ==
    /\ proc[s] = "flush" /\ halQ[s] # <<>> /\ Idle(s, "proc")
    /\ Start(s, "proc", Head(halQ[s]))
    /\ halQ' = [halQ EXCEPT ![s] = Tail(@)]
    /\ UNCHANGED <<env, libVars, drvVars, pollVars, cbVars, halOpen,
                   halExit, proc, app, chan, gone, ctl>>

ProcEnd(s) ==
    /\ proc[s] = "flush" /\ halQ[s] = <<>> /\ Idle(s, "proc")
    /\ proc' = [proc EXCEPT ![s] = "gone"]
    /\ UNCHANGED <<env, libVars, drvVars, pollVars, cbVars, halOpen,
                   halQ, halExit, app, chan, ret, gone, ctl>>

(* The application gives a buffer back through the thread of the HAL's state
   machine, which also starts and stops the channel. *)
AppReturns(s) ==
    /\ ctl.at = "up"
    /\ \A t \in Streams : Idle(t, "app")
    /\ \E b \in app[s] : /\ Start(s, "app", b)
                         /\ app' = [app EXCEPT ![s] = @ \ {b}]
    /\ UNCHANGED <<env, libVars, drvVars, pollVars, cbVars, halOpen,
                   halQ, halExit, proc, chan, gone, ctl>>

(* The channel's thread gives back the frames it cannot match and those that
   were in a matched set; MmCameraChannel has the details. *)
ChannelReturns(s) ==
    /\ \A t \in Streams : Idle(t, "chan")
    /\ \E b \in chan[s] : /\ Start(s, "chan", b)
                          /\ chan' = [chan EXCEPT ![s] = @ \ {b}]
    /\ UNCHANGED <<env, libVars, drvVars, pollVars, cbVars, halVars, gone, ctl>>

-----------------------------------------------------------------------------
(* QCameraChannel::start and mm_channel_start: the HAL's threads, then each
   stream in turn, the metadata stream first. *)

Swap(q, i, j) == [q EXCEPT ![i] = q[j], ![j] = q[i]]
MetaSlot == IF Meta \in Streams
              THEN CHOOSE i \in DOMAIN Slots : Slots[i] = Meta ELSE 1
StartOrder == Swap(Slots, 1, MetaSlot)
StopOrder == Swap(Slots, Len(Slots), MetaSlot)

Count == Len(Slots)
To(at, i) == ctl' = [ctl EXCEPT !.at = at, !.i = i]
Undo == ctl' = [at |-> "stop", i |-> 1, top |-> ctl.i, undo |-> TRUE]

HalStart ==
    /\ ctl.at = "down" /\ Len(pipe) <= MaxPipe
    /\ halOpen' = Streams /\ halExit' = {}
    /\ proc' = [s \in Streams |-> "idle"]
    /\ ctl' = [at |-> "reg", i |-> 1, top |-> Count, undo |-> FALSE]
    /\ UNCHANGED <<env, libVars, drvVars, pollVars, cbVars, halQ, app, chan,
                   ret, gone>>

(* GET_BUF, which allocates the buffers, and REG_BUF: those that are not for the driver yet count as
   held; they are with the display.  A buffer the driver refuses leaves those
   before it with the driver and the stream in the poll set. *)
RegBuf ==
    LET s == StartOrder[ctl.i] IN
    /\ ctl.at = "reg"
    /\ state' = [state EXCEPT ![s] = "REG"]
    /\ refcnt' = [refcnt EXCEPT ![s] =
                    [b \in Bufs |-> IF b \in InitReg[s] THEN 0 ELSE 1]]
    /\ queued' = [queued EXCEPT ![s] = Cardinality(InitReg[s])]
    /\ driver' = [driver EXCEPT ![s].empty = InitReg[s]]
    /\ app' = [app EXCEPT ![s] = Bufs \ InitReg[s]]
    /\ gone' = [gone EXCEPT ![s] = {}]
    /\ IF InitReg[s] # {} THEN AddFd(s) ELSE UNCHANGED <<entries, pipe>>
    /\ To("on", ctl.i)
    /\ UNCHANGED <<env, streaming, polled, status, poll, cbVars, halOpen, halQ,
                   halExit, proc, chan, ret>>

RegBufFails ==
    LET s == StartOrder[ctl.i] IN
    /\ ctl.at = "reg" /\ env.fails
    /\ \E Q \in SUBSET InitReg[s] :
         /\ Q # InitReg[s]
         /\ state' = [state EXCEPT ![s] = "BUFFED"]
         /\ queued' = [queued EXCEPT ![s] = Cardinality(Q)]
         /\ driver' = [driver EXCEPT ![s].empty = Q]
         /\ IF Q # {} THEN AddFd(s) ELSE DelFd(s)
    /\ app' = [app EXCEPT ![s] = {}]
    /\ gone' = [gone EXCEPT ![s] = {}]
    /\ Undo
    /\ UNCHANGED <<env, refcnt, streaming, polled, status, poll, cbVars, halOpen,
                   halQ, halExit, proc, chan, ret>>

(* START: the callback thread, then VIDIOC_STREAMON. *)
StreamOn ==
    LET s == StartOrder[ctl.i] IN
    /\ ctl.at = "on"
    /\ state' = [state EXCEPT ![s] = "ACTIVE"]
    /\ alive' = IF s \in HasCb THEN alive \cup {s} ELSE alive
    /\ streaming' = streaming \cup {s}
    /\ IF ctl.i = Count THEN To("up", 1) ELSE To("reg", ctl.i + 1)
    /\ UNCHANGED <<env, refcnt, queued, driver, pollVars, nodes, disp, halVars,
                   chan, ret, gone>>

(* Mutant: the command is sent, but not waited for. *)
DelFdSync_NoWait(s, wait, done) ==
    /\ DelFd(s) /\ UNCHANGED status
    /\ To(done, ctl.i)

(* A synchronous command: the caller waits for the poll thread's answer.
   There is no command for a stream that is not in poll_entries. *)
DelFdSync(s, wait, done) ==
    IF s \in entries
      THEN /\ entries' = entries \ {s}
           /\ pipe' = Append(pipe, "SYNC")
           /\ status' = FALSE
           /\ To(wait, ctl.i)
      ELSE UNCHANGED <<entries, pipe, status>> /\ To(done, ctl.i)

StreamOnFails ==
    /\ ctl.at = "on" /\ env.fails
    /\ DelFdSync(StartOrder[ctl.i], "onwait", "onfail")
    /\ UNCHANGED <<env, libVars, drvVars, polled, poll, cbVars, halVars, chan,
                   ret, gone>>

(* The streams started before this one are stopped and give up their
   buffers. *)
StreamOnUndo ==
    /\ \/ ctl.at = "onwait" /\ status
       \/ ctl.at = "onfail"
    /\ Undo
    /\ UNCHANGED <<env, libVars, drvVars, pollVars, cbVars, halVars, chan, ret,
                   gone>>

-----------------------------------------------------------------------------
(* QCameraChannel::stop and mm_channel_stop: the HAL's threads, the streams
   in turn with the metadata stream last, the channel's threads, and then
   the buffers. *)

HalStop ==
    /\ ctl.at = "up" /\ env.stops
    /\ \A s \in Streams : Idle(s, "app")
    /\ To("halstop", 1)
    /\ UNCHANGED <<env, libVars, drvVars, pollVars, cbVars, halVars, chan, ret,
                   gone>>

HalExit ==
    /\ ctl.at = "halstop"
    /\ halExit' = halExit \cup {Slots[ctl.i]}
    /\ To("haljoin", ctl.i)
    /\ UNCHANGED <<env, libVars, drvVars, pollVars, cbVars, halOpen, halQ, proc,
                   app, chan, ret, gone>>

HalJoin ==
    /\ ctl.at = "haljoin" /\ proc[Slots[ctl.i]] = "gone"
    /\ IF ctl.i < Count THEN To("halstop", ctl.i + 1)
       ELSE IF ctl.undo THEN To("down", 1)
       ELSE To("stop", 1)
    /\ UNCHANGED <<env, libVars, drvVars, pollVars, cbVars, halVars, chan, ret,
                   gone>>

(* mm_channel_start undoes the streams up to the one that failed. *)
Stopping == IF ctl.undo THEN StartOrder[ctl.i] ELSE StopOrder[ctl.i]
NextStop == IF ctl.i < ctl.top THEN To("stop", ctl.i + 1) ELSE To("release", 1)

StopDel ==
    /\ ctl.at = "stop" /\ state[Stopping] = "ACTIVE"
    /\ DelFdSync(Stopping, "wait", "off")
    /\ UNCHANGED <<env, libVars, drvVars, polled, poll, cbVars, halVars, chan,
                   ret, gone>>

StopWait ==
    /\ ctl.at = "wait" /\ status
    /\ To("off", ctl.i)
    /\ UNCHANGED <<env, libVars, drvVars, pollVars, cbVars, halVars, chan, ret,
                   gone>>

StreamOff ==
    LET s == Stopping IN
    /\ ctl.at = "off"
    /\ streaming' = streaming \ {s}
    /\ driver' = [driver EXCEPT ![s] = [empty |-> {}, frames |-> <<>>]]
    /\ To("join", ctl.i)
    /\ UNCHANGED <<env, libVars, pollVars, cbVars, halVars, chan, ret, gone>>

(* UNREG_BUF of a stream in REG: the driver forgets its buffers and every
   counter is zero. *)
Unreg(s) ==
    /\ refcnt' = [refcnt EXCEPT ![s] = [b \in Bufs |-> 0]]
    /\ state' = [state EXCEPT ![s] = "BUFFED"]
    /\ driver' = [driver EXCEPT ![s] = [empty |-> {}, frames |-> <<>>]]

(* The callback thread serves its whole queue before it ends. *)
StopJoin ==
    LET s == Stopping IN
    /\ ctl.at = "join"
    /\ nodes[s] = <<>> /\ disp[s] = None /\ Idle(s, "disp")
    /\ alive' = alive \ {s}
    /\ Unreg(s)
    /\ NextStop
    /\ UNCHANGED <<env, queued, streaming, pollVars, nodes, disp, halVars, chan,
                   ret, gone>>

(* STOP is refused by a stream that is not ACTIVE. *)
StopInactive ==
    LET s == Stopping IN
    /\ ctl.at = "stop" /\ state[s] # "ACTIVE"
    /\ IF state[s] = "REG" THEN Unreg(s) ELSE UNCHANGED <<refcnt, state, driver>>
    /\ NextStop
    /\ UNCHANGED <<env, queued, streaming, pollVars, cbVars, halVars, chan, ret,
                   gone>>

(* The channel's threads return what they have, which the streams refuse, and
   end; PUT_BUF frees the buffers. *)
Release ==
    /\ ctl.at = "release"
    /\ \A s \in Streams : chan[s] = {} /\ Idle(s, "chan")
    /\ state' = [s \in Streams |-> "CFG"]
    /\ driver' = [s \in Streams |-> [empty |-> {}, frames |-> <<>>]]
    /\ IF ctl.undo THEN To("halstop", 1) ELSE To("down", 1)
    /\ UNCHANGED <<env, refcnt, queued, streaming, pollVars, cbVars, halVars,
                   chan, ret, gone>>

Control ==
    \/ HalStart \/ RegBuf \/ RegBufFails \/ StreamOn \/ StreamOnFails
    \/ StreamOnUndo \/ HalStop \/ HalExit \/ HalJoin \/ StopDel \/ StopWait
    \/ StreamOff \/ StopJoin \/ StopInactive \/ Release

CallbackThread(s) == Dispatch(s) \/ DataNotify(s) \/ Return(s, "disp")

HalThread(s) ==
    \/ ProcFrame(s) \/ ProcFlush(s) \/ ProcReturn(s) \/ ProcEnd(s)
    \/ Return(s, "proc")

ChannelThread == \E s \in Streams : ChannelReturns(s) \/ Return(s, "chan")

Next ==
    \/ Control \/ Poll \/ ChannelThread
    \/ \E s \in Streams :
         \/ Fill(s) \/ CallbackThread(s) \/ HalThread(s)
         \/ AppReturns(s) \/ Return(s, "app")

Spec == Init /\ [][Next]_vars

(* Every thread of the library and of the HAL makes progress, and a call once
   begun goes on; whether the channel is ever stopped, and when a buffer is
   filled or returned, is not for them to say. *)
Threads ==
    /\ WF_vars(Poll) /\ WF_vars(ChannelThread)
    /\ WF_vars(Control /\ ctl.at \notin {"up", "down"})
    /\ \A s \in Streams : /\ WF_vars(CallbackThread(s)) /\ WF_vars(HalThread(s))
                          /\ WF_vars(Return(s, "app"))
FairSpec == Spec /\ Threads

-----------------------------------------------------------------------------
(* Type invariant: queued_buffer_count is never negative and never more than
   there are buffers, and each thread is at a place of its function.  A call
   that passed its check before UNREG_BUF cleared the counters may take one
   below zero: buf_refcnt is then 255. *)
TypeOK ==
    /\ env \in Envs
    /\ state \in [Streams -> States]
    /\ refcnt \in [Streams -> [Bufs -> 0..255]]
    /\ queued \in [Streams -> 0..Cardinality(Bufs)]
    /\ driver \in [Streams -> [empty : SUBSET Bufs, frames : Seq(Bufs)]]
    /\ streaming \subseteq Streams
    /\ entries \subseteq Streams /\ polled \subseteq Streams
    /\ pipe \in Seq({"SYNC", "ASYNC"}) /\ status \in BOOLEAN
    /\ poll \in [at : {"poll", "count", "ref", "chan", "node"},
                ready : SUBSET Streams, stream : Streams \cup {None},
                buf : Bufs \cup {None}]
    /\ alive \subseteq HasCb
    /\ nodes \in [Streams -> Seq(Bufs)] /\ halQ \in [Streams -> Seq(Bufs)]
    /\ disp \in [Streams -> Bufs \cup {None}]
    /\ halOpen \subseteq Streams /\ halExit \subseteq Streams
    /\ proc \in [Streams -> {"gone", "idle", "flush"}]
    /\ app \in [Streams -> SUBSET Bufs]
    /\ chan \in [Streams -> SUBSET Bufs]
    /\ gone \in [Streams -> SUBSET Bufs]
    /\ ret \in [Streams -> [Returners -> [step : Steps \cup {None},
                                          buf : Bufs \cup {None}]]]
    /\ ctl \in [at : {"down", "reg", "on", "onwait", "onfail", "up", "halstop",
                      "haljoin", "stop", "wait", "off", "join", "release"},
                i : 1..Count, top : 1..Count, undo : BOOLEAN]

Returning(s, steps) ==
    {ret[s][who].buf : who \in {w \in Returners : ret[s][w].step \in steps}}
Reading(s) == IF poll.stream = s /\ (poll.at = "node" => s \in HasCb)
                THEN {poll.buf} ELSE {}

(* The buffers that somebody outside the driver reads or is about to. *)
Held(s) ==
    chan[s] \cup Range(nodes[s]) \cup ({disp[s]} \ {None}) \cup Range(halQ[s])
    \cup app[s] \cup Reading(s) \cup Returning(s, {"check", "dec"})

(* The hardware never writes into a buffer that the channel, the callback,
   the display, the encoder or the application still has. *)
NotWrittenWhileHeld == \A s \in Streams : DriverHas(s) \cap Held(s) = {}

(* While a stream runs each of its buffers is with the driver or with somebody
   who will return it, or it was lost in one of the two known ways: the driver
   refused it, or it reached the HAL after the HAL had closed its queue. *)
NoneLost ==
    \A s \in streaming :
      DriverHas(s) \cup Held(s) \cup Returning(s, {"queue", "ioctl"})
      \cup gone[s] = Bufs

(* queued_buffer_count, on which the poll set depends, counts the buffers of
   the driver, with those that are just going in or coming out. *)
KernelCount ==
    \A s \in streaming :
      queued[s] = Cardinality(DriverHas(s))
                  + Cardinality(Returning(s, {"ioctl"}))
                  + (IF poll.at = "count" THEN Cardinality(Reading(s)) ELSE 0)

(* Once STOP has returned, the poll thread is not in the middle of a frame of
   that stream.  mm_camera_stream.c:1216 promises it. *)
StoppedIsQuiet ==
    \A s \in Streams : state[s] # "ACTIVE" => poll.stream # s

(* A frame that the hardware has filled is read, whatever was taken out of
   the poll set and put back in the meantime. *)
FramesRead ==
    \A s \in Streams, b \in Bufs :
      b \in Range(driver[s].frames) ~> b \notin Range(driver[s].frames)

(* A channel that starts or stops gets there: nobody waits for an answer of
   the poll thread, or for a thread to end, that does not come. *)
ControlEnds == ctl.at \notin {"up", "down"} ~> ctl.at \in {"up", "down"}
=============================================================================
