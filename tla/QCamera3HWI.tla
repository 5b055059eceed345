---------------------------- MODULE QCamera3HWI ----------------------------
(***************************************************************************)
(* The camera3 HAL (HAL3/QCamera3HWI.cpp): capture requests of the         *)
(* framework, the metadata and the buffers that answer them, flush, and    *)
(* the death of the daemon.                                                *)
(*                                                                         *)
(* Threads: the framework's request thread (initialize, configure_streams, *)
(* process_capture_request), its flush thread, the metadata channel's      *)
(* callback thread, the buffers' callback threads and the daemon's event   *)
(* thread.  Everything between a lock and an unlock of mMutex is one       *)
(* action; what the code does without the lock is an action of its own.    *)
(* The restart of the sensor walks the lists without the lock, one entry   *)
(* after the other; a flush that walks them meanwhile is undefined.        *)
(***************************************************************************)
EXTENDS Integers, SequencesExt, FiniteSets

CONSTANTS Streams,      \* output streams
          Video, Blob,  \* those of type VIDEO and of format BLOB
          MaxFrame,     \* bound: frame numbers are 1..MaxFrame
          BatchSizes,   \* values of mBatchSize; 0 is the normal mode
          MinInFlight, MaxInFlight, \* for each of them: live requests from
                                    \* which process_capture_request waits,
                                    \* and up to which the daemon may end
                                    \* the wait
          Scenarios     \* what may happen: [sizes, frames, reprocess, flush,
                        \* die, fail]

ASSUME QCamera3HWIAssumption ==
    /\ Video \subseteq Streams /\ Blob \subseteq Streams
    /\ "input" \notin Streams
    /\ MaxFrame \in Nat /\ BatchSizes \subseteq Nat
    /\ MinInFlight \in [BatchSizes -> Nat \ {0}]
    /\ MaxInFlight \in [BatchSizes -> Nat]
    /\ Scenarios \subseteq [sizes : SUBSET BatchSizes, frames : 0..MaxFrame,
                            reprocess : BOOLEAN, flush : BOOLEAN,
                            die : BOOLEAN, fail : BOOLEAN]

Frame == 1..MaxFrame
State == {"CLOSED", "OPENED", "INITIALIZED", "CONFIGURED", "STARTED",
          "ERROR", "DEINIT"}
\* Mutant: a device in error can be configured.
Live_Errors == {"INITIALIZED", "CONFIGURED", "STARTED", "ERROR"}
Live == {"INITIALIZED", "CONFIGURED", "STARTED"}

VARIABLES
    env,                   \* the scenario
    mState,
    mFlush,                \* a flush is under way (or failed half-way)
    mPendingRequestsList,  \* [fn, input, bufs, cached]: cached buffers
                           \* arrived before their metadata
    mPendingBuffersMap,    \* [fn, bufs]: buffers the framework waits for
    mPendingFrameDropList, \* <<frame, stream>>
    mPendingLiveRequest,
    mPendingBatchMap,      \* <<last frame, first frame>> of a batch
    batch,                 \* mBatchSize, mToBeQueuedVidBufs and
                           \* mFirstFrameNumberInBatch
    mWokenUpByDaemon,
    streaming,             \* the channels are started
    due,                   \* what the daemon works on: metadata in order,
                           \* buffers; held: buffers of an incomplete batch
    metaCb,                \* frames the metadata callback still handles
    thread,                \* the request thread and the flush thread
    signalled,             \* mRequestCond was signalled during the wait
    walk,                  \* the sensor restart's loop over the buffers map:
                           \* the oldest pending number it read, the entry
                           \* it has erased and not yet answered
    raced,                 \* ghost: a flush walked the lists meanwhile
    nextFrame,             \* ghost: the next request's number
    asked,                 \* ghost: the output buffers of each request that
                           \* was put into the lists
    accepted,              \* ghost: requests answered with NO_ERROR
    sent,                  \* ghost: live requests given to the channels
    shutter, final, back   \* ghost: how often the framework was told of the
                           \* start and of the end of a frame, and how often
                           \* it got each buffer back

lists == <<mPendingRequestsList, mPendingBuffersMap, mPendingFrameDropList>>
batching == <<mPendingBatchMap, batch>>
outside == <<streaming, due, metaCb>>
ledger == <<nextFrame, asked, accepted, sent>>
told == <<shutter, final, back>>
walking == <<walk, raced>>
vars == <<env, mState, mFlush, lists, mPendingLiveRequest, batching,
          mWokenUpByDaemon, outside, thread, signalled, walking, ledger, told>>

Thread == {"request", "flush"}
NoRequest == [fn |-> 0, bufs |-> {}, input |-> FALSE]
Out == [pc |-> "out", restart |-> FALSE, req |-> NoRequest]

NothingDue == [meta |-> <<>>, bufs |-> {}, held |-> {}]
NoWalk == [on |-> FALSE, first |-> 0, hand |-> {}]

\* A new QCamera3HardwareInterface.
Init ==
    /\ env \in Scenarios
    /\ mState = "CLOSED" /\ mFlush = FALSE
    /\ mPendingRequestsList = <<>> /\ mPendingBuffersMap = <<>>
    /\ mPendingFrameDropList = {} /\ mPendingLiveRequest = 0
    /\ mPendingBatchMap = {}
    /\ batch = [size |-> 0, queued |-> 0, first |-> 0]
    /\ mWokenUpByDaemon = FALSE
    /\ streaming = FALSE /\ due = NothingDue /\ metaCb = <<>>
    /\ thread = [t \in Thread |-> Out] /\ signalled = FALSE
    /\ walk = NoWalk /\ raced = FALSE
    /\ nextFrame = 1 /\ asked = [f \in Frame |-> {}]
    /\ accepted = {} /\ sent = {}
    /\ shutter = [f \in Frame |-> 0] /\ final = [f \in Frame |-> 0]
    /\ back = [f \in Frame |-> [s \in Streams |-> 0]]

---------------------------------------------------------------------------
(* What the framework is told, and the lists                               *)

Numbers(list) == {list[i].fn : i \in DOMAIN list}
\* erasePendingRequest of the entry of a frame: a list has at most one.
Without(list, fn) ==
    IF fn \notin Numbers(list) THEN list
    ELSE RemoveAt(list, CHOOSE i \in DOMAIN list : list[i].fn = fn)

\* Mutant: the whole frame is forgotten with its first buffer.
removeBufs_WholeFrame(map, fn, bufs) == Without(map, fn)
\* PendingBuffersMap::removeBuf of some buffers of one frame: an entry that
\* has none left is erased.
removeBufs(map, fn, bufs) ==
    LET left == [i \in DOMAIN map |->
                    IF map[i].fn = fn
                      THEN [map[i] EXCEPT !.bufs = @ \ bufs] ELSE map[i]]
    IN IF \E r \in Range(left) : r.fn = fn /\ r.bufs = {}
         THEN Without(left, fn) ELSE left

Returned(ledg, fn, bufs) ==
    [ledg EXCEPT ![fn] = [s \in Streams |->
                             IF s \in bufs THEN @[s] + 1 ELSE @[s]]]

\* Mutant: every entry of the map loses its request.
LosesRequest_Always(fn, first) == TRUE
\* Mutant: the first pending request is left out.
LosesRequest_Newer(fn, first) == fn > first
\* notifyErrorForPendingRequests: an entry older than the first pending
\* request lost only buffers; for the others the request is in error.
LosesRequest(fn, first) == fn >= first

OldestPending == IF mPendingRequestsList = <<>> THEN MaxFrame + 1
                 ELSE Head(mPendingRequestsList).fn

\* The requests in error when the loop runs under the lock.
ErrorRequests == {fn \in Numbers(mPendingBuffersMap) :
                     LosesRequest(fn, OldestPending)}

\* The loop over the map, with the answers it gives for each frame and the
\* requests it erases.
AnswerErrors(answers, erased) ==
    LET lost(fn) == UNION {mPendingBuffersMap[i].bufs :
                           i \in {j \in DOMAIN mPendingBuffersMap :
                                  mPendingBuffersMap[j].fn = fn}}
    IN /\ final' = [f \in Frame |-> IF f \in ErrorRequests
                                      THEN final[f] + answers[f] ELSE final[f]]
       /\ back' = [f \in Frame |->
                     [s \in Streams |-> IF s \in lost(f)
                                          THEN back[f][s] + answers[f]
                                          ELSE back[f][s]]]
       /\ mPendingRequestsList' =
             SubSeq(mPendingRequestsList, erased + 1,
                    Len(mPendingRequestsList))
       /\ mPendingBuffersMap' = <<>>
       /\ mPendingFrameDropList' = {}
       /\ UNCHANGED shutter

\* Under the lock each entry is answered once.  For each request in error the
\* first pending one is erased, whichever it is; when none is left the code
\* uses the end of the list, which no instance checked here comes to.
notifyErrorForPendingRequests ==
    LET errors == Cardinality(ErrorRequests)
    IN AnswerErrors([f \in Frame |-> 1],
                    IF errors < Len(mPendingRequestsList)
                      THEN errors ELSE Len(mPendingRequestsList))

\* Beside the unlocked loop of the sensor restart two threads erase the same
\* entries: one may be answered by both, any number of requests is erased.
Overlapped ==
    \E answers \in [Frame -> 1..2], erased \in 0..Len(mPendingRequestsList) :
        /\ \A f \in Frame \ Numbers(mPendingBuffersMap) : answers[f] = 1
        /\ AnswerErrors(answers, erased)

\* Stopping a channel joins its callback thread: no callback is running.
stopAllChannels ==
    /\ metaCb = <<>>
    /\ streaming' = FALSE
    /\ due' = NothingDue
    /\ UNCHANGED metaCb

unblockRequestIfNecessary ==
    signalled' = (signalled \/ thread["request"].pc = "wait")

Goes(t, pc) == thread' = [thread EXCEPT ![t].pc = pc]
Leaves(t) == thread' = [thread EXCEPT ![t] = Out]

---------------------------------------------------------------------------
(* Opening and configuring                                                 *)

openCamera ==
    /\ mState = "CLOSED" /\ thread["request"].pc = "out"
    /\ mState' = "OPENED"
    /\ UNCHANGED <<mFlush, lists, mPendingLiveRequest, batching,
                   mWokenUpByDaemon, outside, thread, signalled, ledger, told>>

\* initialize gives up the lock before it assigns the state.
initialize ==
    /\ mState = "OPENED" /\ thread["request"].pc = "out"
    /\ Goes("request", "initialized")
    /\ UNCHANGED <<mState, mFlush, lists, mPendingLiveRequest, batching,
                   mWokenUpByDaemon, outside, signalled, ledger, told>>

Initialized ==
    /\ thread["request"].pc = "initialized"
    /\ mState' = "INITIALIZED" /\ Leaves("request")
    /\ UNCHANGED <<mFlush, lists, mPendingLiveRequest, batching,
                   mWokenUpByDaemon, outside, signalled, ledger, told>>

Done(f) == /\ final[f] > 0
           /\ \A s \in asked[f] : back[f][s] > 0

\* The framework configures when all captures it may count on have ended.
\* The channels are stopped first, without the lock.
configureStreams ==
    /\ thread["request"].pc = "out" /\ mState \notin {"CLOSED", "OPENED"}
    /\ \A f \in accepted : Done(f)
    /\ stopAllChannels
    /\ Goes("request", "configure")
    /\ UNCHANGED <<mState, mFlush, lists, mPendingLiveRequest, batching,
                   mWokenUpByDaemon, signalled, ledger, told>>

configureStreamsPerfLocked ==
    /\ thread["request"].pc = "configure"
    /\ \/ /\ mState \in Live
          /\ mState' = "CONFIGURED" /\ Leaves("request")
          /\ mPendingRequestsList' = <<>> /\ mPendingBuffersMap' = <<>>
          /\ mPendingFrameDropList' = {}
       \/ /\ mState = "ERROR" /\ Goes("request", "error")
          /\ UNCHANGED <<mState, lists>>
       \/ /\ mState = "DEINIT" /\ Leaves("request")
          /\ UNCHANGED <<mState, lists>>
    /\ UNCHANGED <<mFlush, mPendingLiveRequest, batching, mWokenUpByDaemon,
                   outside, signalled, ledger, told>>

\* The object is deleted, nobody is told of what was pending; the next
\* session has a new one and counts its frames anew.
close_camera_device ==
    /\ \A t \in Thread : thread[t].pc = "out"
    /\ mState # "CLOSED" /\ metaCb = <<>>
    /\ mState' = "CLOSED" /\ mFlush' = FALSE
    /\ mPendingRequestsList' = <<>> /\ mPendingBuffersMap' = <<>>
    /\ mPendingFrameDropList' = {} /\ mPendingLiveRequest' = 0
    /\ mPendingBatchMap' = {} /\ batch' = [size |-> 0, queued |-> 0, first |-> 0]
    /\ mWokenUpByDaemon' = FALSE
    /\ streaming' = FALSE /\ due' = NothingDue
    /\ signalled' = FALSE
    /\ nextFrame' = 1 /\ asked' = [f \in Frame |-> {}]
    /\ accepted' = {} /\ sent' = {}
    /\ shutter' = [f \in Frame |-> 0] /\ final' = shutter'
    /\ back' = [f \in Frame |-> [s \in Streams |-> 0]]
    /\ UNCHANGED <<metaCb, thread, walking>>

---------------------------------------------------------------------------
(* process_capture_request                                                 *)

\* What the framework may ask for: in high speed mode every request of a
\* batch has a video buffer.
Requests(size) ==
    {r \in [fn : {nextFrame}, bufs : (SUBSET Streams) \ {{}},
            input : IF env.reprocess /\ size = 0 THEN BOOLEAN ELSE {FALSE}] :
        /\ size > 0 => r.bufs \cap Video # {}
        /\ r.input => r.bufs \subseteq Blob}

MayAsk == /\ thread["request"].pc = "out"
          /\ nextFrame <= env.frames
          /\ nextFrame' = nextFrame + 1

RequestRefused ==
    /\ MayAsk /\ mState \in {"ERROR", "DEINIT"}
    /\ IF mState = "ERROR" THEN Goes("request", "error")
                           ELSE UNCHANGED thread
    /\ UNCHANGED <<mState, mFlush, lists, mPendingLiveRequest, batching,
                   mWokenUpByDaemon, outside, signalled, asked, accepted,
                   sent, told>>

\* The first request after a configuration sets the channels up and starts
\* them; the paths of a failure stop some of them, or none.
SetupFails ==
    /\ env.fail /\ MayAsk /\ mState = "CONFIGURED"
    /\ streaming' \in BOOLEAN
    /\ UNCHANGED <<mState, mFlush, lists, mPendingLiveRequest, batching,
                   mWokenUpByDaemon, due, metaCb, thread, signalled, asked,
                   accepted, sent, told>>

\* Mutant: a new configuration goes on with the old count.
Setup_KeepsCount(size) ==
    [live |-> mPendingLiveRequest, woken |-> mWokenUpByDaemon,
     streaming |-> TRUE, batch |-> [batch EXCEPT !.size = size]]
\* The state in which the body of the request runs: as it is, or set up.
Setup(size) ==
    IF mState = "CONFIGURED"
      THEN [live |-> 0, woken |-> FALSE, streaming |-> TRUE,
            batch |-> [batch EXCEPT !.size = size]]
      ELSE [live |-> mPendingLiveRequest, woken |-> mWokenUpByDaemon,
            streaming |-> streaming, batch |-> batch]

\* Missing settings, a fence that fails, parameters that are refused.
SettingsFail ==
    /\ env.fail /\ MayAsk /\ mState \in {"CONFIGURED", "STARTED"}
    /\ LET u == Setup(batch.size)
       IN /\ mPendingLiveRequest' = u.live /\ mWokenUpByDaemon' = u.woken
          /\ streaming' = u.streaming
    /\ UNCHANGED <<mState, mFlush, lists, batching, due, metaCb, thread,
                   signalled, asked, accepted, sent, told>>

\* The request enters both lists.
Registered(r) ==
    /\ mPendingRequestsList' =
          Append(mPendingRequestsList, [fn |-> r.fn, input |-> r.input,
                                        bufs |-> r.bufs, cached |-> {}])
    /\ mPendingBuffersMap' =
          Append(mPendingBuffersMap, [fn |-> r.fn, bufs |-> r.bufs])
    /\ asked' = [asked EXCEPT ![r.fn] = r.bufs]
    /\ UNCHANGED <<mPendingFrameDropList, told>>

\* Mutant: nobody notes where the batch begins.
Batched_Never(b, fn) == b
Batched(b, fn) == IF b.queued = 0 THEN [b EXCEPT !.first = fn] ELSE b

\* During a flush the request is left to the flush to answer.
LeftToFlush(r, u) ==
    /\ mFlush
    /\ Registered(r) /\ Leaves("request")
    /\ accepted' = accepted \cup {r.fn}
    /\ batch' = (IF r.input THEN u.batch ELSE Batched(u.batch, r.fn))
    /\ mPendingLiveRequest' = u.live /\ mWokenUpByDaemon' = u.woken
    /\ streaming' = u.streaming
    /\ UNCHANGED <<mState, mPendingBatchMap, due, metaCb, signalled, sent>>

\* A channel refuses its buffer: the request stays in the lists, the
\* channels before it work on theirs.
ChannelRefuses(r, u) ==
    /\ ~mFlush /\ env.fail /\ u.batch.size = 0
    /\ Registered(r) /\ Leaves("request")
    /\ \E part \in SUBSET r.bufs \ {r.bufs} :
          due' = [due EXCEPT !.bufs = @ \cup ({r.fn} \X part)]
    /\ batch' = u.batch
    /\ mPendingLiveRequest' = u.live /\ mWokenUpByDaemon' = u.woken
    /\ streaming' = u.streaming
    /\ UNCHANGED <<mState, mPendingBatchMap, metaCb, signalled, accepted,
                   sent>>

\* Parameters go to the daemon with every request, or once per batch; then
\* metadata and buffers are due.
Sent(r, b) ==
    LET bufs == {r.fn} \X r.bufs
    IN IF b.size > 0 /\ b.queued + 1 < b.size
         THEN /\ due' = [due EXCEPT !.held = @ \cup bufs]
              /\ batch' = [b EXCEPT !.queued = @ + 1]
              /\ UNCHANGED mPendingBatchMap
         ELSE /\ due' = [meta |-> Append(due.meta, r.fn), held |-> {},
                         bufs |-> due.bufs \cup due.held \cup bufs]
              /\ batch' = [b EXCEPT !.queued = 0]
              /\ mPendingBatchMap' = mPendingBatchMap \cup {<<r.fn, b.first>>}

\* A live request: it may have to wait until fewer are in flight.
LiveAccepted(r, u) ==
    /\ ~mFlush /\ ~r.input
    /\ Registered(r)
    /\ accepted' = accepted \cup {r.fn} /\ sent' = sent \cup {r.fn}
    /\ Sent(r, Batched(u.batch, r.fn))
    /\ mPendingLiveRequest' = u.live + 1
    /\ mState' = "STARTED"
    /\ streaming' = u.streaming
    /\ IF u.live + 1 >= MinInFlight[u.batch.size]
         THEN /\ thread' = [thread EXCEPT !["request"] =
                               [@ EXCEPT !.pc = "wait", !.req = r]]
              /\ signalled' = FALSE
         ELSE Leaves("request") /\ UNCHANGED signalled
    /\ mWokenUpByDaemon' = u.woken
    /\ UNCHANGED metaCb

\* A reprocess request: the input buffer comes back first, then the output.
ReprocessAccepted(r, u) ==
    /\ ~mFlush /\ r.input
    /\ Registered(r) /\ Leaves("request")
    /\ accepted' = accepted \cup {r.fn}
    /\ due' = [due EXCEPT !.bufs = @ \cup ({r.fn} \X (r.bufs \cup {"input"}))]
    /\ batch' = u.batch
    /\ mPendingLiveRequest' = u.live /\ mWokenUpByDaemon' = u.woken
    /\ streaming' = u.streaming
    /\ mState' = "STARTED"
    /\ UNCHANGED <<mPendingBatchMap, metaCb, signalled, sent>>

Accepted(r, u) == \/ LeftToFlush(r, u) \/ ChannelRefuses(r, u)
                  \/ LiveAccepted(r, u) \/ ReprocessAccepted(r, u)

processCaptureRequest ==
    /\ MayAsk /\ mState \in {"CONFIGURED", "STARTED"}
    /\ \E size \in IF mState = "CONFIGURED" THEN env.sizes ELSE {batch.size} :
         \E r \in Requests(size) : Accepted(r, Setup(size))
    /\ UNCHANGED mFlush

\* The frame rate changes: the sensor is restarted, without the lock, and
\* the request goes on.
SensorRestart ==
    /\ MayAsk /\ mState = "STARTED" /\ batch.size > 0 /\ batch.queued = 0
    /\ \E r \in Requests(batch.size) :
          thread' = [thread EXCEPT !["request"] =
                        [@ EXCEPT !.pc = "sensor", !.req = r]]
    /\ UNCHANGED <<mState, mFlush, lists, mPendingLiveRequest, batching,
                   mWokenUpByDaemon, outside, signalled, asked, accepted,
                   sent, told>>

SensorStops ==
    /\ thread["request"].pc = "sensor"
    /\ stopAllChannels /\ Goes("request", "resume")
    /\ UNCHANGED <<mState, mFlush, lists, mPendingLiveRequest, batching,
                   mWokenUpByDaemon, signalled, ledger, told>>

\* The loop begins: the oldest pending number is read once.
WalkBegins ==
    /\ thread["request"].pc = "resume" /\ ~walk.on
    /\ walk' = [on |-> TRUE, first |-> OldestPending, hand |-> {}]
    /\ UNCHANGED <<mState, mFlush, lists, mPendingLiveRequest, batching,
                   mWokenUpByDaemon, outside, thread, signalled, raced,
                   ledger, told>>

\* An entry is erased from the map, then it is answered.
EntryErased ==
    /\ walk.on /\ walk.hand = {} /\ mPendingBuffersMap # <<>>
    /\ walk' = [walk EXCEPT !.hand = {Head(mPendingBuffersMap)}]
    /\ mPendingBuffersMap' = Tail(mPendingBuffersMap)
    /\ UNCHANGED <<mState, mFlush, mPendingRequestsList,
                   mPendingFrameDropList, mPendingLiveRequest, batching,
                   mWokenUpByDaemon, outside, thread, signalled, raced,
                   ledger, told>>

EntryAnswered ==
    /\ walk.on
    /\ \E e \in walk.hand :
          /\ back' = Returned(back, e.fn, e.bufs)
          /\ IF LosesRequest(e.fn, walk.first)
               THEN /\ final' = [final EXCEPT ![e.fn] = @ + 1]
                    /\ mPendingRequestsList' =
                          (IF mPendingRequestsList = <<>> THEN <<>>
                           ELSE Tail(mPendingRequestsList))
               ELSE UNCHANGED <<final, mPendingRequestsList>>
    /\ walk' = [walk EXCEPT !.hand = {}]
    /\ UNCHANGED <<mState, mFlush, mPendingBuffersMap, mPendingFrameDropList,
                   mPendingLiveRequest, batching, mWokenUpByDaemon, outside,
                   thread, signalled, raced, ledger, shutter>>

\* No entry is left: the channels are started.  When that fails, the request
\* is refused.
WalkEnds ==
    /\ walk.on /\ walk.hand = {} /\ mPendingBuffersMap = <<>>
    /\ walk' = NoWalk /\ mPendingFrameDropList' = {}
    /\ \/ streaming' = TRUE /\ Goes("request", "register")
       \/ env.fail /\ streaming' \in BOOLEAN /\ Leaves("request")
    /\ UNCHANGED <<mState, mFlush, mPendingRequestsList, mPendingBuffersMap,
                   mPendingLiveRequest, batching, mWokenUpByDaemon, due,
                   metaCb, signalled, raced, ledger, told>>

dynamicUpdateMetaStreamInfo ==
    WalkBegins \/ EntryErased \/ EntryAnswered \/ WalkEnds

SensorRestarted ==
    /\ thread["request"].pc = "register"
    /\ Accepted(thread["request"].req,
                [live |-> mPendingLiveRequest, woken |-> mWokenUpByDaemon,
                 streaming |-> streaming, batch |-> batch])
    /\ UNCHANGED <<mFlush, nextFrame>>

\* The wait is left when few enough requests are in flight, when the daemon
\* pulls and there is room, and in an error.
Woken ==
    /\ thread["request"].pc = "wait" /\ signalled
    /\ signalled' = FALSE /\ mWokenUpByDaemon' = FALSE
    /\ IF \/ mWokenUpByDaemon /\ mPendingLiveRequest < MaxInFlight[batch.size]
          \/ mPendingLiveRequest < MinInFlight[batch.size]
          \/ mState \in {"ERROR", "DEINIT"}
         THEN Leaves("request") ELSE UNCHANGED thread
    /\ UNCHANGED <<mState, mFlush, lists, mPendingLiveRequest, batching,
                   outside, ledger, told>>

\* After five seconds it fails, although the request was sent.
TimedOut ==
    /\ thread["request"].pc = "wait"
    /\ Leaves("request")
    /\ accepted' = accepted \ {thread["request"].req.fn}
    /\ UNCHANGED <<mState, mFlush, lists, mPendingLiveRequest, batching,
                   mWokenUpByDaemon, outside, signalled, nextFrame, asked,
                   sent, told>>

---------------------------------------------------------------------------
(* flush and the death of the daemon                                       *)

\* The entry of the device operation.
FlushCalled ==
    /\ env.flush /\ thread["flush"].pc = "out"
    /\ \/ /\ mState = "STARTED"
          /\ thread' = [thread EXCEPT !["flush"].pc = "flush",
                                      !["flush"].restart = TRUE]
       \/ mState = "ERROR" /\ Goes("flush", "error")
    /\ UNCHANGED <<mState, mFlush, lists, mPendingLiveRequest, batching,
                   mWokenUpByDaemon, outside, signalled, ledger, told>>

handleCameraDeviceError(t) ==
    /\ thread[t].pc = "error"
    /\ IF mState = "ERROR" THEN Goes(t, "flush") ELSE Leaves(t)
    /\ UNCHANGED <<mState, mFlush, lists, mPendingLiveRequest, batching,
                   mWokenUpByDaemon, outside, signalled, ledger, told>>

FlushBegins(t) ==
    /\ thread[t].pc = "flush"
    /\ mFlush' = TRUE /\ Goes(t, "stop")
    /\ UNCHANGED <<mState, lists, mPendingLiveRequest, batching,
                   mWokenUpByDaemon, outside, signalled, ledger, told>>

\* What flush() returns to: handleCameraDeviceError, or the framework.
FlushReturns(t) == IF thread[t].restart THEN Leaves(t) ELSE Goes(t, "deinit")

\* Without the lock.  When setBundleInfo fails, mFlush stays TRUE.
FlushStops(t) ==
    /\ thread[t].pc = "stop"
    /\ stopAllChannels
    /\ \/ Goes(t, "notify")
       \/ env.fail /\ FlushReturns(t)
    /\ UNCHANGED <<mState, mFlush, lists, mPendingLiveRequest, batching,
                   mWokenUpByDaemon, signalled, ledger, told>>

flush(t) ==
    /\ thread[t].pc = "notify"
    /\ \/ ~walk.on /\ notifyErrorForPendingRequests /\ UNCHANGED walking
       \/ walk.on /\ Overlapped /\ raced' = TRUE /\ UNCHANGED walk
    /\ mPendingLiveRequest' = 0
    /\ unblockRequestIfNecessary
    /\ mFlush' = FALSE
    /\ \/ streaming' = thread[t].restart
       \/ env.fail /\ UNCHANGED streaming
    /\ FlushReturns(t)
    /\ UNCHANGED <<mState, batching, mWokenUpByDaemon, due, metaCb, ledger>>

Deinit(t) ==
    /\ thread[t].pc = "deinit"
    /\ mState' = "DEINIT" /\ Leaves(t)
    /\ UNCHANGED <<mFlush, lists, mPendingLiveRequest, batching,
                   mWokenUpByDaemon, outside, signalled, ledger, told>>

\* The thread that waits for requests in flight is not woken.
DaemonDied ==
    /\ env.die /\ mState \notin {"CLOSED", "ERROR"}
    /\ mState' = "ERROR"
    /\ UNCHANGED <<mFlush, lists, mPendingLiveRequest, batching,
                   mWokenUpByDaemon, outside, thread, signalled, ledger, told>>

DaemonPulls ==
    /\ streaming /\ ~mWokenUpByDaemon
    /\ mWokenUpByDaemon' = TRUE
    /\ unblockRequestIfNecessary
    /\ UNCHANGED <<mState, mFlush, lists, mPendingLiveRequest, batching,
                   outside, thread, ledger, told>>

---------------------------------------------------------------------------
(* captureResultCb: metadata and buffers                                   *)

\* One metadata buffer answers a frame, or all frames of a batch.
handleBatchMetadata ==
    /\ streaming /\ metaCb = <<>> /\ due.meta # <<>>
    /\ LET last == Head(due.meta)
       IN IF batch.size = 0
            THEN metaCb' = <<last>> /\ UNCHANGED mPendingBatchMap
            ELSE \E e \in mPendingBatchMap :
                    /\ e[1] = last
                    /\ metaCb' = [i \in 1..(last + 1 - e[2]) |-> e[2] + i - 1]
                    /\ mPendingBatchMap' = mPendingBatchMap \ {e}
    /\ due' = [due EXCEPT !.meta = Tail(@)]
    /\ UNCHANGED <<mState, mFlush, lists, mPendingLiveRequest, batch,
                   mWokenUpByDaemon, streaming, thread, signalled, ledger,
                   told>>

\* Live requests older than frame fn: their metadata was skipped.
Skipped(fn) == {i \in DOMAIN mPendingRequestsList :
                   /\ mPendingRequestsList[i].fn < fn
                   /\ ~mPendingRequestsList[i].input}

\* The entries the loop reaches are told of the buffers that were dropped.
Dropped(fn, drop) ==
    {mPendingRequestsList[i].fn : i \in
        {j \in DOMAIN mPendingRequestsList :
            /\ mPendingRequestsList[j].fn <= fn
            /\ \A k \in Skipped(fn) : j <= k}} \X drop

handleMetadataWithLock(drop) ==
    /\ metaCb # <<>> /\ metaCb' = Tail(metaCb)
    /\ LET fn == Head(metaCb)
           hits == {r \in Range(mPendingRequestsList) : r.fn = fn}
       IN \/ /\ mState \in {"ERROR", "DEINIT"}
             /\ UNCHANGED <<mState, lists, mPendingLiveRequest, signalled, told>>
          \/ /\ mState \notin {"ERROR", "DEINIT"} /\ Skipped(fn) # {}
             /\ mState' = "ERROR"
             /\ mPendingFrameDropList' =
                   mPendingFrameDropList \cup Dropped(fn, drop)
             /\ unblockRequestIfNecessary
             /\ UNCHANGED <<mPendingRequestsList, mPendingBuffersMap,
                            mPendingLiveRequest, told>>
          \/ /\ mState \notin {"ERROR", "DEINIT"} /\ Skipped(fn) = {}
             /\ hits = {}
             /\ unblockRequestIfNecessary
             /\ UNCHANGED <<mState, lists, mPendingLiveRequest, told>>
          \/ /\ mState \notin {"ERROR", "DEINIT"} /\ Skipped(fn) = {}
             /\ \E r \in hits :
                  /\ back' = Returned(back, fn, r.cached)
                  /\ mPendingBuffersMap' =
                        removeBufs(mPendingBuffersMap, fn, r.cached)
                  /\ mPendingFrameDropList' =
                        (mPendingFrameDropList \cup Dropped(fn, drop))
                            \ ({fn} \X r.cached)
             /\ shutter' = [shutter EXCEPT ![fn] = @ + 1]
             /\ final' = [final EXCEPT ![fn] = @ + 1]
             /\ mPendingRequestsList' = Without(mPendingRequestsList, fn)
             /\ mPendingLiveRequest' = mPendingLiveRequest - 1
             /\ unblockRequestIfNecessary
             /\ UNCHANGED mState
    /\ UNCHANGED <<mFlush, batching, mWokenUpByDaemon, streaming, due, thread,
                   ledger>>

\* Buffers of one stream come in order; the JPEG of a live frame needs its
\* metadata, a reprocessed frame first returns its input.
Ready(fn, s) ==
    /\ streaming /\ <<fn, s>> \in due.bufs
    /\ s # "input" => <<fn, "input">> \notin due.bufs
    /\ \A g \in 1..fn - 1 : <<g, s>> \notin due.bufs
    /\ s \in Blob => fn \notin Range(due.meta) \cup Range(metaCb)

handleInputBufferWithLock(fn) ==
    /\ Ready(fn, "input")
    /\ due' = [due EXCEPT !.bufs = @ \ {<<fn, "input">>}]
    /\ IF \E r \in Range(mPendingRequestsList) : r.fn = fn /\ r.input
         THEN /\ shutter' = [shutter EXCEPT ![fn] = @ + 1]
              /\ final' = [final EXCEPT ![fn] = @ + 1]
              /\ mPendingRequestsList' = Without(mPendingRequestsList, fn)
         ELSE UNCHANGED <<shutter, final, mPendingRequestsList>>
    /\ UNCHANGED <<mState, mFlush, mPendingBuffersMap, mPendingFrameDropList,
                   mPendingLiveRequest, batching, mWokenUpByDaemon, streaming,
                   metaCb, thread, signalled, ledger, back>>

\* Before its metadata a buffer is kept in the request, afterwards it is
\* returned at once.
handleBufferWithLock(fn, s) ==
    /\ Ready(fn, s)
    /\ due' = [due EXCEPT !.bufs = @ \ {<<fn, s>>}]
    /\ \/ /\ mState \in {"ERROR", "DEINIT"}
          /\ UNCHANGED <<lists, back>>
       \/ /\ mState \notin {"ERROR", "DEINIT"}
          /\ fn \in Numbers(mPendingRequestsList)
          /\ mPendingRequestsList' =
                [i \in DOMAIN mPendingRequestsList |->
                    IF mPendingRequestsList[i].fn = fn
                      THEN [mPendingRequestsList[i] EXCEPT
                               !.cached = @ \cup {s}]
                      ELSE mPendingRequestsList[i]]
          /\ UNCHANGED <<mPendingBuffersMap, mPendingFrameDropList, back>>
       \/ /\ mState \notin {"ERROR", "DEINIT"}
          /\ fn \notin Numbers(mPendingRequestsList)
          /\ back' = Returned(back, fn, {s})
          /\ mPendingBuffersMap' = removeBufs(mPendingBuffersMap, fn, {s})
          /\ mPendingFrameDropList' = mPendingFrameDropList \ {<<fn, s>>}
          /\ UNCHANGED mPendingRequestsList
    /\ UNCHANGED <<mState, mFlush, mPendingLiveRequest, batching,
                   mWokenUpByDaemon, streaming, metaCb, thread, signalled,
                   ledger, shutter, final>>

---------------------------------------------------------------------------
Framework == \/ close_camera_device
             \/ /\ \/ openCamera \/ initialize \/ configureStreams
                   \/ RequestRefused \/ SetupFails \/ SettingsFail
                   \/ processCaptureRequest \/ SensorRestart \/ FlushCalled
                /\ UNCHANGED walking

\* The steps of a thread inside the HAL.
RequestProceeds == \/ dynamicUpdateMetaStreamInfo
                   \/ /\ \/ Initialized \/ configureStreamsPerfLocked
                         \/ SensorStops \/ SensorRestarted
                         \/ Woken \/ TimedOut
                      /\ UNCHANGED walking

FlushProceeds(t) == \/ flush(t)
                    \/ /\ \/ handleCameraDeviceError(t) \/ FlushBegins(t)
                          \/ FlushStops(t) \/ Deinit(t)
                       /\ UNCHANGED walking

Metadata == /\ \/ handleBatchMetadata
               \/ \E drop \in SUBSET (Streams \ Blob) :
                     handleMetadataWithLock(drop)
            /\ UNCHANGED walking

Buffers == /\ \E fn \in Frame :
                 \/ handleInputBufferWithLock(fn)
                 \/ \E s \in Streams : handleBufferWithLock(fn, s)
           /\ UNCHANGED walking

Daemon == (DaemonDied \/ DaemonPulls) /\ UNCHANGED walking

Next == /\ UNCHANGED env
        /\ \/ Framework \/ RequestProceeds \/ Metadata \/ Buffers
           \/ Daemon
           \/ \E t \in Thread : FlushProceeds(t)

Spec == Init /\ [][Next]_vars

Fairness ==
    /\ WF_vars(RequestProceeds /\ UNCHANGED env)
    /\ \A t \in Thread : WF_vars(FlushProceeds(t) /\ UNCHANGED env)
    /\ WF_vars(Metadata /\ UNCHANGED env)
    /\ WF_vars(Buffers /\ UNCHANGED env)
FairSpec == Spec /\ Fairness

---------------------------------------------------------------------------
(* Properties                                                              *)

\* Type invariant: the state and the places of the two threads are those of
\* the code, the lists hold requests and buffers of the framework, and
\* mPendingLiveRequest and the frames of a batch never go below zero.
TypeOK ==
    /\ mState \in State /\ mFlush \in BOOLEAN
    /\ mPendingRequestsList \in Seq([fn : Frame, input : BOOLEAN,
                                     bufs : SUBSET Streams,
                                     cached : SUBSET Streams])
    /\ mPendingBuffersMap \in Seq([fn : Frame, bufs : SUBSET Streams])
    /\ mPendingFrameDropList \subseteq Frame \X Streams
    /\ mPendingLiveRequest \in Nat
    /\ mPendingBatchMap \subseteq Frame \X Nat
    /\ batch \in [size : Nat, queued : Nat, first : Nat]
    /\ mWokenUpByDaemon \in BOOLEAN /\ streaming \in BOOLEAN
    /\ due.meta \in Seq(Frame) /\ metaCb \in Seq(Frame)
    /\ thread["request"].pc \in
          {"out", "initialized", "configure", "error", "sensor", "resume",
           "register", "wait", "flush", "stop", "notify", "deinit"}
    /\ thread["flush"].pc \in
          {"out", "error", "flush", "stop", "notify", "deinit"}
    /\ walk \in [on : BOOLEAN, first : Nat,
                 hand : SUBSET [fn : Frame, bufs : SUBSET Streams]]
    /\ raced \in BOOLEAN

\* Every accepted request is in the books exactly once: the framework was
\* told of its end, or it is still pending; each of its buffers was given
\* back once, or is still in the map or in the hands of the sensor restart.
\* Nothing is said once a flush has walked the lists beside the restart.
Accounted ==
    ~raced =>
    \A f \in accepted :
        /\ final[f] + (IF f \in Numbers(mPendingRequestsList) THEN 1 ELSE 0) = 1
        /\ \A s \in asked[f] :
              back[f][s] + (IF \E r \in Range(mPendingBuffersMap) \cup walk.hand :
                                  r.fn = f /\ s \in r.bufs
                              THEN 1 ELSE 0) = 1

\* Whatever the order of metadata, buffers and flushes, the framework hears
\* of the start and the end of a frame at most once and gets no buffer twice,
\* unless a flush has walked the lists beside the sensor restart.
AnsweredOnce ==
    ~raced =>
    \A f \in Frame : /\ shutter[f] <= final[f] /\ final[f] <= 1
                     /\ \A s \in Streams : back[f][s] <= 1

\* The counter that process_capture_request waits on counts the live
\* requests in flight (after a restart of the sensor also older ones), as
\* long as the lists are whole.
LiveCount ==
    LET inFlight == Cardinality({i \in DOMAIN mPendingRequestsList :
                                    mPendingRequestsList[i].fn \in sent})
    IN ~raced /\ mState = "STARTED" =>
          IF batch.size = 0 THEN mPendingLiveRequest = inFlight
                            ELSE mPendingLiveRequest >= inFlight

\* When flush has told of the errors, no request it found is left unanswered,
\* unless the sensor restart was in the lists as well.
FlushAnswersAll ==
    [][\A t \in Thread : thread[t].pc = "notify" /\ thread'[t].pc # "notify"
          => raced' \/ \A f \in accepted : Done(f)']_vars

\* An error of the device is not forgotten, except by initialize and by a
\* sensor restart, which assign the state after they gave up the lock.
ErrorSticks ==
    [][mState = "ERROR" /\ mState' \notin {"ERROR", "DEINIT", "CLOSED"}
          => thread["request"].pc \in {"initialized", "register"}]_vars

\* A request given to the daemon is answered, unless the device is in error
\* or closed, the channels could not be started, a flush failed half-way, or
\* walked the lists beside the sensor restart.
EveryRequestAnswered ==
    \A f \in Frame :
        f \in accepted \cap sent /\ {f} \X Streams \cap due.held = {}
        ~> \/ Done(f) \/ mState \in {"ERROR", "DEINIT", "CLOSED"}
           \/ ~streaming \/ mFlush \/ raced \/ f \notin accepted

============================================================================
