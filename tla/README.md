# A TLA+ model of the camera HAL of android_device_lenovo_kuntao

This directory specifies, model-checks and partly proves correct the control
logic of the Android device tree `android_device_lenovo_kuntao`.  Almost all
code of the tree that keeps state and runs threads is the QCamera2 camera HAL
under `src/camera/QCamera2`; the rest is a GPS stack, small device services
(fingerprint, lights, audio amplifier) and static configuration.

Abbreviations: HWI = `src/camera/QCamera2/HAL/QCamera2HWI.cpp`,
SM = `src/camera/QCamera2/HAL/QCameraStateMachine.cpp`,
CB = `src/camera/QCamera2/HAL/QCamera2HWICallbacks.cpp`,
PP = `src/camera/QCamera2/HAL/QCameraPostProc.cpp`,
PARAM = `src/camera/QCamera2/HAL/QCameraParameters.cpp`,
H3 = `src/camera/QCamera2/HAL3/QCamera3HWI.cpp`,
QS = `src/camera/QCamera2/HAL/QCameraStream.cpp`,
MCH, MST, MTH = `mm_camera_channel.c`, `mm_camera_stream.c`, `mm_camera_thread.c` in
`src/camera/QCamera2/stack/mm-camera-interface/src`,
MJ = `src/camera/QCamera2/stack/mm-jpeg-interface/src/mm_jpeg.c`.

## 1. Inventory

### The camera HAL (HAL1)

| Component | State | Operations | What is hard | What makes it correct |
|---|---|---|---|---|
| **QCameraStateMachine** (SM) | `api_queue`, `evt_queue`, `m_state` (8 states), delayed messages, `m_RestoreZSL` | `procAPI`, `procEvt`, `releaseThread`; one handler per state and event, run by one thread | API requests overtake events; a handler may fail half-way; results may be deferred to a later event | the state and the channels agree; every request has exactly one result; nothing asked for is forgotten |
| **HWI: methods** | `m_lock`, `m_cond`, `m_apiResultList` | `lockAPI`, `processAPI`, `waitAPIResult`, `signalAPIResult`; ~40 `camera_device_ops` | waits without timeout; several requests per method; two threads in the same method; broadcast wake-ups | calls return; a caller gets its own result; no result is left over |
| **HWI: channels** | `m_channels`, `m_bNeedRestart`, `mLongshotEnabled`, `mPrepSnapRun`, `bRetroPicture` | prepare/start/stop preview, take/cancel picture, start/stop recording, live snapshot | early returns that undo different parts; a decision that depends on the mode *now* | a stopped mode leaves no channel; a running one has its channel |
| **HWI: live snapshot thread** | `mLiveSnapshotThread`, `mSnapshotType`… | `takeLiveSnapshot`, `cancelLiveSnapshot` | runs next to the state machine thread, on the same channels | stays inside `VIDEO_PIC_TAKING` or its cancellation |
| **HWI: deferred work** | `mDeferredWorkQueue`, the slots with `mDeferredIndex` | `queueDeferredWork`, `waitDeferredWork`, `dequeueDeferredWork`, the worker | a slot is reused; waiters of a job that is gone | a waiter sees the result of its own job |
| **QCameraCbNotifier** (CB 3112-3560) | data queue, `mActive`, snapshot counters | `notifyCallback`, `startSnapshots`, `stopSnapshots`, `flushPreviewNotifications`, worker | commands are enqueued at the head, so they reorder; the thread waits for the state machine | SNAPSHOT_DONE once per capture; no callback after the stop; every buffer released |
| **QCameraPostProc** (PP) | queues of input, ongoing JPEG/PP jobs; `m_bInited`, `m_bReset` | `start`, `stop`, `processData`, JPEG and reprocess callbacks, two threads | a stop while a job is at the encoder | every input frame ends in a JPEG, an error or a release |
| **QCameraQueue, QCameraCmdThread** (`util/`) | list, `m_active`; command queue, semaphores | `enqueue`, `enqueueWithPriority`, `dequeue`, `flush`; `launch`, `sendCmd`, `exit` | `sendCmd` waits for one command by a shared semaphore | nothing lost, no second owner of a node |
| **QCameraParameters** (PARAM) | string map, `m_tempMap`, batch of pending values, decoded values | `updateParameters`, `commitParameters`, `setX` | a value is in four places (string, temporary, pending, in force) | values in force are the ones that were accepted |
| **QCameraChannel / Stream / Mem** | streams, buffers and their reference counts, data threads | `start`, `stop`, `bufDone`, `dataNotifyCB` | buffers shared by display, encoder and daemon | a buffer is returned once |
| **QCameraMuxer** | composition queues of main and aux JPEG | dual-camera forwarding | two sessions in step | not enabled on this device |
| **QCameraPerf, Flash, Display, ThermalAdapter, Common** | reference counts, torch state, vsync history | acquire/release, torch modes | counts and a timer | lock held while somebody needs it |
| **Factory, Hal, wrapper** | camera table, callbacks | open, info | none | forwarding |

### The camera3 HAL

| Component | State | Operations | What is hard | What makes it correct |
|---|---|---|---|---|
| **QCamera3HardwareInterface** (H3) | `mState`, `mPendingRequestsList`, `mPendingBuffersMap`, `mPendingFrameDropList`, `mPendingLiveRequest`, the batch, `mFlush` | `configureStreams`, `processCaptureRequest`, `flush`, `captureResultCb`, `handleCameraDeviceError` | metadata and buffers of a frame race; a request is answered from four threads; flush and errors give up the lock half-way; a sensor restart walks the pending lists without it | each request and each buffer is answered exactly once; an error is final; the framework is neither blocked for ever nor let run ahead |
| **QCamera3Channel, Stream, Mem, PostProc** | streams, buffers, jobs | forward requests and frames | as in HAL1 | as in HAL1 |

### The vendor stack

* **mm-camera-interface, streams** (MST, MTH): per stream a state, a counter per
  buffer, the driver's buffers, a callback thread; per channel a poll thread with a
  command pipe.  Hard: four threads give buffers back; a stream leaves and enters the
  poll set by itself; a stop in the middle of a frame.  Correct: the hardware never
  writes into a buffer somebody holds, none is lost, every filled frame is read, start
  and stop end.
* **mm-camera-interface, channel** (MCH): the super-buffer queue that puts the frames
  of the streams together, and the control of the daemon's snapshot mode (LED, bracketing,
  long shots).  Hard: streams at their own pace that lose frames; metadata that moves the
  awaited frame; requests, cancellations and flushes at any time.  Correct: no frame
  stays outside the driver, sets are of one frame and in order, the queue is bounded,
  snapshot mode is paired.
* **mm-jpeg-interface** (MJ): sessions, a queue of jobs that wait and one of ongoing jobs,
  a thread woken by a semaphore that gives jobs to the encoder, the encoder's callbacks.
  Hard: a job is aborted, or its session destroyed, while the encoder has it or its callback
  runs; a token is used up although the encoder is busy.  Correct: after an abort the encoder
  no longer reads the buffers; a job that was started ends or is aborted.
* **mm-lib2d-interface, mm-image-codec**: thin wrappers.

### GPS, other services, data

* **gps**: `Agps.cpp` (AGPS connection state machine with subscribers), `msg_q.c`
  (blocking queue), `LocTimer.cpp` (timer heap and expiry), `LocApiBase`,
  `LocAdapterBase` (message passing).
* **fingerprint, light, audio_amplifier, touch, nfc, dpm, ims, devicesettings**:
  wrappers of sysfs files and vendor libraries.
* **overlays, sepolicy, init scripts, make files**: data, nothing runs.

### How the parts interact

```
application threads --m_lock--> HWI methods --procAPI--> api_queue --+
daemon events, CbNotifier, PostProc ----procEvt----> evt_queue ------+--> SM thread
      ^                                                                      |
      |   m_apiResultList + broadcast  <--signalAPIResult-------------------+
      |   m_evtResult (CbNotifier)     <--signalEvtResult-------------------+
SM thread --calls--> HWI channel methods --> mm-camera / daemon
SM thread --pthread_create/join--> live snapshot thread --> HWI channel methods
driver --frames--> poll thread --> channel's queue --super-buffers--> HAL (ZSL, snapshot)
                              \--> callback thread --> mDataQ --> HAL's stream thread
HAL (any of its threads) --mm_stream_buf_done--> driver
camera3 framework --requests--> H3 lists <--metadata, buffers-- channel callbacks
PostProc --procAPI(STOP_CAPTURE_CHANNEL), nobody waits--> api_queue
```

## 2. Plan

| # | Module | Composes | Status |
|---|---|---|---|
| 1 | `QCamera2Hardware` | – | done |
| 2 | `QCameraStateMachine` | EXTENDS 1 | done |
| 3 | `StateMachineEnv`, `MCStateMachine` | EXTENDS 2, any callers | done |
| 4 | `QCamera2HWI`, `MCQCamera2HWI` | EXTENDS 2, the real callers; implements 3 | done |
| 5 | `QCamera2Hardware_proofs`, `QCameraStateMachine_proofs`, `StateMachineEnv_proofs`, `QCamera2HWI_proofs`, `QCamera3HWI_proofs`, `MmCameraStream_proofs`, `MmCameraChannel_proofs`, `QCameraPostProc_proofs` | – | done for the invariants, step properties and the refinement of section 5 |
| 6 | `QCamera3HWI`, `MCQCamera3HWI` | – (its channels are what the daemon owes) | done |
| 7 | `MmCameraStream`, `MCMmCameraStream` | streams, poll thread, `QCameraStream` with its queue | done |
| 8 | `MmCameraChannel`, `MCMmCameraChannel` | the matching queue; 7 has it as `chan` | done |
| 9 | `MmJpeg` | – | done |
| 10 | `QCameraPostProc`, `MCQCameraPostProc` | EXTENDS 9; post-processor, notifier, the SNAPSHOT_DONE handshake (`processSyncEvt`), the two deferred jobs of a capture | done |
| 11 | `DeferredWork` | job slots, waiters, the worker | planned |
| 12 | `QCameraQueue`, `QCameraCmdThread` | an abstract mailbox, implemented by the queue with its semaphore | planned |
| 13 | `Agps`, `LocTimer`, `MsgQ` | GPS state machine, timers, queue | planned |

Abstract specifications worth stating: `StateMachineEnv` as what the callers
promise (done); a *mailbox* for queue plus thread; *one result per job* for
deferred work.

Theorems worth proving: type correctness of every module; `RecordingHasVideo`,
`DelayedMsgsKept`, `MsgsKept`, `LiveSnapshotContained` when threads can be created,
that `QCamera2HWI` implements `StateMachineEnv`, the safety properties of `QCamera3HWI`, the
five invariants of `MmCameraStream`, all that is checked of `MmCameraChannel`,
`FramesAccounted` of `QCameraPostProc`, `StoppedHasNoPreview` without the early restart (done);
the mailbox refinement.

## 3. What the modules are

### `QCamera2Hardware`: the object the handlers work on

One record `hw` with the five channels (`"null"`: no object; `"added"`: not
streaming; `"started"`), the parameters that decide which channels exist (ZSL
mode and recording hint, each as string in the map, string in `m_tempMap`,
pending value and value in force), and the flags the handlers look at.  A method
is an operator from an object to the *set of its outcomes* `[rc, hw]`.  With
`MayFail` each early return for a reason outside this code is an outcome, with
the object as that return leaves it; without it only the failures this code
itself decides on remain (a channel that does not exist).

`raised` is the SNAPSHOT_DONE event that `cancelPicture` inside a longshot
command posts; `Finish` moves it to the event queue.

### `QCameraStateMachine`: both threads

One action per group of `case` labels that have the same code, named after the
state and the request (`PreviewingTakeZsl`, `VideoPicStopRecording`, …); the
disjunction per state has the name of its C++ function
(`procEvtPreviewingState`).  `On(s, E)` is the guard (the command taken, the
state), `Finish(s, h, rs)` the end: the state, the object, the results in the
order of the `signal…Result` calls, the queues.  Results are kept in `replies`,
so that signalling them is a step of its own and a caller may wake between two
of them.  `Next_cmd` is the rule of `smEvtProcRoutine`: API queue first.

A handler is one action because what it changes belongs to the state machine
thread.  The only other writer is the live snapshot thread (`live`, actions
`LiveTakeStarts`, `LiveTakeFails`, `LiveTakeAbandoned`, `LiveCancel`), whose steps
come between handlers; a handler that starts a new one first joins the old one
(`Joined`), as `takeLiveSnapshot` and `cancelLiveSnapshot` do.

`from`, the sender of a command, is a ghost carried through the queue to the
result.  `QUERY` stands for the requests that change nothing modelled.

### `StateMachineEnv`: any callers

Any sender posts any request with any payload at any moment, the daemon raises
any event, `EXIT` comes whenever it likes, `take_picture`'s writes without a
request (`bRetroPicture`, `mPrepSnapRun`) happen at any time.  What holds here
does not depend on the discipline of the callers.

### `QCamera2HWI`: the real callers

A thread of the application is a record `call[t]`: method, current request, and
where it stands (`out`, `next`, `wait`, `woken`).  `Issue` is `lockAPI` +
`processAPI` up to the first wait; `signalAPIResult` appends to
`m_apiResultList` and wakes *every* waiter, as the broadcast does; a woken thread
takes the *first* result of its kind (`Answered`) or waits again (`NotYet`).  The
methods with several requests have one action per continuation: `ContinueParams`
posts the next request of `set_parameters` without giving up the lock, while
`start_recording` and `take_picture` release it in between.  `owed` is what the
outside still has to deliver: the flash, the retro-active and other frames, the
frame and the last JPEG of a running post-processor.

`OpenSpec` (`Env!Spec` with `Requests <- ApiEvt`, `Events <- InternalEvt`) says
that these callers are callers in the sense of `StateMachineEnv`.

### `QCamera3HWI`: the life of a camera3 request

The framework's request thread and its flush thread are the records of `thread`;
`pc = "out"` is outside the HAL.  What H3 does between a lock and an unlock of `mMutex`
is one action; where the code goes on without the lock (the end of `initialize`, the
stopping of channels in `flush` and `configureStreams`, the restart of the sensor for
an HFR request), the next part is an action of its own.  `processCaptureRequest` is the
disjunction of what may become of a request: left to a flush, refused by a channel,
interrupted for a sensor restart, or accepted, then waiting while too many are in flight
(`Woken`, `TimedOut`).  `due` is what the daemon and the channels work on.
`asked`, `accepted`, `sent`, `shutter`, `final` and `back` are the framework's books,
which the properties are about.

`notifyErrorForPendingRequests` is called from two places.  `flush` holds `mMutex` (H3 4222):
there it is one action.  `dynamicUpdateMetaStreamInfo` does not (H3 9829; the lock was given up
at 3817): there it is a loop of its own, `walk`, with one action for the read of the first
pending number (`WalkBegins`), two for each entry, the erasure from the map (`EntryErased`; the
entry is then in `walk.hand` only) and the answer with the erasure of a request
(`EntryAnswered`), and one for the end, where the channels are started or, when that fails, the
request is refused with BAD_VALUE (`WalkEnds`, H3 3818-3822).  Between any two of them the flush
thread, an error and the daemon go on.

If `flush` runs its own loop while that one is on, two threads erase from the same two lists and
only one of them holds a lock: the code's behaviour is undefined.  `Overlapped` lets any entry be
answered once or twice and erases any number of requests, and the ghost `raced` records it.
What can come of memory that was freed under the other loop is not modelled.  From
there on nothing is claimed of the lists: `Accounted`, `AnsweredOnce`, `LiveCount`,
`FlushAnswersAll` and `EveryRequestAnswered` name `raced` as their exception.  A restart that
begins its loop when flush is half-way through its own is the same overlap; the model orders it
as `WalkBegins` before `flush`.  A flush that has ended its loop before the restart begins, or begins
after the restart has ended, is no overlap and is not excepted; neither are the parts of flush before its loop.

The framework's part of the contract: in a high-speed session each request has a video
buffer; a reprocess request has JPEG outputs only; `configure_streams` is called when
all accepted captures have ended.  Flush and reprocessing are not combined: the loop of
`notifyErrorForPendingRequests` erases the first pending request for each entry of the
buffer map, and a reprocess request whose input is back but whose JPEG is not is
such an entry without a request.

### `MmCameraStream`: one buffer, many holders

The streams of one channel, each with its driver, its callback thread, and the thread
and queue of its `QCameraStream`; one poll thread.  The poll thread's work on a frame is
five steps (`PollDequeue`, `PollCount`, `PollRef`, `PollChannel`, `PollNode`), since the
counter, the driver's count and the queues have locks of their own.
`mm_stream_buf_done` is four steps (`BufDoneCheck`, `BufDoneDec`, `QbufCount`, then
`QbufIoctl` or `QbufFails`), run by any of the four `Returners`.  `ctl` is the thread that
starts and stops the channel, slot by slot, with the undoing of a failed start.
Commands to the poll thread go through `pipe`; a synchronous one waits for `status`.

### `MmCameraChannel`: frames that belong together

`ch` is the `mm_channel_t` with its queue; a step is one run of
`mm_channel_process_stream_buf`, which one thread calls for every frame and every
command in the order in which they were queued; the queue in front of it is therefore
left out.  `HandleMetadata`, `Enqueue` (with `Fill`, `Complete`, `AddNode`, `Victims`),
`ZslControl` and `Deliver` are the functions of the code; `Loop` is a loop over the queue,
a recursive function whose length is that of the queue when it begins.  `attr` is the kind of
channel the HAL makes and what its environment may do.  `AttrsAssumption` types it, and says
that a channel with LOW priority has one stream besides the metadata: only
`addSnapshotChannel`, for the live snapshot, makes such a channel.

### `MmJpeg`: the encoder's jobs

One client with one session.  `mgr` is the thread of `mm_jpeg_jobmgr_thread`, `omx` the
OMX component with its callback (which holds the session's lock from `Encoded` to
`JobDone`), `client` the call that holds `job_lock` while `mm_jpeg_session_abort` waits for
the encoder.  `ManagerEncodes`, `EncodeFails`, `Encoded`, `JobRemoved`, `JobDone` are the
steps of a job, `abort_job`, `destroy_session` with `session_abort` and `SessionAborted`
what takes it back.  Ids are unique here: `job_hist` survives in the slot of the session and
wraps after 10000.

### `QCameraPostProc`: frames become pictures

Seven threads: the callbacks of the source and of the reprocess channel (`src`, `rep`), the
data thread (`data`) with its command queue, the deferred thread (`def`), the state machine's
thread (`sm`), the notifier (`ntf`), and MmJpeg's.  `q` has the four queues of frames and
jobs; `sc` is the capture: ZSL or regular, reprocessed or not, how many pictures.  A buffer is
`<<frame, "source">>` or, for what reprocessing made of it, `<<frame, "output">>`; `back`
counts how often it was returned, `kept` has those that the code drops without returning
them.  STOP_DATA_PROC is seven actions (`DataStop` to `FlushInputPP`), because each queue has its own lock
and the other threads go on in between (`flushNodes` is what `QCameraQueue::flushNodes` takes out,
with a predicate or without); so is the handling of a JPEG event (`processJpegEvt`,
`sendDataNotify`).  `sendCmdFirst` is `enqueueWithPriority`.

Of the state machine only the capture is here, since the other modules have the rest:
"PREVIEWING" stands for every state that treats the three inputs as PREVIEWING does,
"PIC_TAKING" also for PREVIEW_PIC_TAKING.

Names that contain an underscore and a verb (`AfterParams_SkipsCommit`) are
mutations: plausible bugs, defined next to the operator they would replace,
that show that the properties can fail.

## 4. What the runs check

Open callers (`MCStateMachine`).  Bounds: one sender; `MaxPending = 1`, no post
while a command is queued, except by the live snapshot thread – with any
request possible at any moment a longer queue only delays requests, since
handlers never look into the queues; `SignalFirst`, results are taken at once –
a signal commutes with every other step.  Each run has the requests of one use of
the camera; together they have all.  In `_photo`, `RestartAfterStop`: SET_PARAMS_RESTART comes after
the SET_PARAMS_STOP that `set_parameters` posts before it (without it `StoppedHasNoPreview` is false,
see below); and `OneByOne`: no long shots, and no flash made ready before the picture, to keep the failing calls
within reach.  Failing calls are left out of `_open`, because its four properties are proved for them
too (section 5).

| Run | Callers | Properties | Shows |
|---|---|---|---|
| `MCStateMachine_photo` | ZSL, retro and regular pictures, recordings begun during one, the events of a capture and the daemon's death; calls and `pthread_create` fail | `StoppedHasNoPreview`, `RecordingHasVideo` | PREVIEW_STOPPED leaves no channel, along the still-picture paths and their failures; a recording state has a streaming VIDEO channel |
| `MCStateMachine_open` | windows, messages, recordings with live snapshots, pictures with preview restarted during encoding, all events; no call fails | `SmTypeOK`, `DelayedMsgsKept`, `LiveSnapshotContained`, `MsgsKept` | an enabled frame message is taken back by DISABLE only; the live snapshot thread and its channel stay inside their state |

Real callers (`MCQCamera2HWI`).  Bound: `FewResults`, at most 3 untaken
results; `owed` and the queues are bounded by the callers, who wait.

| Run | Callers | Properties | Shows |
|---|---|---|---|
| `_modes` | pictures and recordings under all settings | `TypeOK`, `PreviewingStreams`, `SyncCall`, `PostprocOnlyInCapture`, `ZslInForce` | preview streams in PREVIEWING; no capture ends with the post-processor running; requests have a waiting caller; accepted modes are in force |
| `_retro` | retro pictures, not cancelled; the daemon may die | `CallsReturn`, `OpenSpec`, `DeathStopsWait` | every call returns; the callers implement `StateMachineEnv`; the death answers the waiters |
| `_two` | two threads, with the early restart of preview (`RestartEnabled`, `ManualCapture3`) | `NoSpareResult`, `CallsReturn` | never more results than takers; no set of calls hangs |
| `_bad_mode` | recordings and settings | `ModeFixedWhileRecording` fails | finding 1 |
| `_bad_death` | all frames of a retro picture are retro-active | `DeathStopsWait` fails | finding 2 |

One thread is the usual client (the camera service serialises calls); the second
thread of `_two` is where results could be confused.  Failing calls are left to
the open runs, which have every order of requests anyway.

The camera3 device (`MCQCamera3HWI`).  Bounds: two streams (video and JPEG), two or
three frames per session (`MaxFrame`; the third lets a second batch begin, or a
request meet two that are in flight), batches of 2; sessions repeat without bound.
A restart of the sensor finds a complete batch in the lists, so its loop has up to two entries,
each of them with or without its request.  Failing calls in an HFR session, the refusal after a
failed restart among them, are a scenario without flush (`Broken`), since the two together are too many
states; the theorems have no such bound.
`MinInFlight` and `MaxInFlight` are 2 or 3 and 2 or 4 instead of the code's numbers, so that
three frames reach both limits.

| Run | Scenarios | Properties | Shows |
|---|---|---|---|
| `MCQCamera3HWI_live` | HFR with flush; HFR with failing calls; failing calls with flush; a dying daemon; reprocessing | `TypeOK`, `Accounted`, `AnsweredOnce`, `LiveCount`, `FlushAnswersAll`, `ErrorSticks`, `EveryRequestAnswered` | every accepted request gets each answer once, in the end or when flush returns, if no flush walked the lists in the middle of a restart's loop; the counter the caller waits on is right; ERROR is left by closing only |

The stack (`MCMmCameraStream`, `MCMmCameraChannel`).  Two streams of two buffers each are
enough for every order of the four returners on one buffer while the driver runs dry
or not; `MaxPipe = 1` command may be left in the pipe at a start (they only make the
poll thread look at `poll_entries` once more).  How many buffers the hardware keeps
(`reserve`) is an assumption about the driver: with a metadata stream that can run dry
and a channel that stops, finding 3 appears, so the passing run has such a stream in
a channel that does not stop, and a reserve of one where it does.  The channel has up to
three streams and five frames, more than `unmatched + water + frameSkip`, so that nodes
are given up and matched ones are dropped; `DivertMod = 4` stands for 2^8 and
`Future = 2` for `MM_CAMERA_MAX_FUTURE_FRAME_WAIT`.

| Run | Instance | Properties | Shows |
|---|---|---|---|
| `MCMmCameraStream_live` | snapshot and metadata streams; never stopping, stopping, and failing drivers | `TypeOK`, `NotWrittenWhileHeld`, `NoneLost`, `KernelCount`, `StoppedIsQuiet`, `FramesRead`, `ControlEnds` | no buffer is written while held, or lost, except in the two ways the code has; each filled frame is read; start and stop end |
| `MCMmCameraStream_bad_stop` | the metadata driver runs dry while the channel stops | `StoppedIsQuiet` fails | finding 3 |
| `MCMmCameraChannel_zsl` | diverted frames; flash and long shots; bracketing and flushes; live snapshot; offline raw | `TypeOK`, `NoBufferLost`, `MatchedFirst`, `QueueBound`, `NothingWithheld`, `ZslPaired`, `InOrder` | the matching queue keeps its frames, order and bound, and the snapshot mode its pairs |

Pictures (`MCQCameraPostProc`).  Four captures (`LiveScenarios`): a regular picture,
reprocessed, after one that may have been cancelled; two ZSL pictures, reprocessed, while the
encoder fails at any of its calls; two ZSL pictures encoded at once, cancelled at any moment;
two plain pictures one after the other.  `PPBufs = 1` and `Concurrent = 1`: two frames then
meet both limits, and a frame waits in every queue.  A cancellation is combined with captures
of one picture, or with a single capture of two; with two captures of two a SNAPSHOT_DONE left
over from a cancelled capture may end the next one (see below).

| Run | Captures | Properties | Shows |
|---|---|---|---|
| `MCQCameraPostProc_live` | the four above | `TypeOK`, `FramesAccounted`, `PictureArrives` | a buffer is in one place and goes back once, not while the encoder or the daemon reads it; a reprocessed frame meets its own job; nothing is left behind; a picture or an error arrives |

`FramesAccounted` has five parts: `OnePlace`, `EncoderOwns`, `DaemonReads`, `OwnJob` and
`NothingLeft`.  `PictureArrives` names the two ways in which a cancelled capture spoils the next
one (`Overtaken`, `StoppedEarly`), both of which TLC finds when they are not excepted.

**Deadlock** is checked in every run but two: the application may always call again, so
a deadlock would be a hanging call.  `MCMmCameraChannel_zsl` and `MCQCameraPostProc_live` say
`CHECK_DEADLOCK FALSE`, because the frames of the one and the captures of the other come to an
end.

**Fairness.**  `Fairness` of `QCamera2HWI`, used by `_retro` and `_two`: weak fairness
of each application thread inside the HAL (`Proceed`; not of `Enter`: nobody has to
call), of the state machine thread, its signals and the live snapshot thread, which are
ordinary threads that are never starved; and of `DaemonEvent`, the daemon's answer
to an accepted PREPARE_SNAPSHOT or retro picture.  There is no fairness for the end of a
capture, the JPEGs, or the death of the daemon.  `Fairness` of `QCamera3HWI`: the two
threads once they are inside the HAL, the metadata callback and the buffers' callbacks
– the daemon delivers what it was given, as `EveryRequestAnswered` presupposes; none
for the framework's calls, the daemon's pull or its death.  `Threads` of
`MmCameraStream`: the poll thread, the channel's thread, the callback and HAL threads, a
start or stop once begun; none for the hardware that fills buffers, for the application
that returns them, or for a stop to begin.  `Fairness` of `QCameraPostProc`: its threads, the
encoder, which ends what it began, and the daemon, which delivers the frames it was asked for;
none for failures or for the application, which need not call.  Weak fairness suffices: each of these
actions stays enabled until it, or another step of its thread, is taken.

### Findings

1. **Refused parameters come into force** (`_bad_mode`).  In RECORDING,
   SET_PARAMS stores the new values with `updateParameters` before it looks at
   `m_bNeedRestart` (SM 2433), answers BAD_VALUE and leaves them pending; the next
   accepted SET_PARAMS commits them.  SM 2436: "cannot set parameters that requires
   restart during recording".
2. **The death of the daemon does not stop a wait** (`_bad_death`).  A retro picture
   prepares the flash after TAKE_PICTURE was answered; if all its frames are
   retro-active, SNAPSHOT_DONE can bring the machine back to PREVIEWING, where
   neither the flash event nor the daemon's death (SM 1665) becomes a result.
   SM 1849: "Send internal events to stop indefinite wait on prepare snapshot done
   event".
3. **A stream stops under the poll thread** (`MCMmCameraStream_bad_stop`).  When the
   driver has no buffer left, the poll thread takes the stream out of `poll_entries`
   (MST 1494) and goes on with the frame.  A STOP that comes now finds no entry, so
   `mm_camera_poll_thread_del_poll_fd` (MTH 494) returns without waiting, and stream-off
   and UNREG_BUF run while the poll thread is still inside `mm_stream_data_notify`.
   MST 1216 says "The error might be due to async update. In this case wait for all
   updates to complete before proceeding."

### Observed while choosing the bounds, without a run

* `waitAPIResult` (HWI 6555) takes any result of its kind: of two threads in the same
  method one may return while its own request is still queued (`SyncCall` fails with
  two threads).  SM 84: "API is in a way sync call, so evt_payload is managed by HWI".
* Without the daemon's death the same retro picture hangs too; so does a retro
  picture that is cancelled between its TAKE_PICTURE and the flash.
* With `persist.camera.feature.restart`, preview is restarted inside PIC_TAKING
  (SM 2290) and STOP_PREVIEW or CANCEL_PICTURE then only cancel the picture:
  PREVIEW_STOPPED is reached with PREVIEW streaming (`StoppedHasNoPreview` is
  false).  Without manual capture type 3, SNAPSHOT_DONE can overtake
  STOP_CAPTURE_CHANNEL and reach PREVIEWING with no preview channel.
* `m_RestoreZSL` starts as TRUE; with the early restart a regular capture can
  switch ZSL on.  A CANCEL_PICTURE in PIC_TAKING does not restore ZSL.
* LONGSHOT_OFF in PIC_TAKING moves to PREVIEWING whether or not a longshot was on:
  in a regular capture no preview channel exists and the post-processor runs on.
* In a longshot, a SET_PARAMS_RESTART that no SET_PARAMS_STOP precedes and that fails
  early leaves PREVIEW streaming in PIC_TAKING.  `set_parameters` never posts that.
* A SNAPSHOT_DONE that is still queued when its capture is cancelled ends the next
  capture if the application is fast enough: API requests overtake it.  A retro
  picture that was not answered yet then hangs; this is why `_retro` has no
  cancellation.
* `m_bNeedRestart` is shared: two threads in `set_parameters` can commit a mode
  without the restart it needs (`PreviewingStreams` fails with two threads).
* A failed rotation in `takeLiveSnapshot_internal` tells nobody (`LiveTakeAbandoned`):
  VIDEO_PIC_TAKING lasts until the application cancels.
* The results of STOP_CAPTURE_CHANNEL and of a retro SNAPSHOT_DONE are taken by
  nobody and pile up in `m_apiResultList`; the model leaves them out of the list.
* With `persist.camera.feature.restart` a retro picture can hang as well (`CallsReturn` is
  false in `_retro` with the setting).
* H3: `dynamicUpdateMetaStreamInfo` tells of the errors without `mMutex` (H3 9829), and flush
  does the same under it (H3 4222), on another thread: when the two loops meet, an entry may be answered by both, and
  flush may return while the restart still holds an entry that it has erased (H3 10044, 10095) and
  not answered (10046, 10097).  Without the exception `raced` TLC finds `AnsweredOnce` violated.  No comment
  of the code says that the two exclude each other, so this is no finding but an exception.
* H3: a flush whose `setBundleInfo` fails returns with `mFlush` TRUE (H3 4209); later
  requests are accepted and wait for the next flush.  `initialize` and the sensor restart
  assign `mState` after they gave up the lock and overwrite an ERROR (H3 868); `ErrorSticks`
  names these two.  A request that times out after five seconds fails although the
  daemon has it.  In all instances the entries of the buffer map that notify an error are
  those of the pending requests, so that the loop never erases past the end.
* MCH: `diverted_frame_id` is a `uint8_t` (`mm_camera.h` 481), so a diverted frame above 255
  is not waited for.  `led_off_start_frame_id` is 0 until metadata brings good frames (MCH
  2622): a burst with the flash may lose it at once.  The flush of one stream type
  takes every node out of the queue but returns the frames of that type only (MCH 3220);
  its one caller is the undoing of a failed start of linked streams (MCH 1611).  LONGSHOT_OFF stops
  the snapshot mode only if a capture runs (HWI 5627-5637); a long shot that was cancelled
  first leaves `manualZSLSnapshot` set until the next one.
* PP, notifier: START and STOP are both put in front (CB 3435).  If the STOP of a cancelled
  capture is not handled yet when the next one begins, the notifier handles START first, then the
  older STOP: the JPEGs of the new capture are dropped and SNAPSHOT_DONE never comes
  (`Overtaken`).
* PP: a JPEG event of a cancelled capture that is handled in the next one is counted there; its
  DO_NEXT_JOB makes the data thread post STOP_CAPTURE_CHANNEL, as every DO_NEXT_JOB of a regular
  capture does (PP 3224), and the channel may stop before the new frame (`StoppedEarly`).  A
  SNAPSHOT_DONE that is left over ends the next capture in the same way.
* PP: the job's id is stored after `start_job` has returned (PP 2517).  If the JPEG event comes first,
  no job has that id and the frame stays in `m_ongoingJpegQ` until the capture stops; `OnePlace` and
  `NothingLeft` hold, as the stop releases it.
* PP: STOP flushes `m_ongoingPPQ` before the reprocess channel stops (HWI's `cancelPicture` comes
  later), so the sources go back while the daemon may still read them (`DaemonReads` excepts this).
  A `doReprocess` that fails frees a job that is still in `m_ongoingPPQ`; the model has no
  failing `doReprocess`.
* PP: a `notifyCallback` that fails releases the JPEG's memory, and so does its caller.
* `PostprocOnlyInCapture` is false when calls fail: `takePicture`'s error paths leave the
  post-processor started.  No comment promises otherwise.

## 5. What is proved

For every set of senders, requests, events and settings, every queue length, with
and without failing calls, TLAPS checks of the state machine (`StateMachineEnv_proofs`):

| Theorem | Statement |
|---|---|
| `TypeCorrect` | `Spec => []SmTypeOK` |
| `RecordingStreams` | `Spec => []RecordingHasVideo` |
| `DelayedMsgsAreKept` | `Spec => []DelayedMsgsKept` |
| `MsgsAreKept` | `Spec => MsgsKept` |
| `LiveSnapshotIsContained` | `~NoThread => (Spec => []LiveSnapshotContained)` |
| `StoppedIsStopped` | `~RestartEnabled => (Spec /\ []RestartsBare => []StoppedHasNoPreview)` |

Assumptions: those of the modules on their constants (`MayFailAssumption`,
`StateMachineAssumption`, `EnvAssumption`), which TLC evaluates on every run.

The argument.  The inductive invariant is `SmInv == SmTypeOK /\ RecordingHasVideo /\
DelayedMsgsKept`.  The types are needed because a handler passes on whatever the
method returned: `QCamera2Hardware_proofs` shows of each method that its outcomes are
typed, and of those that a recording state calls what they do to the VIDEO channel
(`SendCommandType`, `UpdateParametersType`, `CommitType`: nothing;
`StartRecordingType`: it streams if the code is NO_ERROR).  In
`QCameraStateMachine_proofs`, every handler `Ends` – some state, object and results
such that a recording state has its VIDEO channel – and leaves the `Rest` in order:
the messages (`FrameMsgs`), the other variables.  `EndsInv` turns the two into
`StepInv`, the invariant afterwards plus the step property `KeepsMsgs`;
`StateMachineInv` collects the handlers, `LiveThreadInv` adds the live snapshot
thread, which touches SNAPSHOT only.  `StateMachineEnv_proofs` shows that the callers
change neither channels nor messages (`CallerStepInv`) and closes the induction.

`LiveSnapshotIsContained`: only the live snapshot thread starts the SNAPSHOT channel, which
`Quiet` says of every method that a handler calls, one lemma each.  What is left is the
bookkeeping of the thread: `LiveStep` follows the one thread id from its creation in
`takeLiveSnapshot` to the join in `cancelLiveSnapshot`.  `NoThread` (`pthread_create` fails)
must be excluded: without a thread to cancel the snapshot the handler still leaves
VIDEO_PIC_TAKING, and the channel streams on.

`StoppedIsStopped`: PREVIEW_STOPPED leaves no channel.  It is not inductive, because PIC_TAKING
takes preview for stopped: its STOP_PREVIEW and CANCEL_PICTURE only cancel the capture, and go on
to PREVIEW_STOPPED.  The invariant is `DarkIsBare`: in both states the object is `Bare`, without
any channel of preview or recording.  The lemmas say of each method whether it deletes them all
(`StoppedBare`), leaves a bare object bare (`KeepsBare`), or fails in a way that does
(`ReadyStartedBare`); a regular `takePicture` needs `stopPreview` to have come first, and a capture
that fails to go through `prepareStartOrUndo`.  The two conditions are needed, and the code makes them true or false:
`RestartEnabled` is a setting of the vendor (`persist.camera.feature.restart`, not set on this
device) that starts preview inside PIC_TAKING (section 4).  `RestartsBare` is about the callers: a
SET_PARAMS_RESTART in PREVIEW_READY or PREVIEW_PIC_TAKING finds the object bare, since a
failure there leaves for PREVIEW_STOPPED and deletes only what it was about to add.  The
environment may post such a request at any time, which is why the theorem has this condition and the run
`_photo` its `RestartAfterStop`; that `set_parameters` keeps to it is proved for the real callers
(`CallsLeaveStopped`, below).

**The camera3 device** (`QCamera3HWI_proofs`).  For every set of streams, with any of them
video or JPEG, every set of batch sizes, any bounds on the requests in flight and any number
of frames:

| Theorem | Statement |
|---|---|
| `ErrorIsNotForgotten` | `Spec => ErrorSticks` |
| `BooksKept` | `Spec => []Books`, where `Books` is `raced \/ (Base /\ Walks)` |
| `EveryFrameAnsweredOnce` | `Separate => (Spec => []AnsweredOnce)` |
| `EveryRequestAccounted` | `Separate => (Spec => []Accounted)` |
| `FlushLeavesNothing` | `Separate => (Spec => FlushAnswersAll)` |
| `RequestsTypeCorrect` | `OneMode => (Spec => [](raced \/ TypeOK))` |
| `LiveRequestsCounted` | `OneMode => (Spec => []LiveCount)` |

`ErrorIsNotForgotten` needs no invariant: each step that assigns `mState` looks at it under
the same lock, except the two that the property names.

The other properties are not inductive: that a frame does not end twice depends on both lists,
on what the daemon owes and on the place of both threads.  `Base` and `Walks` hold of them in every
scenario, until a flush overlaps with the loop of a sensor restart (`raced`, section 3; the
properties `AnsweredOnce`, `Accounted`, `LiveCount` and `FlushAnswersAll` name it themselves).  The buffers
the framework waits for are those in the map and those in `walk.hand` (`Owed`).  The parts of `Base`: `Lists`, the two lists are increasing, a pending request has not ended and
has an entry with all its buffers that is still owed, and what such an entry has was not
given back; `Dues`, a buffer that is due is in the map and did not arrive before, so no callback
can return a buffer that flush has returned; `Fresh`, nothing is known of a number that was not
asked for, where a request that restarts the sensor has a number but is in no list (`Unseen`);
`Ordered`, without reprocessing an entry of the map without a request is older than every
request; `Places`, when a thread is about to clear the lists nothing is due and no callback
runs, which is where the order of `stopAllChannels` and `notifyErrorForPendingRequests` matters.
Most steps are `Quiet`: they touch no list, and one lemma (`QuietBooks`) serves them all.
`Walks` is about the unlocked loop: it is on only at its place, where the channels are stopped; the entry in its hands is older than
every one in the map; the number it read at its start stays at or below every pending one, since only the
loop itself erases; without reprocessing each entry from there on has its request, which is then the
first of the list when `EntryAnswered` erases it.  So each of its steps keeps the books although
errors, the daemon and the flush thread, up to flush's own loop, come in between
(`WalkBeginsStep`, `EntryErasedStep`, `EntryAnsweredStep`, `WalkEndsStep`), and when the loop
ends nothing is pending.
`NotifyClears` computes what the loop of `notifyErrorForPendingRequests` does to every frame,
from the number of entries of an increasing list (`CountNumbers`, by a bijection).

On `Base` and `Walks` stand two more inductive invariants.  `Told` says of every frame that it ended at most
once, and of an accepted one that it ended or is pending; `Alone` is what it needs about
reprocessing.  `Counting` says that `mPendingLiveRequest` is at least the number of live requests
in flight (`InFlight`), equal to it while single requests are processed; its other parts make sure that metadata is
handled only for requests that were counted: a buffer of metadata is for a request that was sent
(`LiveMeta`), and a request that was not sent is newer than every batch whose metadata is
due (`Unsent`).  TLC checked each of them on other instances than that of the run
(both batch sizes mixed with flushes and the death of the daemon; failing calls with
batches) before it was proved.

The two hypotheses are about the scenarios, and the code is the reason for them.
`Separate` – a session with reprocess requests has no flush, no death of the daemon, no failing
call and no batches – because with them `AnsweredOnce` and `Accounted` are false: a reprocess
request that is newer than the first pending request may end first, and
`notifyErrorForPendingRequests`, which compares only numbers, tells of its end again (section
4 keeps such sessions out of the run for the same reason).  `OneMode` – where calls fail, the
sessions have single requests or batches, not both – because a half-filled batch outlives the
flush and the configuration that follow it (`mToBeQueuedVidBufs` and `mFirstFrameNumberInBatch`
are not reset), and a request that a channel refused stays in `mPendingRequestsList` while the
state stays CONFIGURED.  If the refused request is a single one and the next one, at the frame
rate of a batch (`setHalFpsRange` decides with each setting), completes the stale batch, the
metadata of that batch covers the refused request too, and the counter is decremented for a
request that it never counted; TLC finds `LiveCount` violated in such a session.  Every scenario of the run satisfies both.

**The real callers** (`QCamera2HWI_proofs`).  For every set of threads, methods, settings and
events:

| Theorem | Statement |
|---|---|
| `CallsTyped` | `Spec => []TypeOK` |
| `CallersAreOpen` | `Spec => OpenSpec` |
| `NoResultIsSpare` | `Spec => []NoSpareResult`, in plain sessions |
| `CallsAreSync` | `Spec => []SyncCall`, in plain sessions with one thread |
| `CallsLeaveStopped` | `~RestartEnabled => (Spec => []StoppedHasNoPreview)`, in plain sessions with one thread |

`OpenSpec` is `StateMachineEnv` with any sender, request and event.  Every step of
`QCamera2HWI` is either one of its own callers – which can post a request, post an event,
take a result or do none of these – or one of the state machine and live snapshot threads,
which both modules have.  So what is proved in `StateMachineEnv_proofs`
for any callers holds of the `camera_device` methods.  The invariant is
`HwiInv`: the state machine's `SmInv`, whose lemmas are used again, and `CallsInv`, that each
caller is at a step of the method it called, with arguments of that method: without it a
post could not be shown to be one the environment makes.

A plain session has finitely many threads, no retro pictures, a daemon that does not die, and
no recording if calls may fail; it may have any methods and settings besides, cancelled
pictures and long shots included.  The runs `_two` and `_modes` are plain sessions.  The
conditions are the code's, not the proof's: the events of a retro picture and the death of the
daemon answer TAKE_PICTURE and PREPARE_SNAPSHOT whether or not somebody still waits, and a live
snapshot that fails makes the HAL post a CANCEL_PICTURE of its own that nobody waits for.  That the result which a
thread takes is the one *it* asked for is true for one thread only (section 4).

The invariant is `HandInv`.  Its core, `Books`, counts per kind: the requests in the API queue,
the result the state machine holds out, the results in `m_apiResultList`, and the one that
PREPARE_SNAPSHOT keeps back (`Held`, the reason why `NoSpareResult` is not inductive: leaving the
state makes a result out of nothing in the queue) are together no more than the `Waiters`.
`TallyWithout` says that taking a node out of a list, at its head or in its middle, uncounts this
node and no other; a bijection shows it, where an induction over the list is out of reach.
`Handles` says of every handler that it takes one command (`Serves`) and `Gives` at most one
result, for that command, or the one kept back.  The rest of the invariant, `PlainState`, shows
that nobody else answers: `Fit` (a VIDEO channel has a SNAPSHOT channel beside it, which
`preparePreview` adds first and the others only delete together) makes the live snapshot thread
find its channel, and `TakesIn` that it looks for it only in VIDEO_PIC_TAKING.  TLC checked these
on two instances with two threads before they were proved.  A wait that ends for nothing,
`NotYet`, keeps its place in `Waiters`; `CallsAreSync` follows as the one waiter must be the one
thread.

`CallsLeaveStopped` rests on this: while the thread waits in `set_parameters`, the only request
in the queues besides its own is the post-processor's STOP_CAPTURE_CHANNEL (`InQueue`,
`AtMostOne`), and the events of a capture.  `BareInv` adds two facts to `HandInv` and
`DarkIsBare`.  `DueIsBare`: from the moment SET_PARAMS_STOP was handled until the
SET_PARAMS_RESTART is handled, the object is bare in the states where that request would bring
preview up.  Between the two comes SET_PARAMS_COMMIT, and `m_bNeedRestart` decides whether a
restart follows, so the fact is attached to that flag: `Settles` says of every command that may come in between that
it does not raise the flag, and either leaves the object bare or does not add a channel.
`NextIsFirst`: no call enters the chain in the middle.  Then `RestartsFindNone` gives
`RestartsBare`, and the machine's own lemmas apply.  With two threads this is false, since
the flag is shared (section 4).  TLC checked `DarkIsBare` and `DueIsBare` on the instance of
`_modes` before they were proved.

**The streams** (`MmCameraStream_proofs`).  For every channel of any number of streams, with
any of them bundled or with a callback, every set of buffers and every length of the pipe,
and `Reserved`:

| Theorem | Statement |
|---|---|
| `StreamsTyped` | `Spec => []TypeOK` |
| `HeldBuffersAreSafe` | `Spec => []NotWrittenWhileHeld` |
| `BuffersAreAccounted` | `Spec => []NoneLost` |
| `CountMatchesDriver` | `Spec => []KernelCount` |
| `StopIsQuiet` | `Spec => []StoppedIsQuiet` |

`Reserved` says of the driver: in an environment where the channel stops or a call fails
(which undoes the start), it never parts with the last buffer of a stream.  The code does not
ensure this, and finding 3 is what happens without it; the run `_bad_stop` is an environment
that violates `Reserved`, and both passing kinds, a channel that stops with a reserve and one
that runs dry but does not stop, satisfy it.  The other assumptions are those of the module on
its constants.

None of the five is inductive.  A counter is right because each of the three kinds of holder –
channel, callback thread, HAL – has at most one reference and is in one place with it, from the
moment the poll thread counted for it to the moment `mm_stream_buf_done` has decremented.
`Books` says so of each buffer of a stream that is registered or active: the places of a buffer
exclude each other (`Places`), and the counter is the number of holders, one more for ever if
the closed queue of the HAL swallowed the buffer (`Book`); `queued_buffer_count` is the number of
buffers in none of their hands (`Counted`).  It holds only while the library initialises the
counters, so the rest of the invariant is about starts and stops: `Lined` and `Phase` say which
streams are in which state, with which threads, at each step of `mm_channel_start`,
`mm_channel_stop` and the undoing of a failed start; `Kept`, which needs the reserve, that a stream
is in the poll set whenever the poll thread has a buffer of it, so that a stop finds it there and
waits until the poll thread is between two frames; `Steady` that an environment which neither
stops nor fails never comes to a stop.  After the stop the application may still
return buffers: `Dead` bounds what these late calls do to the counters of a stream that was
unregistered (they may go below zero, to 255 and 254; `RegBuf` sets them again).  TLC checked
`IInv` as an invariant of the instance of `_live` and of a second one before it was proved.  Each action has one lemma per part of the
invariant it can disturb; `Always` closes the induction.

**The matching queue** (`MmCameraChannel_proofs`).  For every set of channels of any number of
streams, every water mark, number of unmatched frames and frames to skip, and any number of
frames, pictures and commands, in every order in which they come:

| Theorem | Statement |
|---|---|
| `ChannelKept` | `Spec => []IInv` |
| `ChannelTypeCorrect` | `Spec => []TypeOK` |
| `BuffersAreKept` | `Spec => []NoBufferLost` |
| `MatchedComeFirst` | `Spec => []MatchedFirst` |
| `RequestsAreServed` | `Spec => []NothingWithheld` |
| `SnapshotModePaired` | `Spec => []ZslPaired` |
| `QueueIsBounded` | `Allotted => (Spec => []QueueBound)` |
| `SuperBuffersInOrder` | `Spec => InOrder` |

These are all the properties of the run.  The assumptions are `NumbersAssumption` and
`AttrsAssumption`, which TLC evaluates, and `Allotted` for the last part of `QueueBound`: the HAL
gives a stream more buffers than the water mark, the unmatched frames and one more, or the
channel has one stream and more buffers than the water mark.  `getBufNumRequired` adds two
buffers (`CAMERA_MIN_JPEG_ENCODING_BUFFERS`) to the depth of the ZSL queue and the unmatched
frames for the streams of a ZSL channel; every channel of the run satisfies it.

The properties say what holds between two inputs.  Within one, a step is a composition: the
metadata is handled, the frame goes into its node or back to the driver, a node becomes matched
and the older ones are given up, a queue that is too long is cut, and the requests are answered
in a loop.  The invariant is therefore a predicate on a channel, `Kept(c, l, x)`, that each of
these operations keeps, where `x` is the frame *in hand*, neither queued nor given back.  Its
parts: `Typed`; `Made`, what the frames of a node have to do with its number (the metadata of
a LOW priority node may be of a later frame; a node that waits for a diverted frame has only
metadata); `Lined`, the matched nodes are the first, and at most `unmatched + 1` others follow;
`Sorted`, nodes are in the order of their numbers, and none is older than what the HAL got; `Seen`, no
frame in the queue is newer than the last of its stream, which makes the next one new;
`Held`, each frame outside the driver is in one node, or in one super-buffer with the HAL, or in
hand.  `Paired` relates snapshot mode to the requests; within a step only its first half,
`Shooting`, holds.  The lemmas that compose a step are `MetadataGoes`, `EnqueueKeeps` with one lemma per
branch of `mm_channel_superbuf_comp_and_enqueue`, `ReqGoes` and `ProcessKeeps`; `NextStays` has
one case per action.

Two kinds of reasoning about data were needed, and have a substitute for induction.  The four
loops over the queue are `Rounds`: `RoundsExist` shows, with the least number for which there are
none, that the recursive function exists, and `RoundsTrim` and `RoundsDeliver`, in the same way,
that what each round keeps is kept.
`Without`, which takes a set of nodes out of the queue, places each node that stays by the number of those
before it (`Place`), which a bijection shows to be increasing and onto; so the order of the queue
survives.  TLC checked `IInv` on the instance of the run (539 908 states) before it was proved.

**Pictures** (`QCameraPostProc_proofs`).  For every set of captures, with any number of pictures,
ZSL or regular, reprocessed or not, cancelled at any moment, one after the other, whichever calls of the encoder fail:

| Theorem | Statement |
|---|---|
| `PostProcInvariant` | `Spec => []IInv` |
| `PostProcTypes` | `Spec => []TypeOK` |
| `FramesAccountedFor` | `Spec => []FramesAccounted` |

`FramesAccounted` has five parts: a buffer is in one place only and goes back once
(`OnePlace`), not while the encoder (`EncoderOwns`) or the daemon (`DaemonReads`) reads it, a
reprocessed frame meets its own job (`OwnJob`), and nothing is left when a capture is over
(`NothingLeft`).  None of them is inductive: every thread's step relies on what the others will
not do.  The invariant says this part by part.  `Held`: a frame that came is in one of
the four queues, or in the hands of one thread that is between two of them, or gone, and only one
of these.  `Shake`: at most one START or STOP is on its way to the data thread, its sender waits
for the answer, and nobody else does.  From this, `Phases` knows when the data thread is at rest with
empty queues (before START, after STOP), when the queues are open, and which of them a stop has
already flushed: a stop closes a queue before a late callback could put a frame into it, or the
callback's frame is flushed with the others.  `Reprocessed`: while `m_ongoingPPQ` is open, its
jobs are the frames of the daemon in the same order, with the one that the callback has in hand
first.  `Encoding` and `Ids` are about MmJpeg: the session, the encoder and a waiting abort are in
step; ids grow along the todo queue; the encoder's job and those that wait for it are in
`m_ongoingJpegQ` under their ids (or the data thread is about to store the id); an event is about
a job that is neither, so whoever handles it releases memory that nobody reads.  `Told` says of
the notifier that it counts no more JPEGs than were asked for, and that a STOP comes before a
JPEG of a capture that is over.

What a queue is after a flush or a lookup is again shown by the positions: `flushNodes` keeps the order
(`Place`, as above), and MmJpeg's queue without its first job of an id is a `RemoveAt`.  An
earlier form of `IInv`, with the same parts, was checked by TLC on every one of 48 kinds of
capture (5.5 million states) before the proof.

Only model-checked:

* `PreviewingStreams` of `QCamera2HWI`: it holds for the callers of its run only (one
  thread, no early restart, section 4); `ZslInForce`, which follows one string of settings
  through the requests of `set_parameters`.
* `PostprocOnlyInCapture`, which does not hold for all constants (a failing `takePicture`, a
  LONGSHOT_OFF in a regular capture, see section 4).
* Liveness (`CallsReturn`, `EveryRequestAnswered`, `FramesRead`, `ControlEnds`,
  `PictureArrives`), out of the prover's reach.

## 6. What is not modelled, and why

* HWI: a deferred start of the post-processor that fails after `takePicture` has answered OK (HWI
  4470, 4628); that stopping an added but inactive channel answers NO_INIT (`stopChannel` answers
  OK): no property depends on either.
* Dual-camera branches of the state machine (SYNC, RESTART_*, the Muxer): the related
  camera pair is not enabled on this device.
* CALLBACK, RAW, METADATA and REPROCESS channels and stream configuration in HAL1: the
  handlers treat them like the channels that are there.
* H3: the translation of metadata and the vendor tags, the validation of stream
  configurations, urgent partial results, `flushPerf`, `mPendingReprocessResultList` with the
  input branch of `handleBufferWithLock`, and what is inside the channels and the
  post-processor below it: they deliver each buffer once, per stream in order; a channel
  whose stop fails.
* Allocations that fail, among them those of the results themselves: `signalAPIResult` (HWI
  6605-6608) and `notifyErrorForPendingRequests` (H3 10010, 10068) then give up without an answer.
* MST: linked streams, batch (USERPTR) buffers, `in_kernel`, deferred mapping, synchronous
  callbacks, `cb_count` (always -1 here), the slots of the poll set (served in any order).  The undo of
  a failed start puts each stream's buffers back in turn, before the channel's threads end
  (MCH 1635-1647); `Release` does it for all streams afterwards, as a stop does.
* MCH: configured captures, flash bracketing and low-light capture, frame
  synchronisation of two cameras, `user_expected_frame_id`, the change of the notify mode,
  Start and Stop (the streams' module has them), failing allocations.
* PP: the thread that saves JPEGs (`saveProc`), RAW frames, long shots, offline buffers, a second
  reprocess pass, failing `doReprocess`, `createJpegSession` and allocations, the callbacks of
  preview and video in the notifier, the muxer's JPEG callback.
* MJ: MPO composition, the decoder, work buffers, several handles per session (`burst_mode`), a
  failing `OMX_SendCommand`.
* Thermal and notification handlers that only forward or log.
* `dump`, auto focus, face registration, parameter reads: the request `QUERY`.
* Parameters other than ZSL and the recording hint: those that need a restart are the
  flag `other`; the rest does not reach the state machine.
* Deferred work other than the two jobs of a capture: parameter initialisation and allocation
  are outcomes that may fail.  Its slots and job ids, and GPS: see the plan.
* Device wrappers, overlays, settings, build files: no protocol.
