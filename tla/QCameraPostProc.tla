-------------------------- MODULE QCameraPostProc --------------------------
(***************************************************************************)
(* From the frames of a capture to the JPEGs the application gets:         *)
(* QCameraPostProc.cpp with its data thread and its queues, the notifier   *)
(* thread (QCameraCbNotifier in QCamera2HWICallbacks.cpp), the parts of    *)
(* the state machine and of the deferred thread that start and stop them,  *)
(* and MmJpeg below.                                                       *)
(*                                                                         *)
(* A frame goes from the callback of its channel through m_inputPPQ and    *)
(* m_ongoingPPQ (if it is reprocessed), m_inputJpegQ and m_ongoingJpegQ;   *)
(* the end of its encoding is an event for the state machine, which        *)
(* returns the buffers and gives the JPEG to the notifier.  The notifier   *)
(* counts, and ends the capture after the last one.                        *)
(***************************************************************************)
EXTENDS MmJpeg, FiniteSets

CONSTANTS
    Scenarios,   \* the captures of a behaviour: see sc
    PPBufs       \* getNumQueuedBuf of the reprocess stream

ASSUME PPBufsAssumption == PPBufs \in Nat \ {0}
ASSUME ScenariosAssumption ==
    /\ Scenarios \subseteq [zsl : BOOLEAN, reproc : BOOLEAN, n : Nat \ {0}, captures : Nat \ {0},
                            cancels : Nat, fails : BOOLEAN]

VARIABLES
    sc,          \* ZSL mode; is reprocessing needed; the snapshots of a capture;
                 \* how many captures, and cancellations; do calls fail?
    q,           \* the four queues of frames and jobs
    open,        \* m_active of those the data thread opens and flushes
    data,        \* the data thread and its command queue
    src,         \* the source channel with its callback thread
    rep,         \* the reprocess channel with its callback thread
    def,         \* the deferred thread, as far as the start of a capture
    sm,          \* the state machine thread, with its queue of requests
    ntf,         \* the notifier thread
    app,         \* the application
    back,        \* how often each buffer was returned to its channel
    kept         \* the buffers the code drops without returning them

ppVars == <<q, open, data>>
vars == <<jpegVars, sc, ppVars, src, rep, def, sm, ntf, app, back, kept>>

Frames == 1..sc.n * sc.captures
(* Each frame is a buffer of the source channel; reprocessing puts its
   result into a buffer of the reprocess channel. *)
Source(f) == <<f, "source">>
Output(f) == <<f, "output">>
Buffers == Frames \X {"source", "output"}
(* isRegularCapture: one frame from a CAPTURE channel, which ends with it. *)
regular == ~sc.zsl /\ sc.n = 1

Job(f) == [frame |-> f, id |-> 0]
Idle == 0

Init ==
    /\ sc \in Scenarios
    /\ JpegInit
    /\ q = [inPP |-> <<>>, onPP |-> <<>>, inJpeg |-> <<>>, onJpeg |-> <<>>]
    /\ open = [inPP |-> TRUE, onPP |-> TRUE, inJpeg |-> TRUE]
    /\ data = [cmds |-> <<>>, pc |-> "idle", active |-> FALSE, job |-> Idle,
               newSess |-> TRUE, synced |-> FALSE]
    /\ src = [on |-> FALSE, due |-> 0, seen |-> 0, pc |-> "idle", frame |-> Idle]
    /\ rep = [owed |-> <<>>, pc |-> "idle", frame |-> Idle]
    /\ def = "idle"
    /\ sm = [state |-> "PREVIEWING", pc |-> "idle", for |-> "none", api_queue |-> <<>>]
    /\ ntf = [cmds |-> <<>>, data |-> <<>>, active |-> FALSE, expected |-> 0, received |-> 0, pc |-> "idle"]
    /\ app = [busy |-> FALSE, taken |-> 0, got |-> 0, cancels |-> 0, error |-> FALSE]
    /\ back = [b \in Buffers |-> 0]
    /\ kept = {}

-----------------------------------------------------------------------------
(* QCameraCmdThread::sendCmd: at the end of the queue, or in front. *)
sendCmd(thread, cmd) == [thread EXCEPT !.cmds = Append(@, cmd)]
sendCmdFirst(thread, cmd) == [thread EXCEPT !.cmds = <<cmd>> \o @]
DO_NEXT_JOB == "DO_NEXT_JOB"
NextCmd(thread, cmd) == thread.cmds # <<>> /\ Head(thread.cmds) = cmd

(* releaseSuperBuf: the buffers go back to their channels. *)
Return(bs) == back' = [b \in Buffers |-> back[b] + (IF b \in bs THEN 1 ELSE 0)]

(* releaseOngoingPPData and releaseJpegJobData: the source of a reprocessed
   regular capture is not returned (reproc_frame_release), its channel is
   stopped. *)
ppBufs(f) == {Source(f)}
jpegBufs(f) == {Source(f)} \cup (IF sc.reproc THEN {Output(f)} ELSE {})
reproc_frame_release == IF regular /\ sc.reproc THEN Frames \X {"source"} ELSE {}
Release(bs) == Return(bs \ reproc_frame_release) /\ kept' = kept \cup (bs \cap reproc_frame_release)
FramesOf(jobs) == {jobs[i].frame : i \in DOMAIN jobs}
BufsOf(k) ==
    UNION {IF k \in {"inPP", "onPP"} THEN ppBufs(f) ELSE jpegBufs(f) : f \in FramesOf(q[k])}

(* QCameraQueue::flushNodes: the nodes at the places in S leave a queue. *)
flushNodes(queue, S) ==
    LET stay == DOMAIN queue \ S
        place(i) == Cardinality({j \in stay : j <= i})
    IN [k \in 1..Cardinality(stay) |-> queue[CHOOSE i \in stay : place(i) = k]]

(* notifyCallback: JPEGs and errors for the application. *)
notifyCallback(what) == [sendCmd(ntf, DO_NEXT_JOB) EXCEPT !.data = Append(@, what)]

-----------------------------------------------------------------------------
(* The callback of the ZSL or CAPTURE channel gets a frame ... *)
SrcFrame ==
    /\ src.pc = "idle" /\ src.on /\ src.due > 0
    /\ src' = [src EXCEPT !.pc = "process", !.frame = src.seen + 1, !.seen = @ + 1, !.due = @ - 1]
    /\ UNCHANGED <<jpegVars, sc, ppVars, rep, def, sm, ntf, app, back, kept>>

(* ... waits for the start of the post-processor, and calls processData: the
   frame goes into the queue for reprocessing or for encoding, or back if
   that is closed ... *)
processData ==
    LET queue == IF sc.reproc THEN "inPP" ELSE "inJpeg" IN
    /\ src.pc = "process" /\ def \in {"jpeg_session", "idle"}
    /\ IF open[queue]
       THEN /\ q' = [q EXCEPT ![queue] = Append(@, Job(src.frame))]
            /\ src' = [src EXCEPT !.pc = "send", !.frame = Idle]
            /\ UNCHANGED back
       ELSE /\ Return({Source(src.frame)})
            /\ src' = [src EXCEPT !.pc = "idle", !.frame = Idle]
            /\ UNCHANGED q
    /\ UNCHANGED <<jpegVars, sc, open, data, rep, def, sm, ntf, app, kept>>

(* ... and the data thread is told. *)
SrcSend ==
    /\ src.pc = "send"
    /\ src' = [src EXCEPT !.pc = "idle"]
    /\ data' = sendCmd(data, DO_NEXT_JOB)
    /\ UNCHANGED <<jpegVars, sc, q, open, rep, def, sm, ntf, app, back, kept>>

-----------------------------------------------------------------------------
(* postproc_channel_cb_routine: the next reprocessed frame, once the JPEG
   session is there ... *)
RepFrame ==
    /\ rep.pc = "idle" /\ rep.owed # <<>> /\ def = "idle"
    /\ rep' = [owed |-> Tail(rep.owed), pc |-> "process", frame |-> Head(rep.owed)]
    /\ UNCHANGED <<jpegVars, sc, ppVars, src, def, sm, ntf, app, back, kept>>

(* ... processPPData: it belongs to the first job of m_ongoingPPQ; when that
   was flushed, the frame is dropped ... *)
FindPPJob ==
    /\ rep.pc = "process"
    /\ IF open.onPP /\ q.onPP # <<>>
       THEN /\ q' = [q EXCEPT !.onPP = Tail(@)]
            /\ rep' = [rep EXCEPT !.pc = "enqueue"]
            /\ UNCHANGED kept
       ELSE /\ kept' = kept \cup {Output(rep.frame)}
            /\ rep' = [rep EXCEPT !.pc = "idle", !.frame = Idle]
            /\ UNCHANGED q
    /\ UNCHANGED <<jpegVars, sc, open, data, src, def, sm, ntf, app, back>>

(* ... to the encoder's queue, or back with its source ... *)
EnqueueJpeg ==
    /\ rep.pc = "enqueue"
    /\ IF open.inJpeg
       THEN /\ q' = [q EXCEPT !.inJpeg = Append(@, Job(rep.frame))]
            /\ rep' = [rep EXCEPT !.pc = "send", !.frame = Idle]
            /\ UNCHANGED <<back, kept>>
       ELSE /\ Release(jpegBufs(rep.frame))
            /\ rep' = [rep EXCEPT !.pc = "idle", !.frame = Idle]
            /\ UNCHANGED q
    /\ UNCHANGED <<jpegVars, sc, open, data, src, def, sm, ntf, app>>

RepSend ==
    /\ rep.pc = "send"
    /\ rep' = [rep EXCEPT !.pc = "idle"]
    /\ data' = sendCmd(data, DO_NEXT_JOB)
    /\ UNCHANGED <<jpegVars, sc, q, open, src, def, sm, ntf, app, back, kept>>

-----------------------------------------------------------------------------
(* dataProcessRoutine, START_DATA_PROC: the queues take frames again. *)
DataStart ==
    /\ data.pc = "idle" /\ NextCmd(data, "START_DATA_PROC")
    /\ data' = [data EXCEPT !.cmds = Tail(@), !.active = TRUE, !.synced = TRUE]
    /\ open' = [inPP |-> TRUE, onPP |-> TRUE, inJpeg |-> TRUE]
    /\ UNCHANGED <<jpegVars, sc, q, src, rep, def, sm, ntf, app, back, kept>>

(* STOP_DATA_PROC: every job the encoder knows is aborted ... *)
DataStop ==
    /\ data.pc = "idle" /\ NextCmd(data, "STOP_DATA_PROC")
    /\ data' = [data EXCEPT !.cmds = Tail(@), !.active = FALSE, !.pc = "cancel"]
    /\ UNCHANGED <<jpegVars, sc, q, open, src, rep, def, sm, ntf, app, back, kept>>

CancelJob ==
    /\ data.pc = "cancel" /\ q.onJpeg # <<>>
    /\ abort_job(Head(q.onJpeg).id)
    /\ q' = [q EXCEPT !.onJpeg = Tail(@)]
    /\ data' = [data EXCEPT !.pc = "release", !.job = Head(q.onJpeg).frame]
    /\ UNCHANGED <<sc, open, src, rep, def, sm, ntf, app, back, kept>>

(* ... and released, ... *)
ReleaseJob ==
    /\ data.pc = "release" /\ client = "out"
    /\ Release(jpegBufs(data.job))
    /\ data' = [data EXCEPT !.pc = "cancel", !.job = Idle]
    /\ UNCHANGED <<jpegVars, sc, q, open, src, rep, def, sm, ntf, app>>

(* ... then the session is destroyed, ... *)
DestroySession ==
    /\ data.pc = "cancel" /\ q.onJpeg = <<>>
    /\ data' = [data EXCEPT !.pc = "flush_onPP"]
    /\ IF session.active THEN destroy_session ELSE UNCHANGED jpegVars
    /\ UNCHANGED <<sc, q, open, src, rep, def, sm, ntf, app, back, kept>>

(* ... and the queues are flushed and closed, one after the other; the one
   who waits is told. *)
Flush(queue) ==
    /\ Release(BufsOf(queue))
    /\ q' = [q EXCEPT ![queue] = <<>>]
    /\ open' = [open EXCEPT ![queue] = FALSE]
    /\ UNCHANGED <<jpegVars, sc, src, rep, def, sm, ntf, app>>

FlushOngoingPP ==
    /\ data.pc = "flush_onPP" /\ client = "out"
    /\ Flush("onPP")
    /\ data' = [data EXCEPT !.pc = "flush_inJpeg"]

FlushInputJpeg ==
    /\ data.pc = "flush_inJpeg"
    /\ Flush("inJpeg")
    /\ data' = [data EXCEPT !.pc = "flush_inPP"]

FlushInputPP ==
    /\ data.pc = "flush_inPP"
    /\ Flush("inPP")
    /\ data' = [data EXCEPT !.pc = "idle", !.synced = TRUE, !.newSess = TRUE]

(* DO_NEXT_JOB: a frame for the encoder becomes an ongoing job ... *)
NextJob ==
    /\ data.pc = "idle" /\ data.active /\ NextCmd(data, DO_NEXT_JOB)
    /\ IF q.inJpeg # <<>>
       THEN /\ q' = [q EXCEPT !.inJpeg = Tail(@), !.onJpeg = Append(@, Head(q.inJpeg))]
            /\ data' = [data EXCEPT !.cmds = Tail(@), !.pc = "encode"]
       ELSE /\ data' = [data EXCEPT !.cmds = Tail(@), !.pc = "reprocess"]
            /\ UNCHANGED q
    /\ UNCHANGED <<jpegVars, sc, open, src, rep, def, sm, ntf, app, back, kept>>

(* ... or, when it is stopped, finds the queues closed and does nothing. *)
NoJob_Stopped ==
    /\ data.pc = "idle" /\ ~data.active /\ NextCmd(data, DO_NEXT_JOB)
    /\ ~open.inJpeg /\ ~open.inPP
    /\ data' = [data EXCEPT !.cmds = Tail(@)]
    /\ UNCHANGED <<jpegVars, sc, q, open, src, rep, def, sm, ntf, app, back, kept>>

(* encodeData: with a session, the job is started ... *)
encodeData ==
    /\ data.pc = "encode"
    /\ session' = IF data.newSess THEN create_session ELSE session
    /\ start_job(Last(q.onJpeg).frame)
    /\ data' = [data EXCEPT !.newSess = FALSE, !.pc = "store"]
    /\ UNCHANGED <<ongoing, mgr, omx, client, evt_queue>>
    /\ UNCHANGED <<sc, q, open, src, rep, def, sm, ntf, app, back, kept>>

(* ... and its id remembered; the encoder may have ended it meanwhile ... *)
StoreJobId ==
    /\ data.pc = "store"
    /\ q' = [q EXCEPT !.onJpeg[Len(q.onJpeg)].id = jobHist]
    /\ data' = [data EXCEPT !.pc = "reprocess"]
    /\ UNCHANGED <<jpegVars, sc, open, src, rep, def, sm, ntf, app, back, kept>>

(* ... or it fails, and the job that came last is given up. *)
EncodeRefused ==
    /\ sc.fails /\ data.pc = "encode"
    /\ Release(jpegBufs(Last(q.onJpeg).frame))
    /\ q' = [q EXCEPT !.onJpeg = Front(@)]
    /\ ntf' = notifyCallback("error")
    /\ data' = [data EXCEPT !.pc = "reprocess"]
    /\ UNCHANGED <<jpegVars, sc, open, src, rep, def, sm, app>>

(* Mutant: one buffer too many. *)
validatePostProcess_OneMore == Len(q.onPP) <= PPBufs

(* doReprocess, if the reprocess channel has a buffer for the result
   (validatePostProcess); stopCapture after it, in any case. *)
validatePostProcess == Len(q.onPP) < PPBufs
doReprocess ==
    /\ data.pc = "reprocess"
    /\ data' = [data EXCEPT !.pc = "idle"]
    /\ IF q.inPP # <<>> /\ validatePostProcess
       THEN /\ q' = [q EXCEPT !.inPP = Tail(@), !.onPP = Append(@, Head(q.inPP))]
            /\ rep' = [rep EXCEPT !.owed = Append(@, Head(q.inPP).frame)]
       ELSE UNCHANGED <<q, rep>>
    /\ sm' = IF regular THEN [sm EXCEPT !.api_queue = Append(@, "STOP_CAPTURE_CHANNEL")] ELSE sm
    /\ UNCHANGED <<jpegVars, sc, open, src, def, ntf, app, back, kept>>

-----------------------------------------------------------------------------
(* The deferred thread: CMD_DEF_PPROC_START, which is start(), ... *)
StartPostproc ==
    /\ def = "start" /\ def' = "wait"
    /\ data' = sendCmd(data, "START_DATA_PROC")
    /\ UNCHANGED <<jpegVars, sc, q, open, src, rep, sm, ntf, app, back, kept>>

StartSnapshots ==
    /\ def = "wait" /\ data.synced /\ def' = "jpeg_session"
    /\ data' = [data EXCEPT !.synced = FALSE]
    /\ ntf' = sendCmdFirst(ntf, "START_DATA_PROC")
    /\ UNCHANGED <<jpegVars, sc, q, open, src, rep, sm, app, back, kept>>

(* ... and CMD_DEF_CREATE_JPEG_SESSION: createJpegSession makes the session
   for reprocessed frames ahead of time. *)
createJpegSession ==
    /\ def = "jpeg_session" /\ client = "out" /\ def' = "idle"
    /\ IF sc.reproc /\ data.newSess
       THEN session' = create_session /\ data' = [data EXCEPT !.newSess = FALSE]
       ELSE UNCHANGED <<session, data>>
    /\ UNCHANGED <<todo, ongoing, tokens, mgr, omx, client, jobHist, evt_queue>>
    /\ UNCHANGED <<sc, q, open, src, rep, sm, ntf, app, back, kept>>

-----------------------------------------------------------------------------
(* The state machine takes a request if there is one, otherwise an event. *)
Request(r) == sm.pc = "idle" /\ sm.api_queue # <<>> /\ Head(sm.api_queue) = r
Event(e) == sm.pc = "idle" /\ sm.api_queue = <<>> /\ evt_queue # <<>> /\ Head(evt_queue).evt = e
Taken == [sm EXCEPT !.api_queue = Tail(@)]
NextEvent == evt_queue' = Tail(evt_queue)
OnlyEvtQueue == UNCHANGED <<todo, ongoing, tokens, mgr, session, omx, client, jobHist>>
SNAPSHOT_DONE == [evt |-> "SNAPSHOT_DONE"]

(* takePicture: the jobs for the deferred thread, then the frames are asked
   for. *)
takePicture ==
    /\ Request("TAKE_PICTURE") /\ sm.state = "PREVIEWING"
    /\ sm' = [Taken EXCEPT !.state = "PIC_TAKING"]
    /\ def' = "start"
    /\ src' = [src EXCEPT !.on = TRUE, !.due = sc.n]
    /\ UNCHANGED <<jpegVars, sc, ppVars, rep, ntf, app, back, kept>>

(* cancelPicture, for CANCEL_PICTURE or SNAPSHOT_DONE: the notifier and the
   data thread are told to stop, both at once ... *)
StopPostproc(s, why) ==
    /\ sm.state = "PIC_TAKING" /\ def = "idle"
    /\ sm' = [s EXCEPT !.pc = "wait", !.for = why]
    /\ ntf' = sendCmdFirst(ntf, "STOP_DATA_PROC")
    /\ data' = sendCmdFirst(data, "STOP_DATA_PROC")
    /\ UNCHANGED <<sc, q, open, src, rep, def, app, back, kept>>
CancelPicture == Request("CANCEL_PICTURE") /\ StopPostproc(Taken, "CANCEL_PICTURE") /\ UNCHANGED jpegVars
SnapshotDone == Event("SNAPSHOT_DONE") /\ StopPostproc(sm, "SNAPSHOT_DONE") /\ NextEvent /\ OnlyEvtQueue

(* ... the data thread is awaited, then the reprocess channel stops with its
   callback thread ... *)
StopReprocess ==
    /\ sm.pc = "wait" /\ data.synced /\ rep.pc = "idle"
    /\ data' = [data EXCEPT !.synced = FALSE]
    /\ rep' = [rep EXCEPT !.owed = <<>>]
    /\ sm' = [sm EXCEPT !.pc = "channel"]
    /\ UNCHANGED <<jpegVars, sc, q, open, src, def, ntf, app, back, kept>>

(* ... and no more frames are asked for: a CAPTURE channel stops with its
   callback thread.  Whoever waits is answered. *)
Ended(s) ==
    /\ app' = IF s.for = "CANCEL_PICTURE"
              THEN [app EXCEPT !.busy = FALSE, !.got = 0] ELSE app
    /\ ntf' = IF s.for = "SNAPSHOT_DONE" THEN [ntf EXCEPT !.pc = "deliver"] ELSE ntf
StopChannel ==
    /\ sm.pc = "channel" /\ (sc.zsl \/ src.pc = "idle")
    /\ src' = [src EXCEPT !.due = 0, !.on = sc.zsl]
    /\ sm' = [sm EXCEPT !.state = "PREVIEWING", !.pc = "idle", !.for = "none"]
    /\ Ended(sm)
    /\ UNCHANGED <<jpegVars, sc, ppVars, rep, def, back, kept>>

(* Both are answered when there is no capture. *)
NothingToCancel ==
    /\ Request("CANCEL_PICTURE") /\ sm.state = "PREVIEWING"
    /\ sm' = Taken
    /\ Ended([for |-> "CANCEL_PICTURE"])
    /\ UNCHANGED <<jpegVars, sc, ppVars, src, rep, def, back, kept>>
NothingToEnd ==
    /\ Event("SNAPSHOT_DONE") /\ sm.state = "PREVIEWING"
    /\ NextEvent /\ OnlyEvtQueue
    /\ Ended([for |-> "SNAPSHOT_DONE"])
    /\ UNCHANGED <<sc, ppVars, src, rep, def, sm, back, kept>>

(* STOP_CAPTURE_CHANNEL: during a capture, its channel stops. *)
stopCaptureChannel ==
    /\ Request("STOP_CAPTURE_CHANNEL")
    /\ sm' = Taken
    /\ IF sm.state = "PIC_TAKING"
       THEN src.pc = "idle" /\ src' = [src EXCEPT !.on = FALSE]
       ELSE UNCHANGED src
    /\ UNCHANGED <<jpegVars, sc, ppVars, rep, def, ntf, app, back, kept>>

(* JPEG_EVT_NOTIFY, processJpegEvt: the buffers of the job are returned
   (flushNodes, for each job with that id), ... *)
processJpegEvt ==
    /\ Event("JPEG_EVT_NOTIFY") /\ sm.state = "PIC_TAKING"
    /\ LET ours == {i \in DOMAIN q.onJpeg : q.onJpeg[i].id = Head(evt_queue).id} IN
       /\ Release(UNION {jpegBufs(q.onJpeg[i].frame) : i \in ours})
       /\ q' = [q EXCEPT !.onJpeg = flushNodes(@, ours)]
    /\ data' = IF q.inPP # <<>> THEN sendCmd(data, DO_NEXT_JOB) ELSE data
    /\ sm' = [sm EXCEPT !.pc = "notify"]
    /\ UNCHANGED <<jpegVars, sc, open, src, rep, def, ntf, app>>

(* ... the application gets the JPEG or the error, and the data thread looks
   for the next job. *)
sendDataNotify ==
    /\ sm.pc = "notify"
    /\ NextEvent /\ OnlyEvtQueue
    /\ ntf' = notifyCallback(IF Head(evt_queue).status = "DONE" THEN "jpeg" ELSE "error")
    /\ data' = sendCmd(data, DO_NEXT_JOB)
    /\ sm' = [sm EXCEPT !.pc = "idle"]
    /\ UNCHANGED <<sc, q, open, src, rep, def, app, back, kept>>

(* The other states drop the event. *)
JpegEvtDropped ==
    /\ Event("JPEG_EVT_NOTIFY") /\ sm.state = "PREVIEWING"
    /\ NextEvent /\ OnlyEvtQueue
    /\ UNCHANGED <<sc, ppVars, src, rep, def, sm, ntf, app, back, kept>>

-----------------------------------------------------------------------------
(* cbNotifyRoutine: snapshot mode begins ... *)
NtfStart ==
    /\ ntf.pc = "idle" /\ NextCmd(ntf, "START_DATA_PROC")
    /\ ntf' = [ntf EXCEPT !.cmds = Tail(@), !.active = TRUE, !.expected = sc.n, !.received = 0]
    /\ UNCHANGED <<jpegVars, sc, ppVars, src, rep, def, sm, app, back, kept>>

(* ... and ends, without the JPEGs that are still queued. *)
NtfStop ==
    /\ ntf.pc = "idle" /\ NextCmd(ntf, "STOP_DATA_PROC")
    /\ ntf' = [ntf EXCEPT !.cmds = Tail(@), !.active = FALSE, !.expected = 0, !.received = 0,
                          !.data = flushNodes(@, {i \in DOMAIN @ : @[i] = "jpeg"})]
    /\ UNCHANGED <<jpegVars, sc, ppVars, src, rep, def, sm, app, back, kept>>

(* DO_NEXT_JOB: nothing left, or a JPEG outside snapshot mode, which is
   dropped; ... *)
NtfCb == [ntf EXCEPT !.cmds = Tail(@), !.data = Tail(@)]
NtfNothing ==
    /\ ntf.pc = "idle" /\ NextCmd(ntf, DO_NEXT_JOB)
    /\ IF ntf.data = <<>>
       THEN ntf' = [ntf EXCEPT !.cmds = Tail(@)]
       ELSE Head(ntf.data) = "jpeg" /\ ~ntf.active /\ ntf' = NtfCb
    /\ UNCHANGED <<jpegVars, sc, ppVars, src, rep, def, sm, app, back, kept>>

(* ... an error for the application; ... *)
NtfError ==
    /\ ntf.pc = "idle" /\ NextCmd(ntf, DO_NEXT_JOB)
    /\ ntf.data # <<>> /\ Head(ntf.data) = "error"
    /\ ntf' = NtfCb
    /\ app' = [app EXCEPT !.error = TRUE]
    /\ UNCHANGED <<jpegVars, sc, ppVars, src, rep, def, sm, back, kept>>

(* ... a JPEG, which is counted; with the last one the capture is done, and
   processSyncEvt waits until the state machine has ended it; ... *)
NtfJpeg ==
    /\ ntf.pc = "idle" /\ NextCmd(ntf, DO_NEXT_JOB)
    /\ ntf.data # <<>> /\ Head(ntf.data) = "jpeg" /\ ntf.active
    /\ LET last == ntf.received + 1 = ntf.expected IN
       /\ ntf' = [NtfCb EXCEPT !.received = @ + 1, !.pc = IF last THEN "wait" ELSE "deliver"]
       /\ evt_queue' = IF last THEN Append(evt_queue, SNAPSHOT_DONE) ELSE evt_queue
    /\ OnlyEvtQueue
    /\ UNCHANGED <<sc, ppVars, src, rep, def, sm, app, back, kept>>

(* ... then the application has it (mDataCb). *)
Delivered ==
    /\ ntf.pc = "deliver"
    /\ ntf' = [ntf EXCEPT !.pc = "idle"]
    /\ app' = IF ~app.busy THEN app
              ELSE IF app.got + 1 = sc.n THEN [app EXCEPT !.busy = FALSE, !.got = 0]
              ELSE [app EXCEPT !.got = @ + 1]
    /\ UNCHANGED <<jpegVars, sc, ppVars, src, rep, def, sm, back, kept>>

-----------------------------------------------------------------------------
(* take_picture when the last capture is over, and cancel_picture. *)
AppTake ==
    /\ ~app.busy /\ app.taken < sc.captures
    /\ app' = [app EXCEPT !.busy = TRUE, !.taken = @ + 1, !.error = FALSE]
    /\ sm' = [sm EXCEPT !.api_queue = Append(@, "TAKE_PICTURE")]
    /\ UNCHANGED <<jpegVars, sc, ppVars, src, rep, def, ntf, back, kept>>

AppCancel ==
    /\ app.busy /\ app.cancels < sc.cancels
    /\ app' = [app EXCEPT !.cancels = @ + 1]
    /\ "CANCEL_PICTURE" \notin Range(sm.api_queue) /\ sm.for # "CANCEL_PICTURE"
    /\ sm' = [sm EXCEPT !.api_queue = Append(@, "CANCEL_PICTURE")]
    /\ UNCHANGED <<jpegVars, sc, ppVars, src, rep, def, ntf, back, kept>>

-----------------------------------------------------------------------------
NotPP == UNCHANGED <<sc, ppVars, src, rep, def, sm, ntf, app, back, kept>>
JpegThreads == (Manager \/ Encoder \/ Abort) /\ NotPP
JpegFails == sc.fails /\ (EncodeFails \/ Encoded("ERROR")) /\ NotPP
SrcThread == processData \/ SrcSend
RepThread == RepFrame \/ FindPPJob \/ EnqueueJpeg \/ RepSend
DataThread ==
    \/ DataStart \/ DataStop \/ CancelJob \/ ReleaseJob \/ DestroySession
    \/ FlushOngoingPP \/ FlushInputJpeg \/ FlushInputPP
    \/ NextJob \/ NoJob_Stopped \/ encodeData \/ StoreJobId \/ EncodeRefused \/ doReprocess
DefThread == StartPostproc \/ StartSnapshots \/ createJpegSession
SmThread ==
    \/ takePicture \/ CancelPicture \/ SnapshotDone \/ StopReprocess \/ StopChannel
    \/ NothingToCancel \/ NothingToEnd \/ stopCaptureChannel
    \/ processJpegEvt \/ sendDataNotify \/ JpegEvtDropped
NtfThread == NtfStart \/ NtfStop \/ NtfNothing \/ NtfError \/ NtfJpeg \/ Delivered

Next ==
    \/ JpegThreads \/ JpegFails \/ SrcFrame \/ SrcThread \/ RepThread \/ DataThread
    \/ DefThread \/ SmThread \/ NtfThread \/ AppTake \/ AppCancel

Spec == Init /\ [][Next]_vars

(* The threads go on, the encoder ends what it began, and the daemon
   delivers the frames it was asked for. *)
Fairness ==
    /\ WF_vars(Manager /\ NotPP) /\ WF_vars(Encoder /\ NotPP) /\ WF_vars(Abort /\ NotPP)
    /\ WF_vars(SrcFrame) /\ WF_vars(SrcThread) /\ WF_vars(RepThread) /\ WF_vars(DataThread)
    /\ WF_vars(DefThread) /\ WF_vars(SmThread) /\ WF_vars(NtfThread)
FairSpec == Spec /\ Fairness

-----------------------------------------------------------------------------
(* Type invariant.  What is not obvious of it: the reprocess channel is never
   asked for more frames than it has buffers, the encoder has at most
   Concurrent jobs, and the notifier never counts more JPEGs than it expects,
   whatever is left over from the capture before. *)
Jobs == [frame : Frames, id : Nat]
TypeOK ==
    /\ sc \in Scenarios
    /\ DOMAIN q = {"inPP", "onPP", "inJpeg", "onJpeg"}
    /\ \A k \in DOMAIN q : q[k] \in Seq(Jobs)
    /\ Len(q.onPP) <= PPBufs
    /\ open \in [{"inPP", "onPP", "inJpeg"} -> BOOLEAN]
    /\ data.cmds \in Seq({"START_DATA_PROC", "STOP_DATA_PROC", DO_NEXT_JOB})
    /\ data.job \in Frames \cup {Idle}
    /\ src.seen \in 0..sc.n * sc.captures /\ src.due \in 0..sc.n
    /\ rep.owed \in Seq(Frames) /\ rep.frame \in Frames \cup {Idle}
    /\ def \in {"idle", "start", "wait", "jpeg_session"}
    /\ sm.state \in {"PREVIEWING", "PIC_TAKING"} /\ sm.pc \in {"idle", "wait", "channel", "notify"}
    /\ ntf.expected \in 0..sc.n /\ ntf.received \in 0..ntf.expected
    /\ app.taken \in 0..sc.captures /\ app.got \in 0..sc.n - 1
    /\ app.cancels \in 0..sc.cancels
    /\ back \in [Buffers -> 0..1] /\ kept \subseteq Buffers
    /\ todo \in Seq([id : Nat, frame : Frames]) /\ ongoing \in Seq([id : Nat, frame : Frames])
    /\ Len(ongoing) <= Concurrent /\ tokens \in Nat /\ jobHist \in Nat
    /\ mgr \in {"asleep", "goes_on"} /\ client \in {"out", "abort", "destroy"}
    /\ omx \in {"idle", "encoding", "reported", "removed"}

(* The buffers somebody has: each queue, and whoever is between two. *)
Places ==
    [inPP |-> BufsOf("inPP"), onPP |-> BufsOf("onPP"),
     inJpeg |-> BufsOf("inJpeg"), onJpeg |-> BufsOf("onJpeg"),
     src |-> IF src.pc = "process" THEN {Source(src.frame)} ELSE {},
     rep |-> IF rep.pc = "enqueue" THEN jpegBufs(rep.frame)
             ELSE IF rep.pc = "process" THEN {Output(rep.frame)} ELSE {},
     data |-> IF data.pc = "release" THEN jpegBufs(data.job) ELSE {},
     daemon |-> {Output(rep.owed[i]) : i \in DOMAIN rep.owed},
     kept |-> kept]
Out == {Source(f) : f \in 1..src.seen}

(* A buffer that left its channel is with exactly one of those who handle it,
   or was returned, once. *)
OnePlace ==
    /\ \A b \in Buffers : back[b] + Cardinality({p \in DOMAIN Places : b \in Places[p]}) <= 1
    /\ \A b \in Out : back[b] = 1 \/ \E p \in DOMAIN Places : b \in Places[p]
    /\ \A k \in DOMAIN q : IsInjective([i \in DOMAIN q[k] |-> q[k][i].frame])

(* The encoder reads the buffers of its job, and they are not returned
   before it has ended or was stopped. *)
EncoderOwns ==
    omx = "encoding" => \A b \in jpegBufs(session.job.frame) : back[b] = 0 /\ b \notin kept

(* The daemon reads the source of a frame that it reprocesses; only a stop
   takes it away, which then stops the reprocess channel as well. *)
DaemonReads ==
    sm.pc # "wait" => \A i \in DOMAIN rep.owed : back[Source(rep.owed[i])] = 0

(* A reprocessed frame meets the job it was made from. *)
OwnJob == rep.pc = "process" /\ q.onPP # <<>> => Head(q.onPP).frame = rep.frame

(* When a capture is over no frame stays behind: queues and encoder are empty,
   and every buffer was returned or is known to be kept. *)
NothingLeft ==
    sm.state = "PREVIEWING" /\ sm.pc = "idle" /\ src.pc \in {"idle", "send"} =>
        /\ \A k \in DOMAIN q : q[k] = <<>>
        /\ todo = <<>> /\ omx = "idle"
        /\ \A b \in Out : back[b] = 1 \/ b \in kept

FramesAccounted == OnePlace /\ EncoderOwns /\ DaemonReads /\ OwnJob /\ NothingLeft

(* Two ways in which a cancelled capture spoils the next one.  The START for
   the notifier went in front of the STOP of the capture before, which is
   handled after it and ends the new snapshot mode; ... *)
Overtaken ==
    \E i, j \in DOMAIN ntf.cmds :
        i < j /\ ntf.cmds[i] = "START_DATA_PROC" /\ ntf.cmds[j] = "STOP_DATA_PROC"
(* ... or the JPEG of the capture before made the data thread look for a job,
   and so stop the CAPTURE channel before its frame. *)
StoppedEarly == sm.state = "PIC_TAKING" /\ ~src.on /\ src.due > 0

(* A picture that is asked for comes, or an error does, unless the application
   cancels it or one that it cancelled before was not quite over. *)
PictureArrives ==
    "TAKE_PICTURE" \in Range(sm.api_queue) ~>
        (~app.busy \/ app.error \/ Overtaken \/ StoppedEarly)
=============================================================================
