------------------------- MODULE QCameraStateMachine -------------------------
(***************************************************************************)
(* QCameraStateMachine (src/camera/QCamera2/HAL/QCameraStateMachine.cpp):  *)
(* one thread takes commands from two queues and runs a handler that       *)
(* depends on the state.  A handler calls into QCamera2HardwareInterface   *)
(* (module QCamera2Hardware), moves m_state and hands result records to    *)
(* signalAPIResult / signalEvtResult, here the variable replies.           *)
(*                                                                         *)
(* Next to it runs the live snapshot thread, which handlers start and join *)
(* and which uses the same channels.                                       *)
(*                                                                         *)
(* A handler is one action: everything it changes is owned by the state    *)
(* machine thread, except the channels the live snapshot thread touches,   *)
(* and those only while the handlers that delete them would join it first. *)
(* The payload of an event is the set of flags that are set in it.         *)
(***************************************************************************)
EXTENDS QCamera2Hardware, Sequences

CONSTANTS
    Senders,         \* who may call procAPI (a ghost carried by each node)
    HAL,             \* the sender of commands the HAL posts to itself
    NoThread,        \* TRUE: pthread_create may fail
    RestartEnabled,  \* persist.camera.feature.restart is 1
    ManualCapture3   \* getManualCaptureMode() >= CAM_MANUAL_CAPTURE_TYPE_3

ASSUME StateMachineAssumption ==
    /\ HAL \notin Senders
    /\ NoThread \in BOOLEAN
    /\ RestartEnabled \in BOOLEAN
    /\ ManualCapture3 \in BOOLEAN

VARIABLES
    api_queue, evt_queue,  \* the two command queues
    m_state,
    hw,                    \* the QCamera2HardwareInterface object
    msgs,                  \* CAMERA_MSG_PREVIEW_FRAME: on, delay, delayed
    m_RestoreZSL,
    live,                  \* the live snapshot thread
    replies,               \* results the last handler has still to signal
    running                \* the thread has not seen EXIT

smVars == <<api_queue, evt_queue, m_state, hw, msgs, m_RestoreZSL, live,
            replies, running>>

State == {"PREVIEW_STOPPED", "PREVIEW_READY", "PREVIEWING",
          "PREPARE_SNAPSHOT", "PIC_TAKING", "RECORDING",
          "VIDEO_PIC_TAKING", "PREVIEW_PIC_TAKING"}

(* QUERY stands for the requests that change nothing modelled: callbacks,  *)
(* parameter reads, meta data, dump, auto focus, face registration.        *)
ApiEvt == {"SET_PREVIEW_WINDOW", "QUERY", "ENABLE_MSG_TYPE",
           "DISABLE_MSG_TYPE", "SET_PARAMS", "SET_PARAMS_STOP",
           "SET_PARAMS_COMMIT", "SET_PARAMS_RESTART", "PREPARE_PREVIEW",
           "START_PREVIEW", "START_NODISPLAY_PREVIEW", "STOP_PREVIEW",
           "PREVIEW_ENABLED", "PRE_START_RECORDING", "START_RECORDING",
           "STOP_RECORDING", "RELEASE_RECORDING_FRAME", "PREPARE_SNAPSHOT",
           "PRE_TAKE_PICTURE", "TAKE_PICTURE", "CANCEL_PICTURE",
           "SEND_COMMAND", "RELEASE", "STOP_CAPTURE_CHANNEL",
           "SNAPSHOT_DONE"}

InternalEvt == {"SNAPSHOT_DONE", "PREP_SNAPSHOT_DONE", "READY_FOR_SNAPSHOT",
                "DAEMON_DIED"}

Evt == ApiEvt \cup InternalEvt \cup {"NONE"}

Flag == {"window", "zsl", "hint", "other", "LONGSHOT_ON", "LONGSHOT_OFF"}

Cmd == [cmd : {"API", "EVT", "EXIT"}, evt : Evt, arg : SUBSET Flag,
        from : Senders \cup {HAL}]

(* kind says which of the two result channels of the HWI the record goes   *)
(* to; from is the sender of the command the result answers.               *)
Reply == [kind : {"API", "EVT"}, evt : Evt, status : Status,
          from : Senders \cup {HAL}]

Msgs == [on : BOOLEAN, delay : BOOLEAN, delayed : BOOLEAN]

isCaptureRunning ==
    m_state \in {"PIC_TAKING", "VIDEO_PIC_TAKING", "PREVIEW_PIC_TAKING"}

isRecording == m_state \in {"RECORDING", "VIDEO_PIC_TAKING"}

isPreviewRunning ==
    m_state \in {"PREVIEWING", "RECORDING", "VIDEO_PIC_TAKING",
                 "PREVIEW_PIC_TAKING", "PREPARE_SNAPSHOT", "PREVIEW_READY"}

SmInit ==
    /\ api_queue = <<>> /\ evt_queue = <<>>
    /\ m_state = "PREVIEW_STOPPED"
    /\ hw = InitHardware
    /\ msgs = [on |-> FALSE, delay |-> FALSE, delayed |-> FALSE]
    /\ m_RestoreZSL = TRUE
    /\ live = "none"
    /\ replies = <<>>
    /\ running = TRUE

-----------------------------------------------------------------------------
(* The queues *)

(* Mutation: the two kinds of a command are swapped. *)
Node_Swapped(c, e, a, f) == [cmd |-> e, evt |-> c, arg |-> a, from |-> f]

Node(c, e, a, f) == [cmd |-> c, evt |-> e, arg |-> a, from |-> f]

procAPI(e, a, f) == api_queue' = Append(api_queue, Node("API", e, a, f))

procEvt(e) == evt_queue' = Append(evt_queue, Node("EVT", e, {}, HAL))

(* The thread waits for a command; its previous results are out. *)
Idle == running /\ replies = <<>>

(* smEvtProcRoutine looks at the API queue first. *)
Next_cmd == IF api_queue # <<>> THEN Head(api_queue) ELSE Head(evt_queue)

On(s, E) == /\ Idle
            /\ api_queue # <<>> \/ evt_queue # <<>>
            /\ m_state = s
            /\ Next_cmd.cmd # "EXIT"
            /\ Next_cmd.evt \in E

-----------------------------------------------------------------------------
(* What a handler leaves behind *)

Result(k, e, s) ==
    [kind |-> k, evt |-> e, status |-> s, from |-> Next_cmd.from]

(***************************************************************************)
(* The handler ends in state s with object h, having produced the results  *)
(* rs, and the command is gone.  A SNAPSHOT_DONE that h raised is appended *)
(* to the event queue.                                                     *)
(***************************************************************************)
Finish(s, h, rs) ==
    LET raised == IF h.raised
                  THEN <<Node("EVT", "SNAPSHOT_DONE", {}, HAL)>> ELSE <<>>
    IN  /\ m_state' = s
        /\ hw' = [h EXCEPT !.raised = FALSE]
        /\ replies' = rs
        /\ IF api_queue # <<>>
           THEN /\ api_queue' = Tail(api_queue)
                /\ evt_queue' = evt_queue \o raised
           ELSE /\ evt_queue' = Tail(evt_queue) \o raised
                /\ UNCHANGED api_queue
        /\ UNCHANGED running

(* The usual end: one API result with the request's own code. *)
Answer(s, o) == Finish(s, o.hw, <<Result("API", Next_cmd.evt, o.rc)>>)

Refuse(s, E) ==
    /\ On(s, E)
    /\ Finish(s, hw, <<Result("API", Next_cmd.evt, "INVALID")>>)
    /\ UNCHANGED <<msgs, m_RestoreZSL, live>>

Acknowledge(s, E) ==
    /\ On(s, E)
    /\ Answer(s, Ok(hw))
    /\ UNCHANGED <<msgs, m_RestoreZSL, live>>

(* Events that reach no case, or one that only logs or notifies. *)
Ignore(s, E) ==
    /\ On(s, E)
    /\ Finish(s, hw, <<>>)
    /\ UNCHANGED <<msgs, m_RestoreZSL, live>>

(* A handler that changes the object only, with any of the outcomes S. *)
Apply(s, E, S) ==
    /\ On(s, E)
    /\ \E o \in S : Answer(s, o)
    /\ UNCHANGED <<msgs, m_RestoreZSL, live>>

(* Mutations: the messages are kept aside for ever, or dropped. *)
applyDelayedMsgs_Keeps(m) == [m EXCEPT !.delay = FALSE]

applyDelayedMsgs_Drops(m) ==
    [on |-> m.on, delay |-> FALSE, delayed |-> m.delayed /\ ~ m.delay]

applyDelayedMsgs(m) ==
    [on |-> m.on \/ (m.delay /\ m.delayed), delay |-> FALSE,
     delayed |-> m.delayed /\ ~ m.delay]

(***************************************************************************)
(* preparePreview; applyDelayedMsgs and startPreview once it succeeded;    *)
(* and, where the caller undoes it, unpreparePreview after a failed start. *)
(* prepared says that applyDelayedMsgs was reached.                        *)
(***************************************************************************)
BringUp(h, cap, undo) ==
    UNION {IF o.rc = "ERR"
           THEN {[rc |-> "ERR", hw |-> o.hw, prepared |-> FALSE]}
           ELSE {[rc |-> s.rc, prepared |-> TRUE,
                  hw |-> IF s.rc = "ERR" /\ undo THEN unpreparePreview(s.hw)
                         ELSE s.hw] : s \in startPreview(o.hw)} :
              o \in preparePreview(h, cap)}

DelayedUnless(prepared) ==
    msgs' = IF prepared THEN applyDelayedMsgs(msgs) ELSE msgs

(* enableMsgType and disableMsgType of CAMERA_MSG_PREVIEW_FRAME. *)
EnableMsg(s) ==
    /\ On(s, {"ENABLE_MSG_TYPE"})
    /\ Answer(s, Ok(hw))
    /\ msgs' = [msgs EXCEPT !.on = TRUE]
    /\ UNCHANGED <<m_RestoreZSL, live>>

DisableMsg(s) ==
    /\ On(s, {"DISABLE_MSG_TYPE"})
    /\ Answer(s, Ok(hw))
    /\ msgs' = [msgs EXCEPT !.on = FALSE]
    /\ UNCHANGED <<m_RestoreZSL, live>>

(* setParameters of the application, without the restart it may need. *)
SetParams(s) == Apply(s, {"SET_PARAMS"}, updateParameters(hw, Next_cmd.arg))

CommitParams(s) == Apply(s, {"SET_PARAMS_COMMIT"}, commitParameterChanges(hw))

(* needRestart is cleared and nothing is restarted. *)
ForgetRestart(s) ==
    Apply(s, {"SET_PARAMS_RESTART"}, {Ok([hw EXCEPT !.needRestart = FALSE])})

(* SNAPSHOT_DONE when nothing has to be done: the notifier is released. *)
EvtDone(s) ==
    /\ On(s, {"SNAPSHOT_DONE"})
    /\ Finish(s, hw, <<Result("EVT", "SNAPSHOT_DONE", "OK")>>)
    /\ UNCHANGED <<msgs, m_RestoreZSL, live>>

(* Mutation: the wait for the preparation of the flash is forgotten. *)
DaemonDied_TakeOnly(s) ==
    /\ On(s, {"DAEMON_DIED"})
    /\ Finish(s, hw, <<Result("API", "TAKE_PICTURE", "OK")>>)
    /\ UNCHANGED <<msgs, m_RestoreZSL, live>>

(* The daemon died: two results stop the waits for its events. *)
DaemonDied(s) ==
    /\ On(s, {"DAEMON_DIED"})
    /\ Finish(s, hw, <<Result("API", "PREPARE_SNAPSHOT", "OK"),
                       Result("API", "TAKE_PICTURE", "OK")>>)
    /\ UNCHANGED <<msgs, m_RestoreZSL, live>>

-----------------------------------------------------------------------------
(* QCAMERA_SM_STATE_PREVIEW_STOPPED *)

(* Handlers that first wait for the deferred parameter initialisation fail *)
(* when that work failed.                                                  *)
StoppedInitFailed ==
    Apply("PREVIEW_STOPPED",
          {"ENABLE_MSG_TYPE", "DISABLE_MSG_TYPE", "SET_PARAMS", "QUERY",
           "PREPARE_PREVIEW", "START_PREVIEW", "START_NODISPLAY_PREVIEW",
           "SEND_COMMAND"}, MayErr({hw}))

StoppedAcknowledged ==
    Acknowledge("PREVIEW_STOPPED",
                {"QUERY", "SET_PARAMS_STOP", "STOP_PREVIEW",
                 "PREVIEW_ENABLED", "CANCEL_PICTURE"})

StoppedRefused ==
    Refuse("PREVIEW_STOPPED",
           {"RELEASE_RECORDING_FRAME", "PRE_START_RECORDING",
            "START_RECORDING", "STOP_RECORDING", "PREPARE_SNAPSHOT",
            "PRE_TAKE_PICTURE", "TAKE_PICTURE"})

StoppedSetWindow ==
    Apply("PREVIEW_STOPPED", {"SET_PREVIEW_WINDOW"},
          {Ok([hw EXCEPT !.window = "window" \in Next_cmd.arg])})

(* PREPARE_PREVIEW, and START_PREVIEW while there is no window. *)
StoppedPrepare ==
    /\ \/ On("PREVIEW_STOPPED", {"PREPARE_PREVIEW"})
       \/ On("PREVIEW_STOPPED", {"START_PREVIEW"}) /\ ~ hw.window
    /\ \E o \in preparePreview(hw, FALSE) :
          Answer(IF o.rc = "OK" THEN "PREVIEW_READY" ELSE m_state, o)
    /\ UNCHANGED <<msgs, m_RestoreZSL, live>>

StoppedStart ==
    /\ \/ On("PREVIEW_STOPPED", {"START_PREVIEW"}) /\ hw.window
       \/ On("PREVIEW_STOPPED", {"START_NODISPLAY_PREVIEW"})
    /\ \E o \in BringUp(hw, FALSE, TRUE) :
          /\ Answer(IF o.rc = "OK" THEN "PREVIEWING" ELSE m_state, o)
          /\ DelayedUnless(o.prepared)
    /\ UNCHANGED <<m_RestoreZSL, live>>

StoppedRelease ==
    Apply("PREVIEW_STOPPED", {"RELEASE"}, {Ok(releaseChannels(hw))})

StoppedSendCommand ==
    Apply("PREVIEW_STOPPED", {"SEND_COMMAND"},
          sendCommand(hw, Next_cmd.arg, isCaptureRunning))

procEvtPreviewStoppedState ==
    \/ StoppedInitFailed \/ StoppedAcknowledged \/ StoppedRefused
    \/ StoppedSetWindow \/ StoppedPrepare \/ StoppedStart
    \/ StoppedRelease \/ StoppedSendCommand
    \/ EnableMsg("PREVIEW_STOPPED") \/ DisableMsg("PREVIEW_STOPPED")
    \/ SetParams("PREVIEW_STOPPED") \/ CommitParams("PREVIEW_STOPPED")
    \/ ForgetRestart("PREVIEW_STOPPED") \/ EvtDone("PREVIEW_STOPPED")
    \/ Ignore("PREVIEW_STOPPED",
              {"STOP_CAPTURE_CHANNEL", "PREP_SNAPSHOT_DONE",
               "READY_FOR_SNAPSHOT", "DAEMON_DIED"})

-----------------------------------------------------------------------------
(* QCAMERA_SM_STATE_PREVIEW_READY *)

ReadyAcknowledged ==
    Acknowledge("PREVIEW_READY", {"QUERY", "PREPARE_PREVIEW",
                                  "PREVIEW_ENABLED"})

ReadyRefused ==
    Refuse("PREVIEW_READY",
           {"RELEASE_RECORDING_FRAME", "PRE_START_RECORDING",
            "START_RECORDING", "STOP_RECORDING", "PREPARE_SNAPSHOT",
            "PRE_TAKE_PICTURE", "TAKE_PICTURE", "CANCEL_PICTURE",
            "RELEASE"})

(* startPreview of the prepared channels; the state that follows. *)
ReadyStarted(h) ==
    {IF o.rc = "OK" THEN o ELSE Err(unpreparePreview(o.hw)) :
        o \in startPreview(h)}

AfterStart(rc) == IF rc = "OK" THEN "PREVIEWING" ELSE "PREVIEW_STOPPED"

(* The window arrives: preview starts. *)
ReadySetWindow ==
    /\ On("PREVIEW_READY", {"SET_PREVIEW_WINDOW"})
    /\ LET w == "window" \in Next_cmd.arg
           h == [hw EXCEPT !.window = w]
       IN  IF w
           THEN /\ \E o \in ReadyStarted(h) : Answer(AfterStart(o.rc), o)
                /\ DelayedUnless(TRUE)
           ELSE /\ Answer("PREVIEW_READY", Ok(h))
                /\ UNCHANGED msgs
    /\ UNCHANGED <<m_RestoreZSL, live>>

(* The result says NO_ERROR whether preview started or not. *)
ReadyStart ==
    /\ \/ On("PREVIEW_READY", {"START_NODISPLAY_PREVIEW"})
       \/ On("PREVIEW_READY", {"START_PREVIEW"}) /\ hw.window
    /\ \E o \in ReadyStarted(hw) : Answer(AfterStart(o.rc), Ok(o.hw))
    /\ UNCHANGED <<msgs, m_RestoreZSL, live>>

ReadyStartWithoutWindow ==
    /\ On("PREVIEW_READY", {"START_PREVIEW"}) /\ ~ hw.window
    /\ Answer("PREVIEW_READY", Ok(hw))
    /\ UNCHANGED <<msgs, m_RestoreZSL, live>>

ReadyStop ==
    /\ On("PREVIEW_READY", {"STOP_PREVIEW"})
    /\ Answer("PREVIEW_STOPPED", Ok(unpreparePreview(hw)))
    /\ UNCHANGED <<msgs, m_RestoreZSL, live>>

ReadyParamsStop ==
    Apply("PREVIEW_READY", {"SET_PARAMS_STOP"}, {Ok(unpreparePreview(hw))})

ReadyParamsRestart ==
    /\ On("PREVIEW_READY", {"SET_PARAMS_RESTART"})
    /\ \E o \in preparePreview(hw, FALSE) :
          Answer(IF o.rc = "OK" THEN "PREVIEW_READY" ELSE "PREVIEW_STOPPED",
                 [o EXCEPT !.hw.needRestart = FALSE])
    /\ UNCHANGED <<msgs, m_RestoreZSL, live>>

ReadySendCommand ==
    Apply("PREVIEW_READY", {"SEND_COMMAND"},
          sendCommand(hw, Next_cmd.arg, isCaptureRunning))

procEvtPreviewReadyState ==
    \/ ReadyAcknowledged \/ ReadyRefused \/ ReadySetWindow \/ ReadyStart
    \/ ReadyStartWithoutWindow \/ ReadyStop \/ ReadyParamsStop
    \/ ReadyParamsRestart \/ ReadySendCommand
    \/ EnableMsg("PREVIEW_READY") \/ DisableMsg("PREVIEW_READY")
    \/ SetParams("PREVIEW_READY") \/ CommitParams("PREVIEW_READY")
    \/ EvtDone("PREVIEW_READY")
    \/ Ignore("PREVIEW_READY",
              {"STOP_CAPTURE_CHANNEL", "PREP_SNAPSHOT_DONE",
               "READY_FOR_SNAPSHOT", "DAEMON_DIED"})

-----------------------------------------------------------------------------
(* QCAMERA_SM_STATE_PREVIEWING *)

PreviewingAcknowledged ==
    Acknowledge("PREVIEWING", {"QUERY", "PREPARE_PREVIEW"})

PreviewingRefused ==
    Refuse("PREVIEWING",
           {"SET_PREVIEW_WINDOW", "RELEASE_RECORDING_FRAME",
            "CANCEL_PICTURE", "STOP_RECORDING", "RELEASE"})

(* A frame message asked for while messages are delayed is kept aside. *)
PreviewingEnableMsg ==
    /\ On("PREVIEWING", {"ENABLE_MSG_TYPE"})
    /\ Answer("PREVIEWING", Ok(hw))
    /\ msgs' = IF msgs.delay THEN [msgs EXCEPT !.delayed = TRUE]
               ELSE [msgs EXCEPT !.on = TRUE]
    /\ UNCHANGED <<m_RestoreZSL, live>>

PreviewingDisableMsg ==
    /\ On("PREVIEWING", {"DISABLE_MSG_TYPE"})
    /\ Answer("PREVIEWING", Ok(hw))
    /\ msgs' = [on |-> FALSE, delay |-> msgs.delay /\ ~ msgs.delayed,
                delayed |-> msgs.delayed /\ ~ msgs.delay]
    /\ UNCHANGED <<m_RestoreZSL, live>>

PreviewingParamsStop ==
    Apply("PREVIEWING", {"SET_PARAMS_STOP"}, {Ok(stopPreview(hw))})

(* A failed start ends in PREVIEW_STOPPED, a failed prepare changes no     *)
(* state.                                                                  *)
PreviewingParamsRestart ==
    /\ On("PREVIEWING", {"SET_PARAMS_RESTART"})
    /\ \E o \in BringUp(hw, FALSE, TRUE) :
          /\ Answer(IF o.prepared THEN AfterStart(o.rc) ELSE "PREVIEWING",
                    [o EXCEPT !.hw.needRestart = FALSE])
          /\ DelayedUnless(o.prepared)
    /\ UNCHANGED <<m_RestoreZSL, live>>

(* START_PREVIEW and the query of preview release the delayed messages. *)
PreviewingStartAgain ==
    /\ On("PREVIEWING", {"START_PREVIEW", "START_NODISPLAY_PREVIEW",
                         "PREVIEW_ENABLED"})
    /\ Answer("PREVIEWING", Ok(hw))
    /\ DelayedUnless(TRUE)
    /\ UNCHANGED <<m_RestoreZSL, live>>

PreviewingStop ==
    /\ On("PREVIEWING", {"STOP_PREVIEW"})
    /\ Answer("PREVIEW_STOPPED", Ok(stopPreview(hw)))
    /\ DelayedUnless(TRUE)
    /\ UNCHANGED <<m_RestoreZSL, live>>

PreviewingPreStartRecording ==
    Apply("PREVIEWING", {"PRE_START_RECORDING"},
          preStartRecording(hw, FALSE))

(* Mutation: a failure to start the channel is not looked at. *)
PreviewingStartRecording_Anyway ==
    /\ On("PREVIEWING", {"START_RECORDING"})
    /\ \E o \in startRecording(hw) : Answer("RECORDING", o)
    /\ DelayedUnless(TRUE)
    /\ UNCHANGED <<m_RestoreZSL, live>>

PreviewingStartRecording ==
    /\ On("PREVIEWING", {"START_RECORDING"})
    /\ \E o \in startRecording(hw) :
          /\ Answer(IF o.rc = "OK" THEN "RECORDING" ELSE "PREVIEWING", o)
          /\ DelayedUnless(o.rc = "OK")
    /\ UNCHANGED <<m_RestoreZSL, live>>

(* No result on success: PREP_SNAPSHOT_DONE will bring it. *)
PreviewingPrepareSnapshot ==
    /\ On("PREVIEWING", {"PREPARE_SNAPSHOT"})
    /\ \/ /\ Finish("PREPARE_SNAPSHOT", hw, <<>>)
          /\ DelayedUnless(TRUE)
       \/ /\ \E o \in MayErr({hw}) : Answer("PREVIEWING", o)
          /\ UNCHANGED msgs
    /\ UNCHANGED <<m_RestoreZSL, live>>

PreviewingPreTakePicture ==
    Apply("PREVIEWING", {"PRE_TAKE_PICTURE"}, preTakePicture(hw, FALSE))

(* TAKE_PICTURE leaves camcorder mode first; nobody looks at the outcome. *)
WithoutHint(h) ==
    IF ~ h.p.hint THEN {h}
    ELSE {o.hw : o \in UNION {prepareStartOrUndo(g, FALSE) :
             g \in updateRecordingHintValue(stopPreview(h), FALSE)}}

EarlyRestart == RestartEnabled /\ ManualCapture3

ZslOrLongshot(h) == h.p.zsl \/ h.longshot

(* The ZSL capture, or a longshot: preview keeps running.  A retro picture *)
(* has its result sent when the daemon is ready for the snapshot.          *)
PreviewingTakeZsl ==
    /\ On("PREVIEWING", {"TAKE_PICTURE"})
    /\ \E h \in WithoutHint(hw) :
          /\ ZslOrLongshot(h) /\ ~ EarlyRestart
          /\ \E o \in takePicture(h) :
                IF o.rc = "OK" /\ o.hw.retro
                THEN Finish("PREVIEW_PIC_TAKING", o.hw, <<>>)
                ELSE Answer(IF o.rc = "OK" THEN "PREVIEW_PIC_TAKING"
                            ELSE "PREVIEWING", o)
    /\ msgs' = [msgs EXCEPT !.delay = TRUE]
    /\ UNCHANGED <<m_RestoreZSL, live>>

(* The same with an early restart of preview: ZSL is switched off. *)
PreviewingTakeRestart ==
    /\ On("PREVIEWING", {"TAKE_PICTURE"})
    /\ \E h \in WithoutHint(hw) :
          /\ ZslOrLongshot(h) /\ EarlyRestart
          /\ \E g \in updateZSLModeValue(stopPreview(h), FALSE) :
             \E o \in takePicture(g) :
                IF o.rc = "OK" /\ o.hw.retro
                THEN Finish("PIC_TAKING", o.hw, <<>>)
                ELSE Answer(IF o.rc = "OK" THEN "PIC_TAKING"
                            ELSE "PREVIEWING", o)
    /\ msgs' = [msgs EXCEPT !.delay = TRUE]
    /\ m_RestoreZSL' = TRUE
    /\ UNCHANGED live

(* The regular capture; after a failure preview is brought up again. *)
PreviewingTakeRegular ==
    /\ On("PREVIEWING", {"TAKE_PICTURE"})
    /\ \E h \in WithoutHint(hw) :
          /\ ~ ZslOrLongshot(h)
          /\ \E o \in takePicture(h) :
                IF o.rc = "OK" THEN Answer("PIC_TAKING", o)
                ELSE \E b \in prepareStartOrUndo(stopPreview(o.hw), TRUE) :
                        Answer(AfterStart(b.rc), Err(b.hw))
    /\ UNCHANGED <<msgs, m_RestoreZSL, live>>

(***************************************************************************)
(* LONGSHOT_ON may find that the running ZSL channel has too few buffers:  *)
(* preview is then restarted.  How many it has is not modelled.            *)
(***************************************************************************)
PreviewingSendCommand ==
    /\ On("PREVIEWING", {"SEND_COMMAND"})
    /\ \E o \in sendCommand(hw, Next_cmd.arg, FALSE) :
          \/ Answer("PREVIEWING", o) /\ UNCHANGED msgs
          \/ /\ "LONGSHOT_ON" \in Next_cmd.arg
             /\ o.hw.p.zsl /\ o.hw.ch["ZSL"] # "null"
             /\ \E b \in BringUp(stopPreview(o.hw), FALSE, TRUE) :
                   /\ Answer("PREVIEWING", b)
                   /\ DelayedUnless(b.prepared)
    /\ UNCHANGED <<m_RestoreZSL, live>>

procEvtPreviewingState ==
    \/ PreviewingAcknowledged \/ PreviewingRefused \/ PreviewingEnableMsg
    \/ PreviewingDisableMsg \/ PreviewingParamsStop
    \/ PreviewingParamsRestart \/ PreviewingStartAgain \/ PreviewingStop
    \/ PreviewingPreStartRecording \/ PreviewingStartRecording
    \/ PreviewingPrepareSnapshot \/ PreviewingPreTakePicture
    \/ PreviewingTakeZsl \/ PreviewingTakeRestart \/ PreviewingTakeRegular
    \/ PreviewingSendCommand
    \/ SetParams("PREVIEWING") \/ CommitParams("PREVIEWING")
    \/ EvtDone("PREVIEWING")
    \/ Ignore("PREVIEWING", {"STOP_CAPTURE_CHANNEL", "PREP_SNAPSHOT_DONE",
                             "READY_FOR_SNAPSHOT", "DAEMON_DIED"})

-----------------------------------------------------------------------------
(* QCAMERA_SM_STATE_PREPARE_SNAPSHOT: every request is refused *)

PrepareSnapshotRefused ==
    Refuse("PREPARE_SNAPSHOT",
           ApiEvt \ {"STOP_CAPTURE_CHANNEL", "SNAPSHOT_DONE"})

(* The metadata say that the flash is ready: PREPARE_SNAPSHOT is answered. *)
PrepareSnapshotDone ==
    /\ On("PREPARE_SNAPSHOT", {"PREP_SNAPSHOT_DONE"})
    /\ Finish("PREVIEWING", hw, <<Result("API", "PREPARE_SNAPSHOT", "OK")>>)
    /\ UNCHANGED <<msgs, m_RestoreZSL, live>>

procEvtPrepareSnapshotState ==
    \/ PrepareSnapshotRefused \/ PrepareSnapshotDone
    \/ DaemonDied("PREPARE_SNAPSHOT") \/ EvtDone("PREPARE_SNAPSHOT")
    \/ Ignore("PREPARE_SNAPSHOT",
              {"STOP_CAPTURE_CHANNEL", "READY_FOR_SNAPSHOT"})

-----------------------------------------------------------------------------
(* QCAMERA_SM_STATE_PIC_TAKING *)

PicTakingAcknowledged ==
    Acknowledge("PIC_TAKING", {"QUERY", "SET_PARAMS_STOP",
                               "PREVIEW_ENABLED"})

PicTakingRefused ==
    Refuse("PIC_TAKING",
           {"SET_PREVIEW_WINDOW", "PREPARE_SNAPSHOT", "PRE_START_RECORDING",
            "START_RECORDING", "STOP_RECORDING", "RELEASE_RECORDING_FRAME",
            "PREPARE_PREVIEW", "START_PREVIEW", "START_NODISPLAY_PREVIEW",
            "RELEASE"})

(* STOP_PREVIEW and CANCEL_PICTURE only cancel the capture. *)
PicTakingCancel ==
    /\ On("PIC_TAKING", {"STOP_PREVIEW", "CANCEL_PICTURE"})
    /\ Answer("PREVIEW_STOPPED", Ok(cancelPicture(hw)))
    /\ UNCHANGED <<msgs, m_RestoreZSL, live>>

AfterCommand(s) ==
    IF "LONGSHOT_OFF" \in Next_cmd.arg THEN "PREVIEWING" ELSE s

PicTakingSendCommand ==
    /\ On("PIC_TAKING", {"SEND_COMMAND"})
    /\ \E o \in sendCommand(hw, Next_cmd.arg, TRUE) :
          Answer(AfterCommand("PIC_TAKING"), o)
    /\ UNCHANGED <<msgs, m_RestoreZSL, live>>

(* The next picture of a longshot; anything else is refused. *)
LongshotPreTake(s) ==
    Apply(s, {"PRE_TAKE_PICTURE"}, IF hw.longshot THEN {Ok(hw)} ELSE {})

LongshotTake(s) ==
    Apply(s, {"TAKE_PICTURE"}, IF hw.longshot THEN longShot(hw) ELSE {})

NotLongshot(s) ==
    ~ hw.longshot /\ Refuse(s, {"PRE_TAKE_PICTURE", "TAKE_PICTURE"})

(* The post-processor has its frames: the capture channel stops and, if    *)
(* configured so, preview starts while the JPEG is still being encoded.    *)
PicTakingStopCaptureChannel ==
    /\ On("PIC_TAKING", {"STOP_CAPTURE_CHANNEL"})
    /\ LET o == stopCaptureChannel(hw)
       IN  IF RestartEnabled /\ o.rc = "OK"
           THEN \E b \in BringUp(o.hw, TRUE, FALSE) :
                   Answer("PIC_TAKING", b) /\ DelayedUnless(b.prepared)
           ELSE Answer("PIC_TAKING", o) /\ UNCHANGED msgs
    /\ UNCHANGED <<m_RestoreZSL, live>>

PicTakingDone ==
    /\ On("PIC_TAKING", {"SNAPSHOT_DONE"})
    /\ ~ EarlyRestart
    /\ Finish(IF RestartEnabled THEN "PREVIEWING" ELSE "PREVIEW_STOPPED",
              cancelPicture(hw), <<Result("EVT", "SNAPSHOT_DONE", "OK")>>)
    /\ UNCHANGED <<msgs, m_RestoreZSL, live>>

(* With the early restart ZSL is restored and preview brought up. *)
PicTakingDoneRestart ==
    /\ On("PIC_TAKING", {"SNAPSHOT_DONE"})
    /\ EarlyRestart
    /\ \E g \in updateZSLModeValue(cancelPicture(hw), m_RestoreZSL) :
       \E b \in BringUp(g, TRUE, FALSE) :
          /\ Finish("PREVIEWING", b.hw,
                    <<Result("EVT", "SNAPSHOT_DONE", b.rc)>>)
          /\ DelayedUnless(b.prepared)
    /\ m_RestoreZSL' = FALSE
    /\ UNCHANGED live

procEvtPicTakingState ==
    \/ PicTakingAcknowledged \/ PicTakingRefused \/ PicTakingCancel
    \/ PicTakingSendCommand \/ PicTakingStopCaptureChannel
    \/ PicTakingDone \/ PicTakingDoneRestart
    \/ LongshotPreTake("PIC_TAKING") \/ LongshotTake("PIC_TAKING")
    \/ NotLongshot("PIC_TAKING")
    \/ EnableMsg("PIC_TAKING") \/ DisableMsg("PIC_TAKING")
    \/ SetParams("PIC_TAKING") \/ CommitParams("PIC_TAKING")
    \/ ForgetRestart("PIC_TAKING") \/ DaemonDied("PIC_TAKING")
    \/ Ignore("PIC_TAKING", {"PREP_SNAPSHOT_DONE", "READY_FOR_SNAPSHOT"})

-----------------------------------------------------------------------------
(* The live snapshot thread, as the handlers start it *)

(* takeLiveSnapshot and cancelLiveSnapshot join the previous thread first. *)
Joined == live = "none"

(* QCAMERA_SM_STATE_RECORDING *)

(* Parameters that need a restart are refused, but updateParameters has    *)
(* already taken them.                                                     *)
RecordingSetParams(s) ==
    /\ On(s, {"SET_PARAMS"})
    /\ \E o \in updateParameters(hw, Next_cmd.arg) :
          Answer(s, IF o.rc = "OK" /\ ~ o.hw.needRestart THEN o
                    ELSE Err([o.hw EXCEPT !.needRestart = FALSE]))
    /\ UNCHANGED <<msgs, m_RestoreZSL, live>>

RecordingAcknowledged ==
    Acknowledge("RECORDING",
                {"QUERY", "PREPARE_PREVIEW", "START_PREVIEW",
                 "SET_PREVIEW_WINDOW", "PREVIEW_ENABLED",
                 "PRE_TAKE_PICTURE", "PRE_START_RECORDING",
                 "START_RECORDING", "RELEASE_RECORDING_FRAME",
                 "PREPARE_SNAPSHOT"})

RecordingRefused ==
    Refuse("RECORDING", {"SET_PARAMS_STOP", "SET_PARAMS_RESTART",
                         "CANCEL_PICTURE", "START_NODISPLAY_PREVIEW",
                         "RELEASE"})

RecordingSendCommand ==
    Apply("RECORDING", {"SEND_COMMAND"},
          sendCommand(hw, Next_cmd.arg, FALSE))

RecordingTakePicture ==
    /\ On("RECORDING", {"TAKE_PICTURE"})
    /\ Joined
    /\ \/ Answer("VIDEO_PIC_TAKING", Ok(hw)) /\ live' = "take"
       \/ NoThread /\ Answer("RECORDING", Err(hw)) /\ UNCHANGED live
    /\ UNCHANGED <<msgs, m_RestoreZSL>>

RecordingStop ==
    /\ On("RECORDING", {"STOP_RECORDING"})
    /\ Answer("PREVIEWING", stopRecording(hw))
    /\ UNCHANGED <<msgs, m_RestoreZSL, live>>

RecordingStopPreview ==
    /\ On("RECORDING", {"STOP_PREVIEW"})
    /\ Answer("PREVIEW_STOPPED", Ok(stopPreview(stopRecording(hw).hw)))
    /\ UNCHANGED <<msgs, m_RestoreZSL, live>>

procEvtRecordingState ==
    \/ RecordingAcknowledged \/ RecordingRefused \/ RecordingSendCommand
    \/ RecordingTakePicture \/ RecordingStop \/ RecordingStopPreview
    \/ RecordingSetParams("RECORDING") \/ CommitParams("RECORDING")
    \/ EnableMsg("RECORDING") \/ DisableMsg("RECORDING")
    \/ EvtDone("RECORDING")
    \/ Ignore("RECORDING", {"STOP_CAPTURE_CHANNEL", "PREP_SNAPSHOT_DONE",
                            "READY_FOR_SNAPSHOT", "DAEMON_DIED"})

-----------------------------------------------------------------------------
(* QCAMERA_SM_STATE_VIDEO_PIC_TAKING *)

VideoPicAcknowledged ==
    Acknowledge("VIDEO_PIC_TAKING",
                {"QUERY", "PREVIEW_ENABLED", "RELEASE_RECORDING_FRAME"})

VideoPicRefused ==
    Refuse("VIDEO_PIC_TAKING",
           {"SET_PREVIEW_WINDOW", "SET_PARAMS_STOP", "SET_PARAMS_RESTART",
            "PRE_START_RECORDING", "START_RECORDING", "PREPARE_PREVIEW",
            "START_PREVIEW", "START_NODISPLAY_PREVIEW", "PREPARE_SNAPSHOT",
            "PRE_TAKE_PICTURE", "TAKE_PICTURE", "RELEASE"})

VideoPicSendCommand ==
    Apply("VIDEO_PIC_TAKING", {"SEND_COMMAND"},
          sendCommand(hw, Next_cmd.arg, TRUE))

(***************************************************************************)
(* cancelLiveSnapshot starts a thread for the work, unless it cannot; the  *)
(* handler goes on without waiting for it.                                 *)
(***************************************************************************)
cancelLiveSnapshot ==
    /\ Joined
    /\ live' \in {"cancel"} \cup IF NoThread THEN {"none"} ELSE {}

CancelLiveResult == IF live' = "none" THEN "ERR" ELSE "OK"

VideoPicCancel ==
    /\ On("VIDEO_PIC_TAKING", {"CANCEL_PICTURE"})
    /\ cancelLiveSnapshot
    /\ Answer("RECORDING", [rc |-> CancelLiveResult, hw |-> hw])
    /\ UNCHANGED <<msgs, m_RestoreZSL>>

VideoPicDone ==
    /\ On("VIDEO_PIC_TAKING", {"SNAPSHOT_DONE"})
    /\ cancelLiveSnapshot
    /\ Finish("RECORDING", hw,
              <<Result("EVT", "SNAPSHOT_DONE", CancelLiveResult)>>)
    /\ UNCHANGED <<msgs, m_RestoreZSL>>

(* Mutation: the live snapshot is not cancelled. *)
VideoPicStopRecording_LetsItRun ==
    /\ On("VIDEO_PIC_TAKING", {"STOP_RECORDING"})
    /\ Answer("PREVIEWING", stopRecording(hw))
    /\ UNCHANGED <<msgs, m_RestoreZSL, live>>

VideoPicStopRecording ==
    /\ On("VIDEO_PIC_TAKING", {"STOP_RECORDING"})
    /\ cancelLiveSnapshot
    /\ Answer("PREVIEWING", stopRecording(hw))
    /\ UNCHANGED <<msgs, m_RestoreZSL>>

VideoPicStopPreview ==
    /\ On("VIDEO_PIC_TAKING", {"STOP_PREVIEW"})
    /\ cancelLiveSnapshot
    /\ Answer("PREVIEW_STOPPED", Ok(stopPreview(stopRecording(hw).hw)))
    /\ UNCHANGED <<msgs, m_RestoreZSL>>

procEvtVideoPicTakingState ==
    \/ VideoPicAcknowledged \/ VideoPicRefused \/ VideoPicSendCommand
    \/ VideoPicCancel \/ VideoPicDone \/ VideoPicStopRecording
    \/ VideoPicStopPreview
    \/ RecordingSetParams("VIDEO_PIC_TAKING")
    \/ CommitParams("VIDEO_PIC_TAKING")
    \/ EnableMsg("VIDEO_PIC_TAKING") \/ DisableMsg("VIDEO_PIC_TAKING")
    \/ Ignore("VIDEO_PIC_TAKING",
              {"STOP_CAPTURE_CHANNEL", "PREP_SNAPSHOT_DONE",
               "READY_FOR_SNAPSHOT", "DAEMON_DIED"})

-----------------------------------------------------------------------------
(* QCAMERA_SM_STATE_PREVIEW_PIC_TAKING *)

PreviewPicAcknowledged ==
    Acknowledge("PREVIEW_PIC_TAKING",
                {"QUERY", "PREVIEW_ENABLED", "RELEASE_RECORDING_FRAME"})

PreviewPicRefused ==
    Refuse("PREVIEW_PIC_TAKING",
           {"STOP_RECORDING", "PREPARE_PREVIEW", "START_PREVIEW",
            "START_NODISPLAY_PREVIEW", "SET_PREVIEW_WINDOW", "RELEASE"})

PreviewPicParamsStop ==
    Apply("PREVIEW_PIC_TAKING", {"SET_PARAMS_STOP"}, {Ok(stopPreview(hw))})

(* When preview cannot come back the capture goes on without it. *)
PreviewPicParamsRestart ==
    /\ On("PREVIEW_PIC_TAKING", {"SET_PARAMS_RESTART"})
    /\ \E o \in BringUp(hw, TRUE, TRUE) :
          /\ Answer(IF o.rc = "OK" THEN "PREVIEW_PIC_TAKING"
                    ELSE "PIC_TAKING", [o EXCEPT !.hw.needRestart = FALSE])
          /\ DelayedUnless(o.prepared)
    /\ UNCHANGED <<m_RestoreZSL, live>>

PreviewPicSendCommand ==
    /\ On("PREVIEW_PIC_TAKING", {"SEND_COMMAND"})
    /\ \E o \in sendCommand(hw, Next_cmd.arg, TRUE) :
          Answer(AfterCommand("PREVIEW_PIC_TAKING"), o)
    /\ UNCHANGED <<msgs, m_RestoreZSL, live>>

(***************************************************************************)
(* Which kind of capture is running is asked of the current mode: the end  *)
(* of a capture in neither ZSL nor longshot mode is a live snapshot's.     *)
(***************************************************************************)
PreviewPicCancel ==
    /\ On("PREVIEW_PIC_TAKING", {"CANCEL_PICTURE"})
    /\ \/ /\ ZslOrLongshot(hw)
          /\ Answer("PREVIEWING", Ok(cancelPicture(hw)))
          /\ UNCHANGED live
       \/ /\ ~ ZslOrLongshot(hw)
          /\ cancelLiveSnapshot
          /\ Answer("PREVIEWING", [rc |-> CancelLiveResult, hw |-> hw])
    /\ UNCHANGED <<msgs, m_RestoreZSL>>

PreviewPicStopPreview ==
    /\ On("PREVIEW_PIC_TAKING", {"STOP_PREVIEW"})
    /\ \/ /\ ZslOrLongshot(hw)
          /\ Answer("PREVIEW_STOPPED", Ok(unpreparePreview(cancelPicture(hw))))
          /\ UNCHANGED live
       \/ /\ ~ ZslOrLongshot(hw)
          /\ cancelLiveSnapshot
          /\ Answer("PREVIEW_STOPPED",
                    [rc |-> CancelLiveResult, hw |-> unpreparePreview(hw)])
    /\ UNCHANGED <<msgs, m_RestoreZSL>>

(* Recording cannot start during a ZSL capture or a longshot. *)
PreviewPicRecordRefused ==
    /\ ZslOrLongshot(hw)
    /\ Refuse("PREVIEW_PIC_TAKING", {"PRE_START_RECORDING",
                                     "START_RECORDING"})

PreviewPicPreStartRecording ==
    Apply("PREVIEW_PIC_TAKING", {"PRE_START_RECORDING"},
          IF ZslOrLongshot(hw) THEN {} ELSE preStartRecording(hw, TRUE))

PreviewPicStartRecording ==
    /\ On("PREVIEW_PIC_TAKING", {"START_RECORDING"})
    /\ ~ ZslOrLongshot(hw)
    /\ \E o \in startRecording(hw) :
          Answer(IF o.rc = "OK" THEN "VIDEO_PIC_TAKING" ELSE m_state, o)
    /\ UNCHANGED <<msgs, m_RestoreZSL, live>>

(* A retro picture prepares the hardware after the capture was requested. *)
PreviewPicPrepareSnapshot ==
    /\ On("PREVIEW_PIC_TAKING", {"PREPARE_SNAPSHOT"})
    /\ \/ hw.retro /\ Finish("PREVIEW_PIC_TAKING", hw, <<>>)
       \/ hw.retro /\ \E o \in MayErr({hw}) : Answer("PREVIEW_PIC_TAKING", o)
       \/ ~ hw.retro /\ Finish("PREVIEW_PIC_TAKING", hw,
                          <<Result("API", "PREPARE_SNAPSHOT", "INVALID")>>)
    /\ UNCHANGED <<msgs, m_RestoreZSL, live>>

(* The daemon's events answer the requests that are waiting for them. *)
RetroEvent(e, answered) ==
    /\ On("PREVIEW_PIC_TAKING", {e})
    /\ Finish("PREVIEW_PIC_TAKING", hw,
              IF hw.retro THEN <<Result("API", answered, "OK")>> ELSE <<>>)
    /\ UNCHANGED <<msgs, m_RestoreZSL, live>>

(* A retro picture's end is signalled as an API result as well. *)
DoneResults(rc) ==
    (IF hw.retro THEN <<Result("API", "SNAPSHOT_DONE", rc)>> ELSE <<>>)
        \o <<Result("EVT", "SNAPSHOT_DONE", rc)>>

PreviewPicDone ==
    /\ On("PREVIEW_PIC_TAKING", {"SNAPSHOT_DONE"})
    /\ \/ /\ ZslOrLongshot(hw)
          /\ Finish("PREVIEWING", cancelPicture(hw), DoneResults("OK"))
          /\ UNCHANGED live
       \/ /\ ~ ZslOrLongshot(hw)
          /\ cancelLiveSnapshot
          /\ Finish("PREVIEWING", hw, DoneResults(CancelLiveResult))
    /\ UNCHANGED <<msgs, m_RestoreZSL>>

procEvtPreviewPicTakingState ==
    \/ PreviewPicAcknowledged \/ PreviewPicRefused \/ PreviewPicParamsStop
    \/ PreviewPicParamsRestart \/ PreviewPicSendCommand
    \/ PreviewPicCancel \/ PreviewPicStopPreview \/ PreviewPicRecordRefused
    \/ PreviewPicPreStartRecording \/ PreviewPicStartRecording
    \/ PreviewPicPrepareSnapshot \/ PreviewPicDone
    \/ RetroEvent("PREP_SNAPSHOT_DONE", "PREPARE_SNAPSHOT")
    \/ RetroEvent("READY_FOR_SNAPSHOT", "TAKE_PICTURE")
    \/ LongshotPreTake("PREVIEW_PIC_TAKING")
    \/ LongshotTake("PREVIEW_PIC_TAKING") \/ NotLongshot("PREVIEW_PIC_TAKING")
    \/ EnableMsg("PREVIEW_PIC_TAKING") \/ DisableMsg("PREVIEW_PIC_TAKING")
    \/ SetParams("PREVIEW_PIC_TAKING") \/ CommitParams("PREVIEW_PIC_TAKING")
    \/ DaemonDied("PREVIEW_PIC_TAKING")
    \/ Ignore("PREVIEW_PIC_TAKING", {"STOP_CAPTURE_CHANNEL"})

-----------------------------------------------------------------------------
(* The threads *)

stateMachine ==
    \/ procEvtPreviewStoppedState \/ procEvtPreviewReadyState
    \/ procEvtPreviewingState \/ procEvtPrepareSnapshotState
    \/ procEvtPicTakingState \/ procEvtRecordingState
    \/ procEvtVideoPicTakingState \/ procEvtPreviewPicTakingState

Exit ==
    /\ Idle
    /\ api_queue # <<>> /\ Head(api_queue).cmd = "EXIT"
    /\ api_queue' = Tail(api_queue)
    /\ running' = FALSE
    /\ UNCHANGED <<evt_queue, m_state, hw, msgs, m_RestoreZSL, live, replies>>

smEvtProcRoutine == stateMachine \/ Exit

(* takeLiveSnapshot_internal: the SNAPSHOT channel starts. *)
LiveTakeStarts ==
    /\ live = "take"
    /\ \E o \in startChannel(hw, "SNAPSHOT") :
          /\ o.rc = "OK"
          /\ hw' = [o.hw EXCEPT !.postproc = TRUE]
    /\ live' = "none"
    /\ UNCHANGED <<api_queue, evt_queue, m_state, msgs, m_RestoreZSL,
                   replies, running>>

(* No channel, or a call that fails: the thread asks for a cancellation    *)
(* and does not wait for it.                                               *)
LiveTakeFails ==
    /\ live = "take"
    /\ \/ hw.ch["SNAPSHOT"] = "null" /\ UNCHANGED hw
       \/ \E o \in MayErr({hw}) : \E pp \in {hw.postproc, TRUE} :
             hw' = [o.hw EXCEPT !.postproc = pp]
    /\ procAPI("CANCEL_PICTURE", {}, HAL)
    /\ live' = "none"
    /\ UNCHANGED <<evt_queue, m_state, msgs, m_RestoreZSL, replies, running>>

(* Online rotation fails: the thread returns and nobody is told. *)
LiveTakeAbandoned ==
    /\ live = "take" /\ hw.ch["SNAPSHOT"] # "null"
    /\ \E o \in MayErr({hw}) : hw' = [o.hw EXCEPT !.postproc = FALSE]
    /\ live' = "none"
    /\ UNCHANGED <<api_queue, evt_queue, m_state, msgs, m_RestoreZSL,
                   replies, running>>

(* cancelLiveSnapshot_internal *)
LiveCancel ==
    /\ live = "cancel"
    /\ hw' = [stopChannel(hw, "SNAPSHOT").hw EXCEPT !.postproc = FALSE]
    /\ live' = "none"
    /\ UNCHANGED <<api_queue, evt_queue, m_state, msgs, m_RestoreZSL,
                   replies, running>>

Live_Snapshot_thread ==
    LiveTakeStarts \/ LiveTakeFails \/ LiveTakeAbandoned \/ LiveCancel

-----------------------------------------------------------------------------
(* What the states promise *)

(* Every variable of the two threads has its type. *)
SmTypeOK ==
    /\ api_queue \in Seq(Cmd) /\ evt_queue \in Seq(Cmd)
    /\ m_state \in State
    /\ hw \in Hardware
    /\ msgs \in Msgs
    /\ m_RestoreZSL \in BOOLEAN
    /\ live \in {"none", "take", "cancel"}
    /\ replies \in Seq(Reply)
    /\ running \in BOOLEAN

(***************************************************************************)
(* While the state machine says that the camera records, the VIDEO channel *)
(* streams: no request, refused or not, and no live snapshot stops or      *)
(* deletes it without leaving the recording states.                        *)
(***************************************************************************)
RecordingHasVideo == isRecording => hw.ch["VIDEO"] = "started"

(***************************************************************************)
(* A live snapshot never outlives its state: the thread that starts it     *)
(* runs only in VIDEO_PIC_TAKING, and the SNAPSHOT channel streams only    *)
(* there or while the cancelling thread still has to stop it.              *)
(***************************************************************************)
LiveSnapshotContained ==
    /\ live = "take" => m_state = "VIDEO_PIC_TAKING"
    /\ hw.ch["SNAPSHOT"] = "started" =>
          m_state = "VIDEO_PIC_TAKING" \/ live = "cancel"

(***************************************************************************)
(* The frames of a capture are post-processed only while a capture runs or *)
(* is being cancelled: leaving a picture-taking state always stops the     *)
(* post-processor, whatever the application did meanwhile.                 *)
(***************************************************************************)
PostprocOnlyInCapture ==
    hw.postproc => isCaptureRunning \/ live = "cancel"

(***************************************************************************)
(* PREVIEW_STOPPED means what it says: no channel of preview or recording  *)
(* is left behind, whichever of the many paths into the state was taken.   *)
(***************************************************************************)
StoppedHasNoPreview ==
    m_state = "PREVIEW_STOPPED" =>
        \A c \in PreviewChannels : hw.ch[c] = "null"

(***************************************************************************)
(* A frame message that was asked for is not forgotten while its enabling  *)
(* is delayed: as long as one is kept aside, some handler will release it. *)
(***************************************************************************)
DelayedMsgsKept == msgs.delayed => msgs.delay

(* Only DISABLE_MSG_TYPE takes back what the application asked for. *)
MsgsWanted == msgs.on \/ msgs.delayed

MsgsKept ==
    [][MsgsWanted /\ ~ MsgsWanted' => Next_cmd.evt = "DISABLE_MSG_TYPE"]_smVars

=============================================================================
