-------------------------- MODULE QCamera2HWI_proofs --------------------------
(***************************************************************************)
(* The real callers of the state machine: their variables keep their       *)
(* types, and what they do is what StateMachineEnv allows its callers, for  *)
(* any number of threads, methods and settings.  The state machine's own    *)
(* invariant SmInv goes on to hold, by the lemmas about its handlers.       *)
(*                                                                         *)
(* The second half counts: what the application asked for, what the state  *)
(* machine holds back and what waits in the result list is, kind by kind,  *)
(* never more than the threads that wait for it (HandInv).                 *)
(***************************************************************************)
EXTENDS QCamera2HWI, QCameraStateMachine_proofs, WellFoundedInduction,
        FiniteSetTheorems, FunctionTheorems

Owed == {"PREP_SNAPSHOT_DONE", "READY_FOR_SNAPSHOT", "REST", "FRAME", "JPEG"}

(* A thread that is about to post has a request that a method makes, with a
   payload that fits it. *)
Posts(c) ==
    c.at = "next" => /\ c.evt \in ApiEvt \ {"STOP_CAPTURE_CHANNEL"}
                     /\ c.arg \in Env!Payloads(c.evt)

CallsInv ==
    /\ call \in [Senders -> Call]
    /\ \A t \in Senders : Posts(call[t])

HwiInv == SmInv /\ CallsInv /\ m_apiResultList \in Seq(Reply) /\ owed \subseteq Owed

-----------------------------------------------------------------------------
(* The records of the calls *)

(* Changing one call keeps the others in order. *)
LEMMA OneCall ==
    ASSUME CallsInv, NEW t \in Senders, NEW c \in Call, Posts(c),
           call' = [call EXCEPT ![t] = c]
    PROVE  CallsInv'
  BY DEF CallsInv, Posts, Env!Payloads, Env!ApiEvt, ApiEvt

LEMMA NoCallType == NoCall \in Call /\ Posts(NoCall)
  BY DEF NoCall, Call, Posts, Evt

LEMMA AtType ==
    ASSUME NEW m \in (Method \ {"take_picture"}) \cup {"take_normal", "take_retro"},
           NEW e \in ApiEvt \ {"STOP_CAPTURE_CHANNEL"},
           NEW a \in SUBSET Flag, a \in Env!Payloads(e)
    PROVE  At(m, e, a, "next") \in Call /\ Posts(At(m, e, a, "next"))
  BY DEF At, Call, Posts, Evt

(* Requests without a payload. *)
LEMMA EmptyPayload ==
    ASSUME NEW e, e \notin {"SET_PREVIEW_WINDOW", "SET_PARAMS", "SEND_COMMAND"}
    PROVE  Env!Payloads(e) = {{}}
  BY DEF Env!Payloads

(* A method that posts one request posts it with one of its arguments. *)
LEMMA ArgsType ==
    ASSUME NEW m \in Simple, NEW a \in ArgsOf(m)
    PROVE  /\ RequestOf[m] \in ApiEvt \ {"STOP_CAPTURE_CHANNEL"}
           /\ a \in Env!Payloads(RequestOf[m])
           /\ a \in SUBSET Flag
  <1>1. CASE m = "set_preview_window"
    BY <1>1 DEF ArgsOf, Simple, RequestOf, ApiEvt, Env!Payloads, Flag
  <1>2. CASE m = "send_command"
    BY <1>2 DEF ArgsOf, Simple, RequestOf, ApiEvt, Env!Payloads, Flag
  <1>3. CASE m \notin {"set_preview_window", "send_command"}
    <2>1. m # "set_parameters" /\ a = {}
      BY <1>3 DEF ArgsOf, Simple, RequestOf
    <2>2. /\ RequestOf[m] \in ApiEvt \ {"STOP_CAPTURE_CHANNEL"}
          /\ RequestOf[m] \notin {"SET_PREVIEW_WINDOW", "SET_PARAMS", "SEND_COMMAND"}
      BY <1>3 DEF Simple, RequestOf, ApiEvt
    <2> QED
      BY <2>1, <2>2, EmptyPayload
  <1> QED
    BY <1>1, <1>2, <1>3

(* unlockAPI before the next request. *)
LEMMA ThenInv ==
    ASSUME CallsInv, NEW t \in Senders,
           NEW e \in {"START_RECORDING", "TAKE_PICTURE", "PREPARE_SNAPSHOT",
                      "PRE_TAKE_PICTURE"},
           Then(t, e)
    PROVE  CallsInv'
  <1> DEFINE c == [call[t] EXCEPT !.evt = e, !.arg = {}, !.at = "next"]
  <1>1. c \in Call
    BY DEF CallsInv, Call, Evt, ApiEvt
  <1>2. Posts(c)
    <2>1. c.evt = e /\ c.arg = {}
      BY DEF CallsInv, Call
    <2> QED
      BY <2>1, EmptyPayload DEF Posts, ApiEvt
  <1>3. call' = [call EXCEPT ![t] = c]
    BY DEF Then, CallsInv
  <1> QED
    BY <1>1, <1>2, <1>3, OneCall

LEMMA LeaveInv ==
    ASSUME CallsInv, NEW t \in Senders, Leave(t)
    PROVE  CallsInv'
  BY NoCallType, OneCall DEF Leave

(* A call that waits or is woken does not post. *)
LEMMA WaitingInv ==
    ASSUME CallsInv, NEW t \in Senders, NEW where \in {"wait", "woken"},
           NEW e \in Evt,
           call' = [call EXCEPT ![t] = [call[t] EXCEPT !.evt = e, !.at = where]]
    PROVE  CallsInv'
  <1> DEFINE c == [call[t] EXCEPT !.evt = e, !.at = where]
  <1>1. c \in Call /\ Posts(c)
    BY DEF CallsInv, Call, Posts
  <1> QED
    BY <1>1, OneCall

(* The first of the matching results is one of the list. *)
LEMMA FirstType ==
    ASSUME NEW t, m_apiResultList \in Seq(Reply), Matching(t) # {}
    PROVE  /\ First(t) \in DOMAIN m_apiResultList
           /\ m_apiResultList[First(t)].evt = call[t].evt
  <1>1. Matching(t) \subseteq Nat
    BY DEF Matching
  <1>2. PICK i \in Matching(t) : \A j \in Matching(t) : ~ (<<j, i>> \in OpToRel(<, Nat))
    BY <1>1, NatLessThanWellFounded, WFMin
  <1>3. \A j \in Matching(t) : i <= j
    <2> SUFFICES ASSUME NEW j \in Matching(t) PROVE ~ (j < i)
      BY <1>1
    <2>1. <<j, i>> \in Nat \X Nat /\ <<j, i>>[1] = j /\ <<j, i>>[2] = i
      BY <1>1
    <2> QED
      BY <1>2, <2>1, Zenon DEF OpToRel
  <1>4. First(t) \in Matching(t)
    BY <1>3 DEF First
  <1> QED
    BY <1>4 DEF Matching

LEMMA RemoveAtType ==
    ASSUME NEW S, NEW s \in Seq(S), NEW i \in DOMAIN s
    PROVE  RemoveAt(s, i) \in Seq(S)
  <1>1. Len(s) \in Nat /\ i \in 1..Len(s)
    OBVIOUS
  <1>2. SubSeq(s, 1, i - 1) \in Seq(S)
    BY <1>1, SubSeqProperties
  <1>3. SubSeq(s, i + 1, Len(s)) \in Seq(S)
    BY <1>1, SubSeqProperties
  <1> QED
    BY <1>2, <1>3, ConcatProperties DEF RemoveAt

LEMMA AnsweredType ==
    ASSUME NEW t, m_apiResultList \in Seq(Reply), Answered(t)
    PROVE  m_apiResultList' \in Seq(Reply)
  BY FirstType, RemoveAtType DEF Answered

-----------------------------------------------------------------------------
(* The instance Env has its own copy of every definition of the state
   machine.  Unfolded, the two are the same: one step per state. *)
LEMMA SameStateMachine == smEvtProcRoutine => Env!smEvtProcRoutine
  <1> USE DEF
        Channel, Env!Channel, Ok, Env!Ok, Err, Env!Err, MayErr, Env!MayErr,
        WithChannels, Env!WithChannels, delChannels, Env!delChannels,
        stopChannel, Env!stopChannel, startChannel, Env!startChannel,
        isZslPreview, Env!isZslPreview, PreviewChannels, Env!PreviewChannels,
        unpreparePreview, Env!unpreparePreview, stopPreview, Env!stopPreview,
        cancelPicture, Env!cancelPicture, longshotOff, Env!longshotOff,
        longshotOn, Env!longshotOn, sendCommand, Env!sendCommand, longShot,
        Env!longShot, preparePreview, Env!preparePreview, startPreview,
        Env!startPreview, prepareAndStart, Env!prepareAndStart, Committed,
        Env!Committed, commitParameterChanges, Env!commitParameterChanges,
        updatedParams, Env!updatedParams, restartNeeded, Env!restartNeeded,
        updateParameters, Env!updateParameters, CommitOrKeep,
        Env!CommitOrKeep, updateRecordingHintValue,
        Env!updateRecordingHintValue, updateZSLModeValue,
        Env!updateZSLModeValue, preStartRecording, Env!preStartRecording,
        startRecording, Env!startRecording, stopRecording, Env!stopRecording,
        isCaptureRunning, Env!isCaptureRunning, Node, Env!Node, Idle,
        Env!Idle, Next_cmd, Env!Next_cmd, On, Env!On, Result, Env!Result,
        Finish, Env!Finish, Answer, Env!Answer, Refuse, Env!Refuse,
        Acknowledge, Env!Acknowledge, Ignore, Env!Ignore, Apply, Env!Apply,
        applyDelayedMsgs, Env!applyDelayedMsgs, BringUp, Env!BringUp,
        DelayedUnless, Env!DelayedUnless, EnableMsg, Env!EnableMsg,
        DisableMsg, Env!DisableMsg, SetParams, Env!SetParams, CommitParams,
        Env!CommitParams, ForgetRestart, Env!ForgetRestart, EvtDone,
        Env!EvtDone, DaemonDied, Env!DaemonDied, AfterStart, Env!AfterStart,
        EarlyRestart, Env!EarlyRestart, ZslOrLongshot, Env!ZslOrLongshot,
        AfterCommand, Env!AfterCommand, LongshotPreTake, Env!LongshotPreTake,
        LongshotTake, Env!LongshotTake, NotLongshot, Env!NotLongshot, Joined,
        Env!Joined, RecordingSetParams, Env!RecordingSetParams,
        cancelLiveSnapshot, Env!cancelLiveSnapshot, CancelLiveResult,
        Env!CancelLiveResult
  <1>1. procEvtPreviewStoppedState => Env!procEvtPreviewStoppedState
    BY DEF releaseChannels, Env!releaseChannels, StoppedInitFailed,
           Env!StoppedInitFailed, StoppedAcknowledged,
           Env!StoppedAcknowledged, StoppedRefused, Env!StoppedRefused,
           StoppedSetWindow, Env!StoppedSetWindow, StoppedPrepare,
           Env!StoppedPrepare, StoppedStart, Env!StoppedStart, StoppedRelease,
           Env!StoppedRelease, StoppedSendCommand, Env!StoppedSendCommand,
           procEvtPreviewStoppedState, Env!procEvtPreviewStoppedState
  <1>2. procEvtPreviewReadyState => Env!procEvtPreviewReadyState
    BY DEF ReadyAcknowledged, Env!ReadyAcknowledged, ReadyRefused,
           Env!ReadyRefused, ReadyStarted, Env!ReadyStarted, ReadySetWindow,
           Env!ReadySetWindow, ReadyStart, Env!ReadyStart,
           ReadyStartWithoutWindow, Env!ReadyStartWithoutWindow, ReadyStop,
           Env!ReadyStop, ReadyParamsStop, Env!ReadyParamsStop,
           ReadyParamsRestart, Env!ReadyParamsRestart, ReadySendCommand,
           Env!ReadySendCommand, procEvtPreviewReadyState,
           Env!procEvtPreviewReadyState
  <1>3. procEvtPreviewingState => Env!procEvtPreviewingState
    BY DEF takeZslPicture, Env!takeZslPicture, HalfTaken, Env!HalfTaken,
           WithCapture, Env!WithCapture, takeRegularPicture,
           Env!takeRegularPicture, takePicture, Env!takePicture,
           prepareStartOrUndo, Env!prepareStartOrUndo, preTakePicture,
           Env!preTakePicture, PreviewingAcknowledged,
           Env!PreviewingAcknowledged, PreviewingRefused,
           Env!PreviewingRefused, PreviewingEnableMsg,
           Env!PreviewingEnableMsg, PreviewingDisableMsg,
           Env!PreviewingDisableMsg, PreviewingParamsStop,
           Env!PreviewingParamsStop, PreviewingParamsRestart,
           Env!PreviewingParamsRestart, PreviewingStartAgain,
           Env!PreviewingStartAgain, PreviewingStop, Env!PreviewingStop,
           PreviewingPreStartRecording, Env!PreviewingPreStartRecording,
           PreviewingStartRecording, Env!PreviewingStartRecording,
           PreviewingPrepareSnapshot, Env!PreviewingPrepareSnapshot,
           PreviewingPreTakePicture, Env!PreviewingPreTakePicture,
           WithoutHint, Env!WithoutHint, PreviewingTakeZsl,
           Env!PreviewingTakeZsl, PreviewingTakeRestart,
           Env!PreviewingTakeRestart, PreviewingTakeRegular,
           Env!PreviewingTakeRegular, PreviewingSendCommand,
           Env!PreviewingSendCommand, procEvtPreviewingState,
           Env!procEvtPreviewingState
  <1>4. procEvtPrepareSnapshotState => Env!procEvtPrepareSnapshotState
    BY DEF ApiEvt, Env!ApiEvt, PrepareSnapshotRefused,
           Env!PrepareSnapshotRefused, PrepareSnapshotDone,
           Env!PrepareSnapshotDone, procEvtPrepareSnapshotState,
           Env!procEvtPrepareSnapshotState
  <1>5. procEvtPicTakingState => Env!procEvtPicTakingState
    BY DEF stopCaptureChannel, Env!stopCaptureChannel, PicTakingAcknowledged,
           Env!PicTakingAcknowledged, PicTakingRefused, Env!PicTakingRefused,
           PicTakingCancel, Env!PicTakingCancel, PicTakingSendCommand,
           Env!PicTakingSendCommand, PicTakingStopCaptureChannel,
           Env!PicTakingStopCaptureChannel, PicTakingDone, Env!PicTakingDone,
           PicTakingDoneRestart, Env!PicTakingDoneRestart,
           procEvtPicTakingState, Env!procEvtPicTakingState
  <1>6. procEvtRecordingState => Env!procEvtRecordingState
    BY DEF RecordingAcknowledged, Env!RecordingAcknowledged, RecordingRefused,
           Env!RecordingRefused, RecordingSendCommand,
           Env!RecordingSendCommand, RecordingTakePicture,
           Env!RecordingTakePicture, RecordingStop, Env!RecordingStop,
           RecordingStopPreview, Env!RecordingStopPreview,
           procEvtRecordingState, Env!procEvtRecordingState
  <1>7. procEvtVideoPicTakingState => Env!procEvtVideoPicTakingState
    BY DEF VideoPicAcknowledged, Env!VideoPicAcknowledged, VideoPicRefused,
           Env!VideoPicRefused, VideoPicSendCommand, Env!VideoPicSendCommand,
           VideoPicCancel, Env!VideoPicCancel, VideoPicDone, Env!VideoPicDone,
           VideoPicStopRecording, Env!VideoPicStopRecording,
           VideoPicStopPreview, Env!VideoPicStopPreview,
           procEvtVideoPicTakingState, Env!procEvtVideoPicTakingState
  <1>8. procEvtPreviewPicTakingState => Env!procEvtPreviewPicTakingState
    BY DEF PreviewPicAcknowledged, Env!PreviewPicAcknowledged,
           PreviewPicRefused, Env!PreviewPicRefused, PreviewPicParamsStop,
           Env!PreviewPicParamsStop, PreviewPicParamsRestart,
           Env!PreviewPicParamsRestart, PreviewPicSendCommand,
           Env!PreviewPicSendCommand, PreviewPicCancel, Env!PreviewPicCancel,
           PreviewPicStopPreview, Env!PreviewPicStopPreview,
           PreviewPicRecordRefused, Env!PreviewPicRecordRefused,
           PreviewPicPreStartRecording, Env!PreviewPicPreStartRecording,
           PreviewPicStartRecording, Env!PreviewPicStartRecording,
           PreviewPicPrepareSnapshot, Env!PreviewPicPrepareSnapshot,
           RetroEvent, Env!RetroEvent, DoneResults, Env!DoneResults,
           PreviewPicDone, Env!PreviewPicDone, procEvtPreviewPicTakingState,
           Env!procEvtPreviewPicTakingState
  <1>9. Exit => Env!Exit
    BY DEF Exit, Env!Exit
  <1> QED
    BY <1>1, <1>2, <1>3, <1>4, <1>5, <1>6, <1>7, <1>8, <1>9
       DEF smEvtProcRoutine, Env!smEvtProcRoutine, stateMachine, Env!stateMachine

(* And so is the live snapshot thread. *)
LEMMA SameLiveThread == Live_Snapshot_thread => Env!Live_Snapshot_thread
  BY DEF Channel, Env!Channel, Ok, Env!Ok, Err, Env!Err, MayErr, Env!MayErr,
         WithChannels, Env!WithChannels, stopChannel, Env!stopChannel,
         startChannel, Env!startChannel, Node, Env!Node, procAPI, Env!procAPI,
         LiveTakeStarts, Env!LiveTakeStarts, LiveTakeFails, Env!LiveTakeFails,
         LiveTakeAbandoned, Env!LiveTakeAbandoned, LiveCancel, Env!LiveCancel,
         Live_Snapshot_thread, Env!Live_Snapshot_thread
-----------------------------------------------------------------------------
(* The threads of the application *)

(* What a step of the application is for the state machine: a request, one of
   the two fields of the object, or nothing; and its own variables. *)
AppStep ==
    /\ Env!Request \/ Env!SetRetroPicture \/ Env!SetPrepSnapRun \/ UNCHANGED smVars
    /\ CallerStep
    /\ CallsInv' /\ m_apiResultList' \in Seq(Reply) /\ owed' \subseteq Owed

(* A stutter of the state machine is the step of a caller. *)
LEMMA StutterIsCallerStep ==
    ASSUME SmInv, UNCHANGED smVars
    PROVE  CallerStep
  BY DEF smVars, SmInv, SmTypeOK, CallerStep

(* A request of a thread, with a payload that fits. *)
LEMMA PostIsRequest ==
    ASSUME SmInv, NEW t \in Senders \cup {HAL}, NEW e \in ApiEvt, NEW a \in Env!Payloads(e),
           t \in Env!Posters(e), a \in SUBSET Flag, procAPI(e, a, t),
           UNCHANGED <<evt_queue, m_state, hw, msgs, m_RestoreZSL, live, replies, running>>
    PROVE  Env!Request /\ CallerStep
  <1>1. Env!procAPI(e, a, t)
    BY DEF procAPI, Env!procAPI, Node, Env!Node
  <1>2. Env!Request
    BY <1>1 DEF Env!Request
  <1>3. Node("API", e, a, t) \in Cmd
    BY NodeType DEF Evt
  <1>4. api_queue' \in Seq(Cmd)
    BY <1>3 DEF procAPI, SmInv, SmTypeOK
  <1> QED
    BY <1>2, <1>4 DEF SmInv, SmTypeOK, CallerStep

LEMMA EnterStep ==
    ASSUME HwiInv, NEW t \in Senders, Enter(t)
    PROVE  AppStep
  <1>1. CASE EnterSimple(t)
    <2>1. PICK m \in Methods \cap Simple : \E a \in ArgsOf(m) :
              call' = [call EXCEPT ![t] = At(m, RequestOf[m], a, "next")]
      BY <1>1 DEF EnterSimple
    <2>2. PICK a \in ArgsOf(m) : call' = [call EXCEPT ![t] = At(m, RequestOf[m], a, "next")]
      BY <2>1
    <2>3. m \in Method \ {"take_picture"}
      BY DEF Method, Simple, RequestOf
    <2>4. CallsInv'
      BY <2>2, <2>3, ArgsType, AtType, OneCall DEF HwiInv
    <2> QED
      BY <1>1, <2>4, StutterIsCallerStep DEF EnterSimple, AppStep, HwiInv
  <1>2. CASE set_parameters(t)
    <2>1. PICK a \in Settings :
              call' = [call EXCEPT ![t] = At("set_parameters", "SET_PARAMS", a, "next")]
      BY <1>2 DEF set_parameters
    <2>2. a \in Env!Payloads("SET_PARAMS") /\ a \in SUBSET Flag
      BY HwiAssumption DEF Env!Payloads
    <2>3. "set_parameters" \in Method \ {"take_picture"}
          /\ "SET_PARAMS" \in ApiEvt \ {"STOP_CAPTURE_CHANNEL"}
      BY DEF Method, ApiEvt
    <2>4. CallsInv'
      BY <2>1, <2>2, <2>3, AtType, OneCall DEF HwiInv
    <2> QED
      BY <1>2, <2>4, StutterIsCallerStep DEF set_parameters, AppStep, HwiInv
  <1>3. CASE start_recording(t)
    <2>1. "start_recording" \in Method \ {"take_picture"}
          /\ "PRE_START_RECORDING" \in ApiEvt \ {"STOP_CAPTURE_CHANNEL"}
          /\ {} \in Env!Payloads("PRE_START_RECORDING")
      BY EmptyPayload DEF Method, ApiEvt
    <2>2. CallsInv'
      BY <1>3, <2>1, AtType, OneCall DEF start_recording, HwiInv
    <2> QED
      BY <1>3, <2>2, StutterIsCallerStep DEF start_recording, AppStep, HwiInv
  <1>4. CASE take_picture(t)
    <2> DEFINE e == IF hw.prepSnapRun THEN "PRE_TAKE_PICTURE" ELSE "PREPARE_SNAPSHOT"
    <2>1. /\ {"PRE_TAKE_PICTURE", "PREPARE_SNAPSHOT"} \subseteq ApiEvt \ {"STOP_CAPTURE_CHANNEL"}
          /\ {} \in Env!Payloads("PRE_TAKE_PICTURE")
          /\ {} \in Env!Payloads("PREPARE_SNAPSHOT")
      BY EmptyPayload DEF ApiEvt
    <2>2. \/ call' = [call EXCEPT ![t] = At("take_retro", "PRE_TAKE_PICTURE", {}, "next")]
          \/ call' = [call EXCEPT ![t] = At("take_normal", "PRE_TAKE_PICTURE", {}, "next")]
          \/ call' = [call EXCEPT ![t] = At("take_normal", "PREPARE_SNAPSHOT", {}, "next")]
      BY <1>4 DEF take_picture
    <2>3. CallsInv'
      BY <2>1, <2>2, AtType, OneCall DEF HwiInv
    <2>4. TakesRetro \in BOOLEAN
      BY DEF TakesRetro
    <2>5. Env!SetRetroPicture
      BY <1>4, <2>4 DEF take_picture, Env!SetRetroPicture, InternalEvt
    <2>6. hw' \in Hardware /\ hw'.ch = hw.ch
      BY <1>4, <2>4 DEF take_picture, HwiInv, SmInv, SmTypeOK, Hardware
    <2>7. CallerStep
      BY <1>4, <2>6 DEF take_picture, HwiInv, SmInv, SmTypeOK, CallerStep
    <2> QED
      BY <1>4, <2>3, <2>5, <2>7 DEF take_picture, AppStep, HwiInv
  <1> QED
    BY <1>1, <1>2, <1>3, <1>4 DEF Enter

(* Requests that go out. *)
LEMMA IssueStep ==
    ASSUME HwiInv, NEW t \in Senders, Issue(t) \/ IssuePrepare(t)
    PROVE  AppStep
  <1>1. /\ call[t].at = "next"
        /\ procAPI(call[t].evt, IF Issue(t) THEN call[t].arg ELSE {}, t)
        /\ call[t].evt # "PREPARE_SNAPSHOT" \/ ~ Issue(t)
    BY DEF Issue, IssuePrepare
  <1>2. /\ call[t] \in Call
        /\ call[t].evt \in ApiEvt \ {"STOP_CAPTURE_CHANNEL"}
        /\ call[t].arg \in Env!Payloads(call[t].evt)
    BY <1>1 DEF HwiInv, CallsInv, Posts
  <1>3. (~ Issue(t)) => call[t].evt = "PREPARE_SNAPSHOT" /\ call[t].arg = {}
    BY <1>2, EmptyPayload DEF IssuePrepare
  <1>4. procAPI(call[t].evt, call[t].arg, t)
    BY <1>1, <1>3
  <1>5. t \in Env!Posters(call[t].evt) /\ call[t].arg \in SUBSET Flag
    BY <1>2 DEF Env!Posters, Call
  <1>6. Env!Request /\ CallerStep
    BY <1>2, <1>4, <1>5, PostIsRequest DEF Issue, IssuePrepare, HwiInv
  <1>7. call' = [call EXCEPT ![t] = [call[t] EXCEPT !.evt = call[t].evt, !.at = "wait"]]
    BY <1>2 DEF Issue, IssuePrepare, HwiInv, CallsInv, Call
  <1>8. CallsInv'
    BY <1>2, <1>7, WaitingInv DEF HwiInv, Evt
  <1> QED
    BY <1>6, <1>8 DEF Issue, IssuePrepare, AppStep, HwiInv

(* Nothing to prepare, nothing found: nobody else notices. *)
LEMMA SkipStep ==
    ASSUME HwiInv, NEW t \in Senders, SkipPrepare(t) \/ NotYet(t)
    PROVE  AppStep
  <1>1. call[t] \in Call /\ Posts(call[t])
    BY DEF HwiInv, CallsInv
  <1> SUFFICES CallsInv'
    BY StutterIsCallerStep DEF SkipPrepare, NotYet, AppStep, HwiInv
  <1>2. CASE SkipPrepare(t) /\ call[t].method = "take_retro"
    BY <1>2, NoCallType, OneCall DEF SkipPrepare, HwiInv
  <1>3. CASE SkipPrepare(t) /\ call[t].method # "take_retro"
    <2> DEFINE c == [call[t] EXCEPT !.evt = "PRE_TAKE_PICTURE"]
    <2>1. c \in Call
      BY <1>1 DEF Call, Evt, ApiEvt
    <2>2. call[t].arg = {}
      BY <1>1, <1>3, EmptyPayload DEF SkipPrepare, Posts
    <2>3. Posts(c)
      BY <1>1, <2>2, EmptyPayload DEF Posts, ApiEvt, Call
    <2>4. CallsInv'
      BY <1>3, <2>1, <2>3, OneCall DEF SkipPrepare, HwiInv
    <2> QED
      BY <1>3, <2>4
  <1>4. CASE NotYet(t)
    <2>1. call' = [call EXCEPT ![t] = [call[t] EXCEPT !.evt = call[t].evt, !.at = "wait"]]
      BY <1>1, <1>4 DEF NotYet, HwiInv, CallsInv, Call
    <2>2. CallsInv'
      BY <1>1, <2>1, WaitingInv DEF HwiInv, Call
    <2> QED
      BY <1>4, <2>2
  <1> QED
    BY <1>2, <1>3, <1>4

(* The result of the last request. *)
LEMMA ReturnStep ==
    ASSUME HwiInv, NEW t \in Senders,
           ReturnSimple(t) \/ ReturnParams(t) \/ AfterRecording(t) \/ AfterPreTake(t)
    PROVE  AppStep
  <1>1. Answered(t) /\ UNCHANGED <<smVars, owed>>
    BY DEF ReturnSimple, ReturnParams, AfterRecording, AfterPreTake
  <1>2. Leave(t) \/ Then(t, "START_RECORDING") \/ Then(t, "TAKE_PICTURE")
    BY DEF ReturnSimple, ReturnParams, AfterRecording, AfterPreTake
  <1>3. CallsInv'
    BY <1>2, LeaveInv, ThenInv DEF HwiInv
  <1> QED
    BY <1>1, <1>3, AnsweredType, StutterIsCallerStep DEF AppStep, HwiInv

LEMMA ContinueStep ==
    ASSUME HwiInv, NEW t \in Senders, ContinueParams(t)
    PROVE  AppStep
  <1> DEFINE e == AfterParams(call[t].evt)
  <1>1. e \in {"SET_PARAMS_STOP", "SET_PARAMS_COMMIT", "SET_PARAMS_RESTART"}
    BY DEF ContinueParams, AfterParams
  <1>2. /\ e \in ApiEvt /\ t \in Env!Posters(e) /\ {} \in Env!Payloads(e)
    BY <1>1, EmptyPayload DEF ApiEvt, Env!Posters
  <1>3. Env!Request /\ CallerStep
    BY <1>2, PostIsRequest DEF ContinueParams, Post, HwiInv
  <1>4. call' = [call EXCEPT ![t] = [call[t] EXCEPT !.evt = e, !.at = "wait"]]
    BY DEF ContinueParams, Post, HwiInv, CallsInv, Call
  <1>5. CallsInv'
    BY <1>2, <1>4, WaitingInv DEF HwiInv, Evt
  <1> QED
    BY <1>3, <1>5, AnsweredType DEF ContinueParams, AppStep, HwiInv

(* take_picture goes on, or is over; mPrepSnapRun. *)
LEMMA PictureStep ==
    ASSUME HwiInv, NEW t \in Senders, AfterTake(t) \/ AfterPrepare(t)
    PROVE  AppStep
  <1>1. Answered(t) /\ UNCHANGED <<api_queue, evt_queue, m_state, msgs, m_RestoreZSL, live,
                                   replies, running, owed>>
    BY DEF AfterTake, AfterPrepare
  <1>2. Leave(t) \/ Then(t, "PREPARE_SNAPSHOT") \/ Then(t, "PRE_TAKE_PICTURE")
    BY DEF AfterTake, AfterPrepare
  <1>3. CallsInv'
    BY <1>2, LeaveInv, ThenInv DEF HwiInv
  <1>4. UNCHANGED hw \/ \E b \in BOOLEAN : hw' = [hw EXCEPT !.prepSnapRun = b]
    <2>1. (hw.longshot /\ hw.prepSnapRun) \in BOOLEAN
      OBVIOUS
    <2> QED
      BY <2>1 DEF AfterTake, AfterPrepare
  <1>5. hw' \in Hardware /\ hw'.ch = hw.ch
    BY <1>4 DEF HwiInv, SmInv, SmTypeOK, Hardware
  <1>6. CallerStep
    BY <1>1, <1>5 DEF HwiInv, SmInv, SmTypeOK, CallerStep
  <1>7. Env!SetPrepSnapRun \/ UNCHANGED smVars
    BY <1>1, <1>4 DEF Env!SetPrepSnapRun, smVars, ApiEvt
  <1> QED
    BY <1>1, <1>3, <1>6, <1>7, AnsweredType DEF AppStep, HwiInv

LEMMA ProceedStep ==
    ASSUME HwiInv, NEW t \in Senders, Proceed(t)
    PROVE  AppStep
  BY IssueStep, SkipStep, ReturnStep, ContinueStep, PictureStep DEF Proceed

-----------------------------------------------------------------------------
(* Results and the daemon *)

LEMMA SignalStep ==
    ASSUME HwiInv, signalAPIResult \/ signalEvtResult
    PROVE  Env!Signal /\ CallerStep /\ HwiInv'
  <1>1. replies \in Seq(Reply) /\ replies # <<>>
    BY DEF HwiInv, SmInv, SmTypeOK, signalAPIResult, signalEvtResult
  <1>2. Tail(replies) \in Seq(Reply) /\ Head(replies) \in Reply
    BY <1>1, HeadTailProperties
  <1>3. CallerStep
    BY <1>2 DEF signalAPIResult, signalEvtResult, HwiInv, SmInv, SmTypeOK, CallerStep
  <1>4. Env!Signal
    BY <1>1 DEF signalAPIResult, signalEvtResult, Env!Signal
  <1>5. CallsInv'
    <2>1. CASE signalAPIResult
      <3>1. \A t \in Senders : [call[t] EXCEPT !.at = "woken"] \in Call
        BY DEF HwiInv, CallsInv, Call
      <3>2. \A t \in Senders : call'[t] = call[t] \/ (call'[t] \in Call /\ call'[t].at = "woken")
        BY <2>1, <3>1 DEF signalAPIResult, HwiInv, CallsInv, Call
      <3>3. call' \in [Senders -> Call]
        BY <2>1, <3>1 DEF signalAPIResult, HwiInv, CallsInv
      <3> QED
        BY <3>2, <3>3 DEF HwiInv, CallsInv, Posts, Env!Payloads, Env!ApiEvt, ApiEvt
    <2>2. CASE signalEvtResult
      BY <2>2 DEF signalEvtResult, HwiInv, CallsInv
    <2> QED
      BY <2>1, <2>2
  <1>6. m_apiResultList' \in Seq(Reply)
    <2>1. m_apiResultList' \in {m_apiResultList, Append(m_apiResultList, Head(replies))}
      BY DEF signalAPIResult, signalEvtResult
    <2> QED
      BY <1>2, <2>1, AppendProperties DEF HwiInv
  <1>7. owed' \subseteq Owed
    BY DEF signalAPIResult, signalEvtResult, HwiInv
  <1> QED
    BY <1>3, <1>4, <1>5, <1>6, <1>7, CallerStepInv DEF StepInv, HwiInv

(* Events. *)
LEMMA RaiseStep ==
    ASSUME HwiInv, DaemonEvent \/ LastJpeg \/ DaemonDies
    PROVE  Env!Raise /\ CallerStep /\ UNCHANGED <<call, m_apiResultList>> /\ owed' \subseteq Owed
  <1>1. PICK e \in InternalEvt : procEvt(e)
    BY DEF DaemonEvent, LastJpeg, DaemonDies, InternalEvt
  <1>2. UNCHANGED <<api_queue, m_state, hw, msgs, m_RestoreZSL, live, replies, running,
                    call, m_apiResultList>> /\ owed' \subseteq owed
    BY DEF DaemonEvent, LastJpeg, DaemonDies, hwiVars
  <1>3. Env!procEvt(e)
    BY <1>1 DEF procEvt, Env!procEvt, Node, Env!Node
  <1>4. Env!Raise
    BY <1>2, <1>3 DEF Env!Raise
  <1>5. Node("EVT", e, {}, HAL) \in Cmd
    BY NodeType DEF Evt
  <1>6. evt_queue' \in Seq(Cmd)
    BY <1>1, <1>5 DEF procEvt, HwiInv, SmInv, SmTypeOK
  <1> QED
    BY <1>2, <1>4, <1>6 DEF HwiInv, SmInv, SmTypeOK, CallerStep

LEMMA StopCaptureStep ==
    ASSUME HwiInv, stopCapture
    PROVE  /\ Env!Request \/ UNCHANGED smVars
           /\ CallerStep /\ UNCHANGED <<call, m_apiResultList>> /\ owed' \subseteq Owed
  <1>1. CASE isRegularCapture
    <2>1. "STOP_CAPTURE_CHANNEL" \in ApiEvt /\ {} \in Env!Payloads("STOP_CAPTURE_CHANNEL")
          /\ HAL \in Env!Posters("STOP_CAPTURE_CHANNEL")
      BY EmptyPayload DEF ApiEvt, Env!Posters
    <2>2. Env!Request /\ CallerStep
      BY <1>1, <2>1, PostIsRequest DEF stopCapture, HwiInv
    <2> QED
      BY <2>2 DEF stopCapture, HwiInv
  <1>2. CASE ~ isRegularCapture
    <2>1. UNCHANGED smVars
      BY <1>2 DEF stopCapture, smVars
    <2> QED
      BY <2>1, StutterIsCallerStep DEF stopCapture, HwiInv
  <1> QED
    BY <1>1, <1>2

-----------------------------------------------------------------------------
(* The two threads *)

LEMMA ThreadStep ==
    ASSUME HwiInv, HandleCommand \/ LiveThread
    PROVE  /\ Env!smEvtProcRoutine \/ Env!Live_Snapshot_thread
           /\ HwiInv'
  <1>1. smEvtProcRoutine \/ Live_Snapshot_thread
    BY DEF HandleCommand, LiveThread
  <1>2. SmInv'
    BY <1>1, StateMachineInv, LiveThreadInv DEF StepInv, HwiInv
  <1>3. CallsInv' /\ m_apiResultList' \in Seq(Reply)
    BY DEF HandleCommand, LiveThread, HwiInv, CallsInv
  <1>4. \A o \in StillOwed : o \subseteq Owed
    BY DEF StillOwed, HwiInv, Owed
  <1>5. owed' \subseteq Owed
    BY <1>4 DEF HandleCommand, LiveThread, RetroFrames, Owed
  <1> QED
    BY <1>1, <1>2, <1>3, <1>5, SameStateMachine, SameLiveThread DEF HwiInv

-----------------------------------------------------------------------------
(* Every step is one that StateMachineEnv knows, and keeps the invariant. *)
LEMMA NextStep ==
    ASSUME HwiInv, [Next]_vars
    PROVE  [Env!Next]_Env!smVars /\ HwiInv'
  <1>1. ASSUME AppStep
        PROVE  [Env!Next]_Env!smVars /\ HwiInv'
    BY <1>1, CallerStepInv DEF AppStep, StepInv, HwiInv, Env!Next, Env!smVars, smVars
  <1>2. CASE \E t \in Senders : Enter(t) \/ Proceed(t)
    BY <1>1, <1>2, EnterStep, ProceedStep
  <1>3. CASE HandleCommand \/ LiveThread
    BY <1>3, ThreadStep DEF Env!Next
  <1>4. CASE signalAPIResult \/ signalEvtResult
    BY <1>4, SignalStep DEF Env!Next
  <1>5. CASE Daemon
    <2>1. /\ Env!Raise \/ Env!Request \/ UNCHANGED smVars
          /\ CallerStep /\ UNCHANGED <<call, m_apiResultList>> /\ owed' \subseteq Owed
      BY <1>5, RaiseStep, StopCaptureStep DEF Daemon
    <2>2. SmInv'
      BY <2>1, CallerStepInv DEF StepInv, HwiInv
    <2> QED
      BY <2>1, <2>2 DEF HwiInv, CallsInv, Env!Next, Env!smVars, smVars
  <1>6. CASE UNCHANGED vars
    <2>1. UNCHANGED smVars /\ UNCHANGED <<call, m_apiResultList, owed>>
      BY <1>6 DEF vars, hwiVars
    <2>2. SmInv'
      BY <2>1, StutterIsCallerStep, CallerStepInv DEF StepInv, HwiInv
    <2> QED
      BY <2>1, <2>2 DEF HwiInv, CallsInv, Env!smVars, smVars
  <1> QED
    BY <1>2, <1>3, <1>4, <1>5, <1>6 DEF Next

LEMMA InitStep == Init => Env!SmInit /\ HwiInv
  <1> SUFFICES ASSUME Init PROVE Env!SmInit /\ HwiInv
    OBVIOUS
  <1>1. Env!SmInit
    BY DEF Init, SmInit, Env!SmInit, InitHardware, Env!InitHardware, Channel, Env!Channel
  <1>2. SmInv
    BY InitInv DEF Init
  <1>3. CallsInv
    BY NoCallType DEF Init, CallsInv
  <1> QED
    BY <1>1, <1>2, <1>3 DEF Init, HwiInv

LEMMA HwiInvariance == Spec => []HwiInv
  <1>1. HwiInv /\ [Next]_vars => HwiInv'
    BY NextStep
  <1> QED
    BY <1>1, InitStep, PTL DEF Spec

(***************************************************************************)
(* Calls, results and what the daemon owes keep their types, whichever     *)
(* threads call whichever methods: a woken thread takes a result that is   *)
(* there, and no request is posted with the payload of another.            *)
(***************************************************************************)
THEOREM CallsTyped == Spec => []TypeOK
  <1>1. HwiInv => TypeOK
    BY DEF HwiInv, SmInv, CallsInv, Owed, TypeOK
  <1> QED
    BY <1>1, HwiInvariance, PTL

(***************************************************************************)
(* The methods, the daemon and the post-processor are callers in the sense *)
(* of StateMachineEnv, for any number of threads and all methods: what is  *)
(* proved of the state machine there holds in the real surroundings.       *)
(***************************************************************************)
THEOREM CallersAreOpen == Spec => OpenSpec
  <1>1. HwiInv /\ [Next]_vars => [Env!Next]_Env!smVars
    BY NextStep
  <1> QED
    BY <1>1, InitStep, HwiInvariance, PTL DEF Spec, OpenSpec, Env!Spec

-----------------------------------------------------------------------------
(* What a handler answers *)

(* One result: for the command that is served, or of the notifier's kind. *)
OneResult ==
    \E r : /\ replies' = <<r>>
           /\ \/ r.kind = "EVT" /\ r.evt = "SNAPSHOT_DONE"
              \/ r.kind = "API" /\ r.evt = Next_cmd.evt

(* The handler enters PREPARE_SNAPSHOT. *)
Enters == m_state' = "PREPARE_SNAPSHOT" /\ m_state # "PREPARE_SNAPSHOT"

(* A handler gives at most one result.  The one for PREPARE_SNAPSHOT is kept
   back by entering the state of that name, and given by leaving it. *)
Gives ==
    \/ replies' = <<>> /\ (Enters => Next_cmd.evt = "PREPARE_SNAPSHOT")
    \/ OneResult /\ ~ Enters
    \/ /\ m_state = "PREPARE_SNAPSHOT" /\ m_state' # "PREPARE_SNAPSHOT"
       /\ \E r : replies' = <<r>> /\ r.kind = "API" /\ r.evt = "PREPARE_SNAPSHOT"

(* The live snapshot is taken in VIDEO_PIC_TAKING only. *)
TakesIn == live = "take" => m_state = "VIDEO_PIC_TAKING"

(* The recording states are entered by START_RECORDING only. *)
Records ==
    m_state' \in RecordingState =>
        m_state \in RecordingState \/ Next_cmd.evt = "START_RECORDING"

(* The command that is served, if there is one, is no death of the daemon. *)
Alive == api_queue # <<>> \/ evt_queue # <<>> => Next_cmd.evt # "DAEMON_DIED"

(* The command is taken from its queue; a SNAPSHOT_DONE may be raised. *)
Serves ==
    /\ replies = <<>> /\ (api_queue # <<>> \/ evt_queue # <<>>)
    /\ \E raised \in {<<>>, <<Node("EVT", "SNAPSHOT_DONE", {}, HAL)>>} :
          \/ /\ api_queue # <<>> /\ api_queue' = Tail(api_queue)
             /\ evt_queue' = evt_queue \o raised
          \/ /\ api_queue = <<>> /\ UNCHANGED api_queue
             /\ evt_queue' = Tail(evt_queue) \o raised

(* What every handler does, for the books of requests and results. *)
Handles == Gives /\ TakesIn' /\ Records /\ Serves

(* Every end of a handler takes the command from its queue. *)
LEMMA ServedBy ==
    ASSUME NEW s, NEW E, On(s, E), NEW t, NEW h, NEW rs, Finish(t, h, rs)
    PROVE  Serves
  <1>1. replies = <<>> /\ (api_queue # <<>> \/ evt_queue # <<>>)
    BY DEF On, Idle
  <1>2. \E raised \in {<<>>, <<Node("EVT", "SNAPSHOT_DONE", {}, HAL)>>} :
          \/ /\ api_queue # <<>> /\ api_queue' = Tail(api_queue)
             /\ evt_queue' = evt_queue \o raised
          \/ /\ api_queue = <<>> /\ UNCHANGED api_queue
             /\ evt_queue' = Tail(evt_queue) \o raised
    BY Zenon DEF Finish
  <1> QED
    BY <1>1, <1>2 DEF Serves

(* An answer that stays, or that leaves for a state of neither kind. *)
LEMMA AnswerHandles ==
    ASSUME TakesIn, NEW s, NEW E, On(s, E), NEW t, NEW o, Answer(t, o), UNCHANGED live,
           t = s \/ {s, t} \cap (RecordingState \cup {"PREPARE_SNAPSHOT"}) = {}
    PROVE  Handles
  <1>1. m_state = s /\ m_state' = t
    BY DEF On, Answer, Finish
  <1>2. OneResult
    <2>1. replies' = <<Result("API", Next_cmd.evt, o.rc)>>
      BY DEF Answer, Finish
    <2> QED
      BY <2>1 DEF Result, OneResult
  <1>3. Serves
    BY ServedBy DEF Answer
  <1> QED
    BY <1>1, <1>2, <1>3 DEF Gives, Enters, TakesIn, Records, Handles, RecordingState

(* The same of a handler without a result, or with one for the notifier. *)
LEMMA FinishHandles ==
    ASSUME TakesIn, NEW s, NEW E, On(s, E), NEW t, NEW h, NEW rs, Finish(t, h, rs),
           UNCHANGED live, rs = <<>> \/ \E c : rs = <<Result("EVT", "SNAPSHOT_DONE", c)>>,
           t = s \/ {s, t} \cap (RecordingState \cup {"PREPARE_SNAPSHOT"}) = {}
    PROVE  Handles
  <1>1. m_state = s /\ m_state' = t /\ replies' = rs
    BY DEF On, Finish
  <1>2. rs = <<>> \/ OneResult
    BY <1>1 DEF Result, OneResult
  <1>3. Serves
    BY ServedBy
  <1> QED
    BY <1>1, <1>2, <1>3 DEF Gives, Enters, TakesIn, Records, Handles, RecordingState

(* The handlers that many states share. *)
LEMMA SimpleHandles ==
    ASSUME TakesIn, NEW s,
           \/ \E E : Refuse(s, E) \/ Acknowledge(s, E) \/ Ignore(s, E)
           \/ \E E, S : Apply(s, E, S)
           \/ EnableMsg(s) \/ DisableMsg(s) \/ SetParams(s) \/ CommitParams(s)
           \/ ForgetRestart(s) \/ EvtDone(s)
    PROVE  Handles
  <1>1. CASE \E E : Refuse(s, E)
    <2>1. PICK E : Refuse(s, E)
      BY <1>1
    <2>2. m_state = s /\ Finish(s, hw, <<Result("API", Next_cmd.evt, "INVALID")>>)
          /\ UNCHANGED live
      BY <2>1 DEF Refuse, On
    <2>3. Serves
      BY <2>1, <2>2, ServedBy DEF Refuse
    <2> QED
      BY <2>2, <2>3 DEF Finish, Result, Gives, OneResult, Enters, TakesIn, Records, Handles
  <1>2. CASE \E E : Ignore(s, E)
    BY <1>2, FinishHandles DEF Ignore
  <1>3. CASE \E E : Acknowledge(s, E)
    BY <1>3, AnswerHandles DEF Acknowledge
  <1>4. CASE \E E, S : Apply(s, E, S)
    BY <1>4, AnswerHandles DEF Apply
  <1>5. CASE EnableMsg(s) \/ DisableMsg(s)
    BY <1>5, AnswerHandles DEF EnableMsg, DisableMsg
  <1>6. CASE SetParams(s) \/ CommitParams(s) \/ ForgetRestart(s)
    BY <1>6, <1>4 DEF SetParams, CommitParams, ForgetRestart
  <1>7. CASE EvtDone(s)
    BY <1>7, FinishHandles DEF EvtDone
  <1> QED
    BY <1>1, <1>2, <1>3, <1>4, <1>5, <1>6, <1>7

(* State by state: the handlers of PREVIEW_STOPPED, ... *)
LEMMA StoppedHandles ==
    ASSUME TakesIn, procEvtPreviewStoppedState
    PROVE  Handles
  <1>1. CASE StoppedPrepare \/ StoppedStart
    BY <1>1, AnswerHandles DEF StoppedPrepare, StoppedStart, RecordingState, On
  <1>2. CASE ~ (StoppedPrepare \/ StoppedStart)
    BY <1>2, SimpleHandles
       DEF procEvtPreviewStoppedState, StoppedInitFailed, StoppedAcknowledged,
           StoppedRefused, StoppedSetWindow, StoppedRelease, StoppedSendCommand
  <1> QED
    BY <1>1, <1>2

(* ... of PREVIEW_READY, ... *)
LEMMA ReadyHandles ==
    ASSUME TakesIn, procEvtPreviewReadyState
    PROVE  Handles
  <1>1. CASE ReadySetWindow \/ ReadyStart \/ ReadyStartWithoutWindow
             \/ ReadyStop \/ ReadyParamsRestart
    BY <1>1, AnswerHandles
       DEF ReadySetWindow, ReadyStart, ReadyStartWithoutWindow, ReadyStop,
           ReadyParamsRestart, AfterStart, RecordingState, On
  <1>2. CASE \/ ReadyAcknowledged \/ ReadyRefused \/ ReadyParamsStop
             \/ ReadySendCommand
             \/ \E E : Ignore("PREVIEW_READY", E)
             \/ EnableMsg("PREVIEW_READY") \/ DisableMsg("PREVIEW_READY")
             \/ SetParams("PREVIEW_READY") \/ CommitParams("PREVIEW_READY")
             \/ EvtDone("PREVIEW_READY")
    BY <1>2, SimpleHandles
       DEF ReadyAcknowledged, ReadyRefused, ReadyParamsStop, ReadySendCommand
  <1> QED
    BY <1>1, <1>2 DEF procEvtPreviewReadyState

(* ... of PREVIEWING, which enters PREPARE_SNAPSHOT and RECORDING, ... *)
LEMMA PreviewingHandles ==
    ASSUME TakesIn, procEvtPreviewingState
    PROVE  Handles
  <1>1. CASE \/ PreviewingAcknowledged \/ PreviewingRefused \/ PreviewingParamsStop
             \/ PreviewingPreStartRecording \/ PreviewingPreTakePicture
             \/ SetParams("PREVIEWING") \/ CommitParams("PREVIEWING")
             \/ EvtDone("PREVIEWING") \/ \E E : Ignore("PREVIEWING", E)
    BY <1>1, SimpleHandles
       DEF PreviewingAcknowledged, PreviewingRefused, PreviewingParamsStop,
           PreviewingPreStartRecording, PreviewingPreTakePicture
  <1>2. CASE \/ PreviewingEnableMsg \/ PreviewingDisableMsg \/ PreviewingParamsRestart
             \/ PreviewingStartAgain \/ PreviewingStop
    BY <1>2, AnswerHandles
       DEF PreviewingEnableMsg, PreviewingDisableMsg, PreviewingParamsRestart,
           PreviewingStartAgain, PreviewingStop, AfterStart, RecordingState
  <1>3. CASE PreviewingSendCommand
    BY <1>3, AnswerHandles DEF PreviewingSendCommand
  <1>4. CASE PreviewingTakeZsl
    BY <1>4, AnswerHandles, FinishHandles DEF PreviewingTakeZsl, RecordingState
  <1>5. CASE PreviewingTakeRestart
    BY <1>5, AnswerHandles, FinishHandles DEF PreviewingTakeRestart, RecordingState
  <1>6. CASE PreviewingTakeRegular
    BY <1>6, AnswerHandles DEF PreviewingTakeRegular, AfterStart, RecordingState
  <1>7. CASE PreviewingStartRecording
    <2>1. PICK o, t : Answer(t, o) /\ t # "PREPARE_SNAPSHOT" /\ m_state' = t
      BY <1>7 DEF PreviewingStartRecording, Answer, Finish
    <2>2. OneResult
      BY <2>1 DEF Answer, Finish, Result, OneResult
    <2>3. Next_cmd.evt = "START_RECORDING" /\ live # "take" /\ live' = live
      BY <1>7 DEF PreviewingStartRecording, On, TakesIn
    <2>4. Serves
      BY <1>7, ServedBy DEF PreviewingStartRecording, Answer
    <2> QED
      BY <2>1, <2>2, <2>3, <2>4 DEF Gives, Enters, TakesIn, Records, Handles
  <1>8. CASE PreviewingPrepareSnapshot
    <2>1. CASE \E o : Answer("PREVIEWING", o)
      BY <1>8, <2>1, AnswerHandles DEF PreviewingPrepareSnapshot
    <2>2. CASE Finish("PREPARE_SNAPSHOT", hw, <<>>)
      <3>1. /\ m_state' = "PREPARE_SNAPSHOT" /\ replies' = <<>> /\ live' = live
            /\ m_state = "PREVIEWING" /\ Next_cmd.evt = "PREPARE_SNAPSHOT"
        BY <1>8, <2>2 DEF Finish, PreviewingPrepareSnapshot, On
      <3>2. Serves
        BY <1>8, <2>2, ServedBy DEF PreviewingPrepareSnapshot
      <3> QED
        BY <3>1, <3>2 DEF Gives, TakesIn, Records, Handles, RecordingState
    <2> QED
      BY <1>8, <2>1, <2>2 DEF PreviewingPrepareSnapshot
  <1> QED
    BY <1>1, <1>2, <1>3, <1>4, <1>5, <1>6, <1>7, <1>8 DEF procEvtPreviewingState

(* ... of PREPARE_SNAPSHOT, which gives the result it kept back, ... *)
LEMMA PrepareSnapshotHandles ==
    ASSUME TakesIn, procEvtPrepareSnapshotState, Alive
    PROVE  Handles
  <1>1. CASE PrepareSnapshotDone
    <2>1. /\ m_state' = "PREVIEWING" /\ m_state = "PREPARE_SNAPSHOT" /\ live' = live
          /\ replies' = <<Result("API", "PREPARE_SNAPSHOT", "OK")>>
      BY <1>1 DEF PrepareSnapshotDone, On, Finish
    <2>2. \E r : replies' = <<r>> /\ r.kind = "API" /\ r.evt = "PREPARE_SNAPSHOT"
      BY <2>1 DEF Result
    <2>3. Serves
      BY <1>1, ServedBy DEF PrepareSnapshotDone
    <2> QED
      BY <2>1, <2>2, <2>3 DEF Gives, TakesIn, Records, Handles, RecordingState
  <1>2. CASE PrepareSnapshotRefused \/ EvtDone("PREPARE_SNAPSHOT")
             \/ \E E : Ignore("PREPARE_SNAPSHOT", E)
    BY <1>2, SimpleHandles DEF PrepareSnapshotRefused
  <1> QED
    BY <1>1, <1>2 DEF procEvtPrepareSnapshotState, DaemonDied, On, Alive

(* ... of PIC_TAKING, ... *)
LEMMA PicTakingHandles ==
    ASSUME TakesIn, procEvtPicTakingState, Alive
    PROVE  Handles
  <1>1. CASE PicTakingCancel \/ PicTakingSendCommand
    BY <1>1, AnswerHandles
       DEF PicTakingCancel, PicTakingSendCommand, AfterCommand, RecordingState
  <1>2. CASE PicTakingStopCaptureChannel
    BY <1>2, AnswerHandles DEF PicTakingStopCaptureChannel
  <1>3. CASE PicTakingDone \/ PicTakingDoneRestart
    BY <1>3, FinishHandles DEF PicTakingDone, PicTakingDoneRestart, RecordingState
  <1>4. CASE \/ PicTakingAcknowledged \/ PicTakingRefused
             \/ LongshotPreTake("PIC_TAKING") \/ LongshotTake("PIC_TAKING")
             \/ NotLongshot("PIC_TAKING")
             \/ EnableMsg("PIC_TAKING") \/ DisableMsg("PIC_TAKING")
             \/ SetParams("PIC_TAKING") \/ CommitParams("PIC_TAKING")
             \/ ForgetRestart("PIC_TAKING") \/ \E E : Ignore("PIC_TAKING", E)
    BY <1>4, SimpleHandles
       DEF PicTakingAcknowledged, PicTakingRefused, LongshotPreTake, LongshotTake,
           NotLongshot
  <1> QED
    BY <1>1, <1>2, <1>3, <1>4 DEF procEvtPicTakingState, DaemonDied, On, Alive

(* ... of RECORDING, which starts the live snapshot, ... *)
LEMMA RecordingHandles ==
    ASSUME TakesIn, procEvtRecordingState
    PROVE  Handles
  <1>1. CASE RecordingStop \/ RecordingStopPreview \/ RecordingTakePicture
    <2>1. PICK o, t : /\ Answer(t, o) /\ m_state = "RECORDING" /\ m_state' = t
                      /\ t # "PREPARE_SNAPSHOT"
                      /\ live' = live \/ t = "VIDEO_PIC_TAKING"
      BY <1>1 DEF RecordingStop, RecordingStopPreview, RecordingTakePicture, On,
         Answer, Finish
    <2>2. OneResult
      BY <2>1 DEF Answer, Finish, Result, OneResult
    <2>3. Serves
      BY <1>1, ServedBy
         DEF RecordingStop, RecordingStopPreview, RecordingTakePicture, Answer
    <2> QED
      BY <2>1, <2>2, <2>3 DEF Gives, Enters, TakesIn, Records, Handles, RecordingState
  <1>2. CASE RecordingSetParams("RECORDING")
    BY <1>2, AnswerHandles DEF RecordingSetParams
  <1>3. CASE \/ RecordingAcknowledged \/ RecordingRefused \/ RecordingSendCommand
             \/ CommitParams("RECORDING")
             \/ EnableMsg("RECORDING") \/ DisableMsg("RECORDING")
             \/ EvtDone("RECORDING") \/ \E E : Ignore("RECORDING", E)
    BY <1>3, SimpleHandles
       DEF RecordingAcknowledged, RecordingRefused, RecordingSendCommand
  <1> QED
    BY <1>1, <1>2, <1>3 DEF procEvtRecordingState

(* A handler that waits for the live snapshot thread and cancels it. *)
LEMMA CancelHandles ==
    ASSUME cancelLiveSnapshot, NEW s, NEW E, On(s, E), NEW t, NEW o,
           Answer(t, o), t # "PREPARE_SNAPSHOT",
           t \in RecordingState => s \in RecordingState
    PROVE  Handles
  <1>1. m_state = s /\ m_state' = t /\ live' # "take"
    BY DEF On, Answer, Finish, cancelLiveSnapshot
  <1>2. OneResult
    BY DEF Answer, Finish, Result, OneResult
  <1>3. Serves
    BY ServedBy DEF Answer
  <1> QED
    BY <1>1, <1>2, <1>3 DEF Gives, Enters, TakesIn, Records, Handles

(* ... of VIDEO_PIC_TAKING, which ends it, ... *)
LEMMA VideoPicHandles ==
    ASSUME TakesIn, procEvtVideoPicTakingState
    PROVE  Handles
  <1>1. CASE VideoPicCancel \/ VideoPicStopRecording \/ VideoPicStopPreview
    BY <1>1, CancelHandles
       DEF VideoPicCancel, VideoPicStopRecording, VideoPicStopPreview, RecordingState
  <1>2. CASE VideoPicDone
    <2>1. /\ m_state = "VIDEO_PIC_TAKING" /\ m_state' = "RECORDING"
          /\ live' # "take" /\ \E c : replies' = <<Result("EVT", "SNAPSHOT_DONE", c)>>
      BY <1>2 DEF VideoPicDone, On, Finish, cancelLiveSnapshot
    <2>2. OneResult
      BY <2>1 DEF Result, OneResult
    <2>3. Serves
      BY <1>2, ServedBy DEF VideoPicDone
    <2> QED
      BY <2>1, <2>2, <2>3 DEF Gives, Enters, TakesIn, Records, Handles, RecordingState
  <1>3. CASE RecordingSetParams("VIDEO_PIC_TAKING")
    BY <1>3, AnswerHandles DEF RecordingSetParams
  <1>4. CASE \/ VideoPicAcknowledged \/ VideoPicRefused \/ VideoPicSendCommand
             \/ CommitParams("VIDEO_PIC_TAKING")
             \/ EnableMsg("VIDEO_PIC_TAKING") \/ DisableMsg("VIDEO_PIC_TAKING")
             \/ \E E : Ignore("VIDEO_PIC_TAKING", E)
    BY <1>4, SimpleHandles
       DEF VideoPicAcknowledged, VideoPicRefused, VideoPicSendCommand
  <1> QED
    BY <1>1, <1>2, <1>3, <1>4 DEF procEvtVideoPicTakingState

(* ... and of PREVIEW_PIC_TAKING, without retro pictures. *)
LEMMA PreviewPicHandles ==
    ASSUME TakesIn, procEvtPreviewPicTakingState, ~ hw.retro,
           Alive
    PROVE  Handles
  <1>1. CASE PreviewPicParamsRestart \/ PreviewPicSendCommand
    BY <1>1, AnswerHandles
       DEF PreviewPicParamsRestart, PreviewPicSendCommand, AfterCommand, RecordingState
  <1>2. CASE PreviewPicCancel \/ PreviewPicStopPreview
    BY <1>2, AnswerHandles, CancelHandles
       DEF PreviewPicCancel, PreviewPicStopPreview, RecordingState
  <1>3. CASE PreviewPicStartRecording
    <2>1. PICK o, t : /\ Answer(t, o) /\ m_state = "PREVIEW_PIC_TAKING" /\ m_state' = t
                      /\ t # "PREPARE_SNAPSHOT" /\ live' = live
      BY <1>3 DEF PreviewPicStartRecording, On, Answer, Finish
    <2>2. OneResult
      BY <2>1 DEF Answer, Finish, Result, OneResult
    <2>3. Next_cmd.evt = "START_RECORDING"
      BY <1>3 DEF PreviewPicStartRecording, On
    <2>4. Serves
      BY <1>3, ServedBy DEF PreviewPicStartRecording, Answer
    <2> QED
      BY <2>1, <2>2, <2>3, <2>4 DEF Gives, Enters, TakesIn, Records, Handles
  <1>4. CASE PreviewPicPrepareSnapshot
    <2>1. /\ m_state = "PREVIEW_PIC_TAKING" /\ m_state' = "PREVIEW_PIC_TAKING"
          /\ live' = live /\ Next_cmd.evt = "PREPARE_SNAPSHOT"
          /\ replies' = <<Result("API", "PREPARE_SNAPSHOT", "INVALID")>>
      BY <1>4 DEF PreviewPicPrepareSnapshot, On, Finish
    <2>2. OneResult
      BY <2>1 DEF Result, OneResult
    <2>3. Serves
      BY <1>4, ServedBy DEF PreviewPicPrepareSnapshot
    <2> QED
      BY <2>1, <2>2, <2>3 DEF Gives, Enters, TakesIn, Records, Handles
  <1>5. CASE PreviewPicDone
    <2>1. PICK c : /\ m_state = "PREVIEW_PIC_TAKING" /\ m_state' = "PREVIEWING"
                   /\ replies' = DoneResults(c)
                   /\ live' # "take" \/ live' = live
      BY <1>5 DEF PreviewPicDone, On, Finish, cancelLiveSnapshot
    <2>2. replies' = <<Result("EVT", "SNAPSHOT_DONE", c)>>
      BY <2>1 DEF DoneResults
    <2>3. OneResult
      BY <2>2 DEF Result, OneResult
    <2>4. Serves
      BY <1>5, ServedBy DEF PreviewPicDone
    <2> QED
      BY <2>1, <2>3, <2>4 DEF Gives, Enters, TakesIn, Records, Handles, RecordingState
  <1>6. CASE \E e, a : RetroEvent(e, a)
    <2>1. \E s, E : On(s, E) /\ Finish(s, hw, <<>>) /\ UNCHANGED live
      BY <1>6 DEF RetroEvent
    <2> QED
      BY <2>1, FinishHandles
  <1>7. CASE \/ PreviewPicAcknowledged \/ PreviewPicRefused \/ PreviewPicParamsStop
             \/ PreviewPicRecordRefused \/ PreviewPicPreStartRecording
             \/ LongshotPreTake("PREVIEW_PIC_TAKING") \/ LongshotTake("PREVIEW_PIC_TAKING")
             \/ NotLongshot("PREVIEW_PIC_TAKING")
             \/ EnableMsg("PREVIEW_PIC_TAKING") \/ DisableMsg("PREVIEW_PIC_TAKING")
             \/ SetParams("PREVIEW_PIC_TAKING") \/ CommitParams("PREVIEW_PIC_TAKING")
             \/ \E E : Ignore("PREVIEW_PIC_TAKING", E)
    BY <1>7, SimpleHandles
       DEF PreviewPicAcknowledged, PreviewPicRefused, PreviewPicParamsStop,
           PreviewPicRecordRefused, PreviewPicPreStartRecording, LongshotPreTake,
           LongshotTake, NotLongshot
  <1> QED
    BY <1>1, <1>2, <1>3, <1>4, <1>5, <1>6, <1>7
       DEF procEvtPreviewPicTakingState, DaemonDied, On, Alive

(* Every handler, in a session without retro pictures and without deaths. *)
LEMMA StateMachineHandles ==
    ASSUME TakesIn, stateMachine, ~ hw.retro, Alive
    PROVE  Handles
  BY StoppedHandles, ReadyHandles, PreviewingHandles, PrepareSnapshotHandles,
     PicTakingHandles, RecordingHandles, VideoPicHandles, PreviewPicHandles
     DEF stateMachine

-----------------------------------------------------------------------------
(* What the handlers leave of the object *)

(* No retro picture; and a VIDEO channel has a SNAPSHOT channel at its side,
   unless the daemon refuses one of the two. *)
Fit(h) ==
    /\ h \in Hardware /\ ~ h.retro
    /\ MayFail \/ h.ch["SNAPSHOT"] # "null" \/ h.ch["VIDEO"] = "null"

(* The same of all outcomes of a call. *)
FitAll(S) == \A o \in S : Fit(o.hw)

(* Channels and the retro flag are all that matters. *)
LEMMA FitSame ==
    ASSUME NEW h, Fit(h), NEW g \in Hardware, g.ch = h.ch, g.retro = h.retro
    PROVE  Fit(g) /\ Fit(Ok(g).hw) /\ Fit(Err(g).hw)
  BY DEF Fit, Ok, Err

(* An object that fits is a fit outcome, successful or not. *)
LEMMA FitOutcome ==
    ASSUME NEW h, Fit(h)
    PROVE  Fit(Ok(h).hw) /\ Fit(Err(h).hw)
  BY DEF Ok, Err

(* The two channels are deleted together, and added together. *)
LEMMA FitChannels ==
    ASSUME NEW h, Fit(h), NEW S, NEW v \in ChannelState,
           \/ MayFail
           \/ v = "null" /\ ("SNAPSHOT" \in S => "VIDEO" \in S)
           \/ v # "null" /\ ("VIDEO" \in S => "SNAPSHOT" \in S \/ h.ch["VIDEO"] # "null")
    PROVE  Fit(WithChannels(h, S, v))
  <1>1. WithChannels(h, S, v) \in Hardware
    BY WithChannelsType DEF Fit
  <1>2. \A c \in {"SNAPSHOT", "VIDEO"} :
            WithChannels(h, S, v).ch[c] = IF c \in S THEN v ELSE h.ch[c]
    BY DEF WithChannels, Hardware, Channel, Fit
  <1>3. WithChannels(h, S, v).retro = h.retro
    BY DEF WithChannels, Hardware, Fit
  <1> QED
    BY <1>1, <1>2, <1>3 DEF Fit

(* Tearing down: stopPreview, unpreparePreview, releaseChannels, delChannel. *)
LEMMA FitDelete ==
    ASSUME NEW h, Fit(h)
    PROVE  /\ Fit(stopPreview(h)) /\ Fit(unpreparePreview(h)) /\ Fit(releaseChannels(h))
           /\ \A S : MayFail => Fit(delChannels(h, S))
           /\ Fit(delChannels(h, {"CAPTURE"}))
           /\ Fit(delChannels(h, {"ZSL"})) /\ Fit(delChannels(h, {"PREVIEW"}))
  <1>1. /\ Fit(WithChannels(h, PreviewChannels, "null"))
        /\ Fit(WithChannels(h, Channel, "null"))
        /\ \A S : MayFail => Fit(WithChannels(h, S, "null"))
        /\ \A c \in {"CAPTURE", "ZSL", "PREVIEW"} : Fit(WithChannels(h, {c}, "null"))
    BY FitChannels DEF ChannelState, PreviewChannels, Channel
  <1> QED
    BY <1>1 DEF delChannels, unpreparePreview, stopPreview, releaseChannels

(* stopChannel *)
LEMMA FitStop ==
    ASSUME NEW h, Fit(h), NEW c \in Channel
    PROVE  Fit(stopChannel(h, c).hw)
  <1>1. h.ch[c] # "null" => Fit(WithChannels(h, {c}, "added"))
    BY FitChannels DEF ChannelState
  <1> QED
    BY <1>1 DEF stopChannel, Ok, Err

(* startChannel *)
LEMMA FitStart ==
    ASSUME NEW h, Fit(h), NEW c \in Channel
    PROVE  FitAll(startChannel(h, c))
  <1>1. h.ch[c] # "null" => Fit(WithChannels(h, {c}, "started"))
    BY FitChannels DEF ChannelState
  <1>2. \A o \in startChannel(h, c) :
           \/ o = Err(h)
           \/ h.ch[c] # "null" /\ o = Ok(WithChannels(h, {c}, "started"))
    BY DEF startChannel, MayErr
  <1> QED
    BY <1>1, <1>2, FitOutcome DEF FitAll

(* cancelPicture *)
LEMMA FitCancel ==
    ASSUME NEW h, Fit(h)
    PROVE  Fit(cancelPicture(h)) /\ Fit(unpreparePreview(cancelPicture(h)))
  <1> DEFINE g == [h EXCEPT !.postproc = FALSE]
  <1>1. Fit(g)
    <2>1. g \in Hardware /\ g.ch = h.ch /\ g.retro = h.retro
      BY DEF Fit, Hardware
    <2> QED
      BY <2>1, FitSame
  <1>2. cancelPicture(h) = IF h.p.zsl THEN g ELSE delChannels(g, {"CAPTURE"})
    BY DEF cancelPicture
  <1> HIDE DEF g
  <1>3. Fit(cancelPicture(h))
    BY <1>1, <1>2, FitDelete
  <1> QED
    BY <1>3, FitDelete

(* The end of a longshot. *)
LEMMA FitLongshotOff ==
    ASSUME NEW h, Fit(h), NEW cap
    PROVE  Fit(longshotOff(h, cap))
  <1> DEFINE g == IF h.longshot /\ cap
                  THEN [cancelPicture(h) EXCEPT !.raised = TRUE] ELSE h
  <1>1. \A k \in Hardware :
           /\ [k EXCEPT !.raised = TRUE] \in Hardware
           /\ [k EXCEPT !.raised = TRUE].ch = k.ch
           /\ [k EXCEPT !.raised = TRUE].retro = k.retro
           /\ [k EXCEPT !.prepSnapRun = FALSE, !.longshot = FALSE] \in Hardware
           /\ [k EXCEPT !.prepSnapRun = FALSE, !.longshot = FALSE].ch = k.ch
           /\ [k EXCEPT !.prepSnapRun = FALSE, !.longshot = FALSE].retro = k.retro
    BY DEF Hardware
  <1>2. Fit(g)
    <2>1. Fit(cancelPicture(h))
      BY FitCancel
    <2>2. Fit([cancelPicture(h) EXCEPT !.raised = TRUE])
      BY <1>1, <2>1, FitSame DEF Fit
    <2> QED
      BY <2>2
  <1>3. longshotOff(h, cap) = [g EXCEPT !.prepSnapRun = FALSE, !.longshot = FALSE]
    BY DEF longshotOff
  <1> HIDE DEF g
  <1> QED
    BY <1>1, <1>2, <1>3, FitSame DEF Fit

(* sendCommand *)
LEMMA FitCommand ==
    ASSUME NEW h, Fit(h), NEW cmd, NEW cap
    PROVE  FitAll(sendCommand(h, cmd, cap))
  <1> SUFFICES ASSUME NEW o \in sendCommand(h, cmd, cap)
               PROVE  Fit(o.hw)
    BY DEF FitAll
  <1>1. CASE "LONGSHOT_ON" \in cmd
    <2> DEFINE on == [h EXCEPT !.longshot = TRUE, !.prepSnapRun = FALSE]
    <2>1. on \in Hardware /\ on.ch = h.ch /\ on.retro = h.retro
      BY DEF Hardware, Fit
    <2>2. o \in {Err(h), Ok(on), Err(on)}
      BY <1>1 DEF sendCommand, longshotOn, MayErr
    <2> HIDE DEF on
    <2> QED
      BY <2>1, <2>2, FitSame, FitOutcome
  <1>2. CASE "LONGSHOT_ON" \notin cmd
    <2>1. o \in {Ok(longshotOff(h, cap)), Err(longshotOff(h, cap))}
      BY <1>2 DEF sendCommand, MayErr
    <2> QED
      BY <2>1, FitLongshotOff, FitOutcome
  <1> QED
    BY <1>1, <1>2

(* takePicture *)
LEMMA FitTake ==
    ASSUME NEW h, Fit(h)
    PROVE  FitAll(takePicture(h))
  <1> SUFFICES ASSUME NEW o \in takePicture(h)
               PROVE  Fit(o.hw)
    BY DEF FitAll
  <1>1. o.hw \in Hardware
    BY TakePictureType DEF Outcome, Fit
  <1>2. CASE h.p.zsl
    <2>1. \E g \in {h, [h EXCEPT !.postproc = TRUE], [h EXCEPT !.postproc = FALSE]} :
             o = Ok(g) \/ o = Err(g)
      BY <1>2 DEF takePicture, takeZslPicture, MayErr
    <2>2. o.hw.ch = h.ch /\ o.hw.retro = h.retro
      BY <2>1 DEF Hardware, Ok, Err, Fit
    <2> QED
      BY <1>1, <2>2, FitSame
  <1>3. CASE ~ h.p.zsl
    <2> DEFINE g == stopPreview(h)
    <2>1. Fit(g)
      BY FitDelete
    <2>2. \E v, pp : o.hw \in {g, WithCapture(g, v, pp)}
      <3>1. \/ o = Ok(WithCapture(g, "started", TRUE)) \/ o = Err(g)
            \/ \E l \in HalfTaken(h) : o = Err(WithCapture(g, l[1], l[2]))
        BY <1>3 DEF takePicture, takeRegularPicture, MayErr
      <3> HIDE DEF g
      <3>2. \A k : Ok(k).hw = k /\ Err(k).hw = k
        BY DEF Ok, Err
      <3>3. CASE \E l \in HalfTaken(h) : o = Err(WithCapture(g, l[1], l[2]))
        <4>1. PICK l \in HalfTaken(h) : o = Err(WithCapture(g, l[1], l[2]))
          BY <3>3
        <4>2. o.hw = WithCapture(g, l[1], l[2])
          BY <3>2, <4>1
        <4> QED
          BY <4>2
      <3>4. CASE o = Ok(WithCapture(g, "started", TRUE))
        <4>1. o.hw = WithCapture(g, "started", TRUE)
          BY <3>2, <3>4
        <4> QED
          BY <4>1
      <3> QED
        BY <3>1, <3>2, <3>3, <3>4
    <2> HIDE DEF g
    <2>3. \A v, pp : /\ WithCapture(g, v, pp).retro = g.retro
                     /\ WithCapture(g, v, pp).ch["SNAPSHOT"] = g.ch["SNAPSHOT"]
                     /\ WithCapture(g, v, pp).ch["VIDEO"] = g.ch["VIDEO"]
      BY <2>1 DEF Fit, WithCapture, WithChannels, Hardware, Channel
    <2> QED
      BY <1>1, <2>1, <2>2, <2>3 DEF Fit
  <1> QED
    BY <1>2, <1>3

(* longShot *)
LEMMA FitLongShot ==
    ASSUME NEW h, Fit(h)
    PROVE  FitAll(longShot(h))
  BY DEF longShot, MayErr, Ok, Err, FitAll

(* startPreview *)
LEMMA FitStartPreview ==
    ASSUME NEW h, Fit(h)
    PROVE  FitAll(startPreview(h)) /\ FitAll(ReadyStarted(h))
  <1>1. FitAll(startPreview(h))
    BY FitStart DEF startPreview, Channel
  <1> QED
    BY <1>1, FitDelete, FitOutcome DEF FitAll, ReadyStarted

(* preparePreview adds SNAPSHOT and VIDEO together, or neither. *)
LEMMA FitPrepare ==
    ASSUME NEW h, Fit(h), NEW cap
    PROVE  FitAll(preparePreview(h, cap))
  <1> DEFINE g == IF h.longshot THEN longshotOff(h, cap) ELSE h
             rec == {"SNAPSHOT", "VIDEO", "PREVIEW"}
  <1>1. Fit(g)
    BY FitLongshotOff
  <1>2. Fit(WithChannels(g, rec, "added"))
    BY <1>1, FitChannels DEF ChannelState
  <1>3. Fit(WithChannels(h, {"ZSL"}, "added")) /\ Fit(WithChannels(h, {"PREVIEW"}, "added"))
    BY FitChannels DEF ChannelState
  <1>4. ASSUME NEW o \in preparePreview(h, cap)
        PROVE  \/ \E k \in {h, delChannels(h, {"ZSL"}), delChannels(h, {"PREVIEW"})} : o = Err(k)
               \/ o = Ok(WithChannels(h, {"ZSL"}, "added"))
               \/ o = Ok(WithChannels(h, {"PREVIEW"}, "added"))
               \/ o = Ok(WithChannels(g, rec, "added"))
               \/ MayFail /\ \E S : o = Err(delChannels(g, S))
    <2>1. CASE isZslPreview(h)
      BY <2>1 DEF preparePreview, MayErr
    <2>2. CASE ~ isZslPreview(h) /\ h.p.hint
      BY <2>2 DEF preparePreview, MayErr
    <2>3. CASE ~ isZslPreview(h) /\ ~ h.p.hint
      BY <2>3 DEF preparePreview, MayErr
    <2> QED
      BY <2>1, <2>2, <2>3
  <1> HIDE DEF g, rec
  <1> QED
    BY <1>1, <1>2, <1>3, <1>4, FitDelete, FitOutcome DEF FitAll

(* preparePreview and startPreview in one handler. *)
LEMMA FitPrepareStart ==
    ASSUME NEW h, Fit(h), NEW cap
    PROVE  /\ FitAll(prepareAndStart(h, cap)) /\ FitAll(prepareStartOrUndo(h, cap))
           /\ \A undo : FitAll(BringUp(h, cap, undo))
  <1>1. \A o \in preparePreview(h, cap) :
           Fit(o.hw) /\ FitAll(startPreview(o.hw)) /\ FitAll(ReadyStarted(o.hw))
    BY FitPrepare, FitStartPreview DEF FitAll
  <1>2. FitAll(prepareAndStart(h, cap))
    BY <1>1 DEF FitAll, prepareAndStart
  <1>3. FitAll(prepareStartOrUndo(h, cap))
    BY <1>1 DEF FitAll, prepareStartOrUndo, ReadyStarted
  <1>4. ASSUME NEW undo PROVE FitAll(BringUp(h, cap, undo))
    BY <1>1, FitDelete DEF FitAll, BringUp
  <1> QED
    BY <1>2, <1>3, <1>4

(* The parameters are no part of it: values that are set, ... *)
LEMMA FitValues ==
    ASSUME NEW h, Fit(h), NEW v \in BOOLEAN
    PROVE  /\ \A g \in updateRecordingHintValue(h, v) : Fit(g)
           /\ \A g \in updateZSLModeValue(h, v) : Fit(g)
           /\ FitAll(commitParameterChanges(h))
           /\ \A a : FitAll(updateParameters(h, a))
  <1>0. h \in Hardware
    BY DEF Fit
  <1>1. \A p : [h EXCEPT !.p = p].ch = h.ch /\ [h EXCEPT !.p = p].retro = h.retro
    BY <1>0 DEF Hardware
  <1>2. /\ \A g \in updateRecordingHintValue(h, v) : g \in Hardware /\ g.ch = h.ch /\ g.retro = h.retro
        /\ \A g \in updateZSLModeValue(h, v) : g \in Hardware /\ g.ch = h.ch /\ g.retro = h.retro
    BY <1>0, <1>1, UpdateValueType
       DEF updateRecordingHintValue, updateZSLModeValue, CommitOrKeep
  <1>3. \A o \in commitParameterChanges(h) :
           o.hw \in Hardware /\ o.hw.ch = h.ch /\ o.hw.retro = h.retro
    <2>1. \A o \in commitParameterChanges(h) : o.hw.retro = h.retro
      BY <1>0 DEF commitParameterChanges, MayErr, Ok, Err, Hardware
    <2> QED
      BY <1>0, <2>1, CommitType DEF Outcome
  <1>4. \A a : \A o \in updateParameters(h, a) :
           o.hw \in Hardware /\ o.hw.ch = h.ch /\ o.hw.retro = h.retro
    <2>1. ASSUME NEW a, NEW o \in updateParameters(h, a)
          PROVE  o.hw.retro = h.retro
      <3> DEFINE g == [h EXCEPT !.p = updatedParams(h.p, a),
                                !.needRestart = restartNeeded(h.p, a)]
      <3>1. o = Ok(g) \/ o = Err(g)
        BY DEF updateParameters, MayErr
      <3>2. g.retro = h.retro
        BY <1>0 DEF Hardware
      <3> HIDE DEF g
      <3> QED
        BY <3>1, <3>2 DEF Ok, Err
    <2> QED
      BY <1>0, <2>1, UpdateParametersType DEF Outcome
  <1> QED
    BY <1>2, <1>3, <1>4, FitSame DEF FitAll

(* ... and modes. *)
LEMMA FitModes ==
    ASSUME NEW h, Fit(h), NEW cap
    PROVE  /\ FitAll(preStartRecording(h, cap)) /\ FitAll(preTakePicture(h, cap))
           /\ \A g \in WithoutHint(h) : Fit(g)
  <1>1. \A v \in BOOLEAN : \A g \in updateRecordingHintValue(stopPreview(h), v) :
           \A c : FitAll(prepareAndStart(g, c)) /\ FitAll(prepareStartOrUndo(g, c))
    BY FitDelete, FitValues, FitPrepareStart
  <1>2. FitAll(preStartRecording(h, cap))
    BY <1>1, FitOutcome DEF preStartRecording, FitAll
  <1>3. FitAll(preTakePicture(h, cap))
    BY <1>1, FitOutcome DEF preTakePicture, FitAll
  <1>4. \A g \in WithoutHint(h) : Fit(g)
    <2>1. ASSUME NEW g \in WithoutHint(h)
          PROVE  \/ g = h
                 \/ \E k \in updateRecordingHintValue(stopPreview(h), FALSE) :
                    \E o \in prepareStartOrUndo(k, FALSE) : g = o.hw
      BY DEF WithoutHint
    <2> QED
      BY <1>1, <2>1 DEF FitAll
  <1> QED
    BY <1>2, <1>3, <1>4

(* startRecording *)
LEMMA FitRecording ==
    ASSUME NEW h, Fit(h)
    PROVE  /\ FitAll(startRecording(h)) /\ Fit(stopRecording(h).hw)
           /\ Fit(stopPreview(stopRecording(h).hw)) /\ Fit(stopCaptureChannel(h).hw)
  BY FitStart, FitStop, FitDelete
     DEF startRecording, stopRecording, stopCaptureChannel, Channel

(* A handler that ends with a fit object leaves one. *)
LEMMA FinishFit ==
    ASSUME NEW s, NEW h, Fit(h), NEW rs, Finish(s, h, rs)
    PROVE  Fit(hw')
  <1>1. hw' = [h EXCEPT !.raised = FALSE] /\ h \in Hardware
    BY DEF Finish, Fit
  <1>2. hw' \in Hardware /\ hw'.ch = h.ch /\ hw'.retro = h.retro
    BY <1>1 DEF Hardware
  <1> QED
    BY <1>2, FitSame

(* The same of the usual end, ... *)
LEMMA AnswerFit ==
    ASSUME NEW s, NEW o, Fit(o.hw), Answer(s, o)
    PROVE  Fit(hw')
  BY FinishFit DEF Answer

(* ... and of a request that is one call. *)
LEMMA ApplyFit ==
    ASSUME NEW s, NEW E, NEW S, FitAll(S), Apply(s, E, S)
    PROVE  Fit(hw')
  BY AnswerFit DEF Apply, FitAll

(* m_bNeedRestart and the window. *)
LEMMA FitFields ==
    ASSUME NEW h, Fit(h)
    PROVE  /\ Fit([h EXCEPT !.needRestart = FALSE])
           /\ \A w \in BOOLEAN : Fit([h EXCEPT !.window = w])
  <1>1. \A k \in Hardware :
           /\ [k EXCEPT !.needRestart = FALSE] \in Hardware
           /\ [k EXCEPT !.needRestart = FALSE].ch = k.ch
           /\ [k EXCEPT !.needRestart = FALSE].retro = k.retro
           /\ \A w \in BOOLEAN : /\ [k EXCEPT !.window = w] \in Hardware
                                 /\ [k EXCEPT !.window = w].ch = k.ch
                                 /\ [k EXCEPT !.window = w].retro = k.retro
    BY DEF Hardware
  <1> QED
    BY <1>1, FitSame DEF Fit

(* setNeedRestart *)
LEMMA FitNeedRestart ==
    ASSUME NEW o \in Outcome \cup BroughtUp, Fit(o.hw)
    PROVE  Fit([o EXCEPT !.hw.needRestart = FALSE].hw)
  <1>1. [o EXCEPT !.hw.needRestart = FALSE].hw = [o.hw EXCEPT !.needRestart = FALSE]
    BY DEF Outcome, BroughtUp
  <1> QED
    BY <1>1, FitFields

(* The handlers that many states share. *)
LEMMA SimpleFit ==
    ASSUME Fit(hw), NEW s,
           \/ \E E : Refuse(s, E) \/ Acknowledge(s, E) \/ Ignore(s, E)
           \/ EnableMsg(s) \/ DisableMsg(s) \/ SetParams(s) \/ CommitParams(s)
           \/ ForgetRestart(s) \/ EvtDone(s) \/ DaemonDied(s)
           \/ LongshotPreTake(s) \/ LongshotTake(s) \/ NotLongshot(s)
    PROVE  Fit(hw')
  <1>1. CASE \E E : Refuse(s, E) \/ Acknowledge(s, E) \/ Ignore(s, E)
    BY <1>1, FinishFit, AnswerFit, FitOutcome DEF Refuse, Acknowledge, Ignore
  <1>2. CASE EnableMsg(s) \/ DisableMsg(s)
    BY <1>2, AnswerFit, FitOutcome DEF EnableMsg, DisableMsg
  <1>3. CASE SetParams(s) \/ CommitParams(s)
    BY <1>3, ApplyFit, FitValues DEF SetParams, CommitParams
  <1>4. CASE ForgetRestart(s)
    <2>1. FitAll({Ok([hw EXCEPT !.needRestart = FALSE])})
      BY FitFields, FitOutcome DEF FitAll
    <2> QED
      BY <1>4, <2>1, ApplyFit DEF ForgetRestart
  <1>5. CASE EvtDone(s) \/ DaemonDied(s)
    BY <1>5, FinishFit DEF EvtDone, DaemonDied
  <1>6. CASE LongshotPreTake(s) \/ LongshotTake(s)
    <2>1. FitAll({Ok(hw)}) /\ FitAll({}) /\ FitAll(longShot(hw))
      BY FitOutcome, FitLongShot DEF FitAll
    <2> QED
      BY <1>6, <2>1, ApplyFit DEF LongshotPreTake, LongshotTake
  <1>7. CASE NotLongshot(s)
    BY <1>7, <1>1 DEF NotLongshot
  <1> QED
    BY <1>1, <1>2, <1>3, <1>4, <1>5, <1>6, <1>7

(* State by state: PREVIEW_STOPPED, ... *)
LEMMA StoppedFit ==
    ASSUME Fit(hw), procEvtPreviewStoppedState
    PROVE  Fit(hw')
  <1>1. CASE StoppedInitFailed \/ StoppedRelease \/ StoppedSendCommand
    <2>1. FitAll(MayErr({hw})) /\ FitAll({Ok(releaseChannels(hw))})
      BY FitOutcome, FitDelete DEF MayErr, FitAll
    <2> QED
      BY <1>1, <2>1, ApplyFit, FitCommand
         DEF StoppedInitFailed, StoppedRelease, StoppedSendCommand
  <1>2. CASE StoppedSetWindow
    <2> DEFINE w == "window" \in Next_cmd.arg
    <2>1. Apply("PREVIEW_STOPPED", {"SET_PREVIEW_WINDOW"}, {Ok([hw EXCEPT !.window = w])})
      BY <1>2 DEF StoppedSetWindow
    <2>2. w \in BOOLEAN
      OBVIOUS
    <2> HIDE DEF w
    <2>3. FitAll({Ok([hw EXCEPT !.window = w])})
      BY <2>2, FitFields, FitOutcome DEF FitAll
    <2> QED
      BY <2>1, <2>3, ApplyFit
  <1>3. CASE StoppedPrepare \/ StoppedStart
    BY <1>3, AnswerFit, FitPrepare, FitPrepareStart DEF StoppedPrepare, StoppedStart, FitAll
  <1>4. CASE \/ StoppedAcknowledged \/ StoppedRefused
             \/ EnableMsg("PREVIEW_STOPPED") \/ DisableMsg("PREVIEW_STOPPED")
             \/ SetParams("PREVIEW_STOPPED") \/ CommitParams("PREVIEW_STOPPED")
             \/ ForgetRestart("PREVIEW_STOPPED") \/ EvtDone("PREVIEW_STOPPED")
             \/ \E E : Ignore("PREVIEW_STOPPED", E)
    BY <1>4, SimpleFit DEF StoppedAcknowledged, StoppedRefused
  <1> QED
    BY <1>1, <1>2, <1>3, <1>4 DEF procEvtPreviewStoppedState

(* ... PREVIEW_READY, ... *)
LEMMA ReadyFit ==
    ASSUME Fit(hw), procEvtPreviewReadyState
    PROVE  Fit(hw')
  <1>1. CASE ReadySetWindow
    <2> DEFINE w == "window" \in Next_cmd.arg
               h == [hw EXCEPT !.window = w]
    <2>1. Fit(h)
      <3>1. w \in BOOLEAN
        OBVIOUS
      <3> HIDE DEF w
      <3> QED
        BY <3>1, FitFields
    <2>2. \E t : \/ Answer(t, Ok(h))
                 \/ \E o \in ReadyStarted(h) : Answer(t, o)
      BY <1>1 DEF ReadySetWindow
    <2> HIDE DEF w, h
    <2> QED
      BY <2>1, <2>2, AnswerFit, FitOutcome, FitStartPreview DEF FitAll
  <1>2. CASE ReadyStart
    <2>1. \A o \in ReadyStarted(hw) : Fit(Ok(o.hw).hw)
      BY FitStartPreview, FitOutcome DEF FitAll
    <2> QED
      BY <1>2, <2>1, AnswerFit DEF ReadyStart
  <1>3. CASE ReadyStop \/ ReadyStartWithoutWindow
    BY <1>3, AnswerFit, FitDelete, FitOutcome DEF ReadyStop, ReadyStartWithoutWindow
  <1>4. CASE ReadyParamsStop \/ ReadySendCommand
    <2>1. FitAll({Ok(unpreparePreview(hw))})
      BY FitDelete, FitOutcome DEF FitAll
    <2> QED
      BY <1>4, <2>1, FitCommand, ApplyFit DEF ReadyParamsStop, ReadySendCommand
  <1>5. CASE ReadyParamsRestart
    <2>1. \A o \in preparePreview(hw, FALSE) :
             Fit([o EXCEPT !.hw.needRestart = FALSE].hw)
      BY PreparePreviewType, FitPrepare, FitNeedRestart DEF Fit, FitAll
    <2> QED
      BY <1>5, <2>1, AnswerFit DEF ReadyParamsRestart
  <1>6. CASE \/ ReadyAcknowledged \/ ReadyRefused
             \/ EnableMsg("PREVIEW_READY") \/ DisableMsg("PREVIEW_READY")
             \/ SetParams("PREVIEW_READY") \/ CommitParams("PREVIEW_READY")
             \/ EvtDone("PREVIEW_READY") \/ \E E : Ignore("PREVIEW_READY", E)
    BY <1>6, SimpleFit DEF ReadyAcknowledged, ReadyRefused
  <1> QED
    BY <1>1, <1>2, <1>3, <1>4, <1>5, <1>6 DEF procEvtPreviewReadyState

(* ... PREVIEWING, ... *)
LEMMA PreviewingFit ==
    ASSUME Fit(hw), procEvtPreviewingState
    PROVE  Fit(hw')
  <1>1. CASE \/ PreviewingAcknowledged \/ PreviewingRefused
             \/ SetParams("PREVIEWING") \/ CommitParams("PREVIEWING")
             \/ EvtDone("PREVIEWING") \/ \E E : Ignore("PREVIEWING", E)
    BY <1>1, SimpleFit DEF PreviewingAcknowledged, PreviewingRefused
  <1>2. CASE \/ PreviewingEnableMsg \/ PreviewingDisableMsg
             \/ PreviewingStartAgain \/ PreviewingStop
    BY <1>2, AnswerFit, FitDelete, FitOutcome
       DEF PreviewingEnableMsg, PreviewingDisableMsg, PreviewingStartAgain, PreviewingStop
  <1>3. CASE \/ PreviewingParamsStop \/ PreviewingPreStartRecording
             \/ PreviewingPreTakePicture
    <2>1. FitAll({Ok(stopPreview(hw))})
      BY FitDelete, FitOutcome DEF FitAll
    <2> QED
      BY <1>3, <2>1, FitModes, ApplyFit
         DEF PreviewingParamsStop, PreviewingPreStartRecording, PreviewingPreTakePicture
  <1>4. CASE PreviewingParamsRestart
    <2>1. ASSUME NEW o \in BringUp(hw, FALSE, TRUE)
          PROVE  Fit([o EXCEPT !.hw.needRestart = FALSE].hw)
      <3>1. o \in BroughtUp
        BY BringUpType DEF Fit
      <3>2. Fit(o.hw)
        BY FitPrepareStart DEF FitAll
      <3> QED
        BY <3>1, <3>2, FitNeedRestart
    <2> QED
      BY <1>4, <2>1, AnswerFit DEF PreviewingParamsRestart
  <1>5. CASE PreviewingStartRecording
    BY <1>5, AnswerFit, FitRecording DEF PreviewingStartRecording, FitAll
  <1>6. CASE PreviewingPrepareSnapshot
    <2>1. \A o \in MayErr({hw}) : Fit(o.hw)
      BY FitOutcome DEF MayErr
    <2> QED
      BY <1>6, <2>1, AnswerFit, FinishFit DEF PreviewingPrepareSnapshot
  <1>7. CASE PreviewingSendCommand
    <2>1. \A o \in sendCommand(hw, Next_cmd.arg, FALSE) :
             /\ Fit(o.hw)
             /\ \A b \in BringUp(stopPreview(o.hw), FALSE, TRUE) : Fit(b.hw)
      BY FitCommand, FitDelete, FitPrepareStart DEF FitAll
    <2> QED
      BY <1>7, <2>1, AnswerFit DEF PreviewingSendCommand
  <1>8. CASE PreviewingTakeZsl
    <2>1. \A h \in WithoutHint(hw) : \A o \in takePicture(h) : Fit(o.hw)
      BY FitModes, FitTake DEF FitAll
    <2> QED
      BY <1>8, <2>1, AnswerFit, FinishFit DEF PreviewingTakeZsl
  <1>9. CASE PreviewingTakeRestart
    <2>1. \A h \in WithoutHint(hw) :
          \A g \in updateZSLModeValue(stopPreview(h), FALSE) :
          \A o \in takePicture(g) : Fit(o.hw)
      BY FitModes, FitDelete, FitValues, FitTake DEF FitAll
    <2> QED
      BY <1>9, <2>1, AnswerFit, FinishFit DEF PreviewingTakeRestart
  <1>10. CASE PreviewingTakeRegular
    <2>1. \A h \in WithoutHint(hw) : \A o \in takePicture(h) :
             /\ Fit(o.hw)
             /\ \A b \in prepareStartOrUndo(stopPreview(o.hw), TRUE) : Fit(Err(b.hw).hw)
      BY FitModes, FitTake, FitDelete, FitPrepareStart, FitOutcome DEF FitAll
    <2> QED
      BY <1>10, <2>1, AnswerFit DEF PreviewingTakeRegular
  <1> QED
    BY <1>1, <1>2, <1>3, <1>4, <1>5, <1>6, <1>7, <1>8, <1>9, <1>10
       DEF procEvtPreviewingState

(* ... PIC_TAKING, ... *)
LEMMA PicTakingFit ==
    ASSUME Fit(hw), m_RestoreZSL \in BOOLEAN, procEvtPicTakingState
    PROVE  Fit(hw')
  <1>1. CASE PicTakingCancel
    BY <1>1, AnswerFit, FitCancel, FitOutcome DEF PicTakingCancel
  <1>2. CASE PicTakingSendCommand
    BY <1>2, AnswerFit, FitCommand DEF PicTakingSendCommand, FitAll
  <1>3. CASE PicTakingStopCaptureChannel
    <2>1. /\ Fit(stopCaptureChannel(hw).hw)
          /\ \A b \in BringUp(stopCaptureChannel(hw).hw, TRUE, FALSE) : Fit(b.hw)
      BY FitRecording, FitPrepareStart DEF FitAll
    <2> QED
      BY <1>3, <2>1, AnswerFit DEF PicTakingStopCaptureChannel
  <1>4. CASE PicTakingDone
    BY <1>4, FinishFit, FitCancel DEF PicTakingDone
  <1>5. CASE PicTakingDoneRestart
    <2>1. \A g \in updateZSLModeValue(cancelPicture(hw), m_RestoreZSL) :
          \A b \in BringUp(g, TRUE, FALSE) : Fit(b.hw)
      BY FitCancel, FitValues, FitPrepareStart DEF FitAll
    <2> QED
      BY <1>5, <2>1, FinishFit DEF PicTakingDoneRestart
  <1>6. CASE \/ PicTakingAcknowledged \/ PicTakingRefused
             \/ LongshotPreTake("PIC_TAKING") \/ LongshotTake("PIC_TAKING")
             \/ NotLongshot("PIC_TAKING")
             \/ EnableMsg("PIC_TAKING") \/ DisableMsg("PIC_TAKING")
             \/ SetParams("PIC_TAKING") \/ CommitParams("PIC_TAKING")
             \/ ForgetRestart("PIC_TAKING") \/ DaemonDied("PIC_TAKING")
             \/ \E E : Ignore("PIC_TAKING", E)
    BY <1>6, SimpleFit DEF PicTakingAcknowledged, PicTakingRefused
  <1> QED
    BY <1>1, <1>2, <1>3, <1>4, <1>5, <1>6 DEF procEvtPicTakingState

(* ... the parameters of the recording states, ... *)
LEMMA RecordingParamsFit ==
    ASSUME Fit(hw), NEW s, RecordingSetParams(s)
    PROVE  Fit(hw')
  <1>1. \A o \in updateParameters(hw, Next_cmd.arg) :
           Fit(o.hw) /\ Fit(Err([o.hw EXCEPT !.needRestart = FALSE]).hw)
    BY FitValues, FitFields, FitOutcome DEF FitAll
  <1> QED
    BY <1>1, AnswerFit DEF RecordingSetParams

(* ... RECORDING and VIDEO_PIC_TAKING, ... *)
LEMMA RecordingFit ==
    ASSUME Fit(hw), procEvtRecordingState \/ procEvtVideoPicTakingState
    PROVE  Fit(hw')
  <1>1. CASE RecordingTakePicture \/ VideoPicCancel
    BY <1>1, AnswerFit, FitOutcome DEF RecordingTakePicture, VideoPicCancel
  <1>2. CASE RecordingStop \/ RecordingStopPreview \/ VideoPicStopRecording
             \/ VideoPicStopPreview
    BY <1>2, AnswerFit, FitRecording, FitOutcome
       DEF RecordingStop, RecordingStopPreview, VideoPicStopRecording, VideoPicStopPreview
  <1>3. CASE VideoPicDone
    BY <1>3, FinishFit DEF VideoPicDone
  <1>4. CASE RecordingSendCommand \/ VideoPicSendCommand
    BY <1>4, ApplyFit, FitCommand DEF RecordingSendCommand, VideoPicSendCommand
  <1>5. CASE \E s : \/ RecordingSetParams(s) \/ CommitParams(s) \/ EnableMsg(s)
                    \/ DisableMsg(s) \/ EvtDone(s) \/ \E E : Ignore(s, E)
    BY <1>5, RecordingParamsFit, SimpleFit
  <1>6. CASE \/ RecordingAcknowledged \/ RecordingRefused
             \/ VideoPicAcknowledged \/ VideoPicRefused
    BY <1>6, SimpleFit DEF RecordingAcknowledged, RecordingRefused,
       VideoPicAcknowledged, VideoPicRefused
  <1> QED
    BY <1>1, <1>2, <1>3, <1>4, <1>5, <1>6
       DEF procEvtRecordingState, procEvtVideoPicTakingState

(* ... and PREVIEW_PIC_TAKING. *)
LEMMA PreviewPicFit ==
    ASSUME Fit(hw), procEvtPreviewPicTakingState
    PROVE  Fit(hw')
  <1>1. CASE PreviewPicParamsStop \/ PreviewPicPreStartRecording
    <2>1. FitAll({Ok(stopPreview(hw))}) /\ FitAll({}) /\ FitAll(preStartRecording(hw, TRUE))
      BY FitDelete, FitOutcome, FitModes DEF FitAll
    <2> QED
      BY <1>1, <2>1, ApplyFit DEF PreviewPicParamsStop, PreviewPicPreStartRecording
  <1>2. CASE PreviewPicParamsRestart
    <2>1. ASSUME NEW o \in BringUp(hw, TRUE, TRUE)
          PROVE  Fit([o EXCEPT !.hw.needRestart = FALSE].hw)
      <3>1. o \in BroughtUp
        BY BringUpType DEF Fit
      <3>2. Fit(o.hw)
        BY FitPrepareStart DEF FitAll
      <3> QED
        BY <3>1, <3>2, FitNeedRestart
    <2> QED
      BY <1>2, <2>1, AnswerFit DEF PreviewPicParamsRestart
  <1>3. CASE PreviewPicSendCommand \/ PreviewPicStartRecording
    BY <1>3, AnswerFit, FitCommand, FitRecording
       DEF PreviewPicSendCommand, PreviewPicStartRecording, FitAll
  <1>4. CASE PreviewPicCancel \/ PreviewPicStopPreview
    BY <1>4, AnswerFit, FitCancel, FitDelete, FitOutcome
       DEF PreviewPicCancel, PreviewPicStopPreview
  <1>5. CASE PreviewPicPrepareSnapshot
    <2>1. \A o \in MayErr({hw}) : Fit(o.hw)
      BY FitOutcome DEF MayErr
    <2> QED
      BY <1>5, <2>1, AnswerFit, FinishFit DEF PreviewPicPrepareSnapshot
  <1>6. CASE PreviewPicDone \/ \E e, a : RetroEvent(e, a)
    BY <1>6, FinishFit, FitCancel DEF PreviewPicDone, RetroEvent
  <1>7. CASE \/ PreviewPicAcknowledged \/ PreviewPicRefused \/ PreviewPicRecordRefused
             \/ LongshotPreTake("PREVIEW_PIC_TAKING") \/ LongshotTake("PREVIEW_PIC_TAKING")
             \/ NotLongshot("PREVIEW_PIC_TAKING")
             \/ EnableMsg("PREVIEW_PIC_TAKING") \/ DisableMsg("PREVIEW_PIC_TAKING")
             \/ SetParams("PREVIEW_PIC_TAKING") \/ CommitParams("PREVIEW_PIC_TAKING")
             \/ DaemonDied("PREVIEW_PIC_TAKING")
             \/ \E E : Ignore("PREVIEW_PIC_TAKING", E)
    BY <1>7, SimpleFit
       DEF PreviewPicAcknowledged, PreviewPicRefused, PreviewPicRecordRefused
  <1> QED
    BY <1>1, <1>2, <1>3, <1>4, <1>5, <1>6, <1>7 DEF procEvtPreviewPicTakingState

(* Every handler leaves a fit object. *)
LEMMA StateMachineFit ==
    ASSUME Fit(hw), m_RestoreZSL \in BOOLEAN, stateMachine
    PROVE  Fit(hw')
  <1>1. CASE procEvtPrepareSnapshotState
    BY <1>1, SimpleFit, FinishFit
       DEF procEvtPrepareSnapshotState, PrepareSnapshotRefused, PrepareSnapshotDone
  <1> QED
    BY <1>1, StoppedFit, ReadyFit, PreviewingFit, PicTakingFit, RecordingFit,
       PreviewPicFit DEF stateMachine

-----------------------------------------------------------------------------
(* Counting requests, results and waiting threads *)

(* The places of the nodes of kind e in the list s, ... *)
Nodes(s, e) == {i \in DOMAIN s : s[i].evt = e}

(* ... how many there are, ... *)
Tally(s, e) == Cardinality(Nodes(s, e))

(* ... and whether x is one. *)
Hit(x, e) == IF x.evt = e THEN 1 ELSE 0

(* A list has finitely many. *)
LEMMA TallyNat ==
    ASSUME NEW S, NEW s \in Seq(S), NEW e
    PROVE  IsFiniteSet(Nodes(s, e)) /\ Tally(s, e) \in Nat
  <1>1. Len(s) \in Nat /\ DOMAIN s = 1..Len(s)
    OBVIOUS
  <1>2. IsFiniteSet(DOMAIN s)
    BY <1>1, FS_Interval
  <1>3. Nodes(s, e) \in SUBSET DOMAIN s
    BY DEF Nodes
  <1> QED
    BY <1>2, <1>3, FS_Subset, FS_CardinalityType DEF Tally

(* The empty list has none. *)
LEMMA TallyEmpty == \A e : Tally(<<>>, e) = 0
  <1>1. \A e : Nodes(<<>>, e) = {}
    BY DEF Nodes
  <1> QED
    BY <1>1, FS_EmptySet DEF Tally

(* A list of one node. *)
LEMMA TallySingle ==
    ASSUME NEW r, NEW e
    PROVE  Tally(<<r>>, e) = Hit(r, e)
  <1>1. Nodes(<<r>>, e) = IF r.evt = e THEN {1} ELSE {}
    BY DEF Nodes
  <1> QED
    BY <1>1, FS_EmptySet, FS_Singleton DEF Tally, Hit

(* Appending a node counts it. *)
LEMMA TallyAppend ==
    ASSUME NEW S, NEW s \in Seq(S), NEW x \in S, NEW e
    PROVE  Tally(Append(s, x), e) = Tally(s, e) + Hit(x, e)
  <1> DEFINE n == Len(s) + 1
  <1>1. Len(s) \in Nat /\ DOMAIN s = 1..Len(s)
    OBVIOUS
  <1>2. /\ DOMAIN Append(s, x) = 1..n
        /\ \A i \in 1..Len(s) : Append(s, x)[i] = s[i]
        /\ Append(s, x)[n] = x
    BY <1>1, AppendProperties
  <1>3. Nodes(Append(s, x), e) = Nodes(s, e) \cup IF x.evt = e THEN {n} ELSE {}
    BY <1>1, <1>2 DEF Nodes
  <1>4. n \notin Nodes(s, e)
    BY <1>1 DEF Nodes
  <1>5. CASE x.evt = e
    BY <1>3, <1>4, <1>5, TallyNat, FS_AddElement DEF Tally, Hit
  <1>6. CASE x.evt # e
    BY <1>3, <1>6, TallyNat DEF Tally, Hit
  <1> QED
    BY <1>5, <1>6

(* A sequence without its i-th element. *)
Without(r, s, i) ==
    /\ Len(r) = Len(s) - 1
    /\ \A j \in 1..Len(r) : r[j] = IF j < i THEN s[j] ELSE s[j + 1]

(* Taking a node out, wherever it is, uncounts it and no other. *)
LEMMA TallyWithout ==
    ASSUME NEW S, NEW s \in Seq(S), NEW i \in DOMAIN s, NEW r \in Seq(S),
           Without(r, s, i), NEW e
    PROVE  Tally(s, e) = Tally(r, e) + Hit(s[i], e)
  <1> DEFINE A == Nodes(s, e) \ {i}
             B == Nodes(r, e)
             f == [j \in A |-> IF j < i THEN j ELSE j - 1]
  <1>1. /\ Len(s) \in Nat /\ DOMAIN s = 1..Len(s) /\ i \in 1..Len(s)
        /\ Len(r) = Len(s) - 1 /\ DOMAIN r = 1..Len(r)
    BY DEF Without
  <1>2. \A j \in 1..Len(r) : r[j] = IF j < i THEN s[j] ELSE s[j + 1]
    BY DEF Without
  <1>3. A \subseteq 1..Len(s) /\ B \subseteq 1..Len(r) /\ i \notin A
    BY <1>1 DEF Nodes
  <1>4. f \in [A -> B]
    <2> SUFFICES ASSUME NEW j \in A PROVE f[j] \in B
      OBVIOUS
    <2>1. j \in 1..Len(s) /\ j # i /\ s[j].evt = e
      BY <1>1 DEF Nodes
    <2>2. f[j] \in 1..Len(r) /\ r[f[j]] = s[j]
      BY <1>1, <1>2, <2>1
    <2> QED
      BY <1>1, <2>1, <2>2 DEF Nodes
  <1>5. \A a, b \in A : f[a] = f[b] => a = b
    BY <1>1, <1>3
  <1>6. \A k \in B : \E j \in A : f[j] = k
    <2> SUFFICES ASSUME NEW k \in B PROVE \E j \in A : f[j] = k
      OBVIOUS
    <2> DEFINE j == IF k < i THEN k ELSE k + 1
    <2>1. k \in 1..Len(r) /\ r[k].evt = e
      BY <1>1 DEF Nodes
    <2>2. j \in 1..Len(s) /\ j # i /\ s[j] = r[k]
      BY <1>1, <1>2, <2>1
    <2>3. j \in A
      BY <1>1, <2>1, <2>2 DEF Nodes
    <2>4. f[j] = k
      BY <1>1, <2>1, <2>3
    <2> QED
      BY <2>3, <2>4
  <1> HIDE DEF f
  <1>7. ExistsBijection(A, B)
    BY <1>4, <1>5, <1>6, Fun_IsBij, Fun_ExistsBij
  <1>8. IsFiniteSet(Nodes(s, e)) /\ Tally(s, e) \in Nat
    BY TallyNat
  <1>9. IsFiniteSet(A) /\ Cardinality(A) = Tally(s, e) - Hit(s[i], e)
    <2>1. i \in Nodes(s, e) <=> s[i].evt = e
      BY DEF Nodes
    <2> QED
      BY <1>8, <2>1, FS_RemoveElement DEF Tally, Hit
  <1>10. Cardinality(B) = Cardinality(A)
    BY <1>7, <1>9, FS_Bijection
  <1> QED
    BY <1>8, <1>9, <1>10 DEF Tally, Hit

(* The queue: the first node goes. *)
LEMMA TallyTail ==
    ASSUME NEW S, NEW s \in Seq(S), s # <<>>, NEW e
    PROVE  Tally(s, e) = Tally(Tail(s), e) + Hit(Head(s), e)
  <1>1. /\ Tail(s) \in Seq(S) /\ Len(Tail(s)) = Len(s) - 1
        /\ \A i \in 1 .. Len(Tail(s)) : Tail(s)[i] = s[i+1]
    BY HeadTailProperties
  <1>2. 1 \in DOMAIN s /\ Head(s) = s[1]
    OBVIOUS
  <1>3. Without(Tail(s), s, 1)
    BY <1>1 DEF Without
  <1>4. \A i \in DOMAIN s : \A r \in Seq(S) :
            Without(r, s, i) => Tally(s, e) = Tally(r, e) + Hit(s[i], e)
    BY TallyWithout
  <1>5. Tail(s) \in Seq(S) /\ 1 \in DOMAIN s
    BY <1>1, <1>2
  <1>6. Tally(s, e) = Tally(Tail(s), e) + Hit(s[1], e)
    BY <1>3, <1>4, <1>5, Zenon
  <1> QED
    BY <1>2, <1>6

(* The result list: the node that was found goes. *)
LEMMA TallyRemoveAt ==
    ASSUME NEW S, NEW s \in Seq(S), NEW i \in DOMAIN s, NEW e
    PROVE  Tally(s, e) = Tally(RemoveAt(s, i), e) + Hit(s[i], e)
  <1> DEFINE p == SubSeq(s, 1, i - 1)
             q == SubSeq(s, i + 1, Len(s))
  <1>1. Len(s) \in Nat /\ i \in 1..Len(s)
    OBVIOUS
  <1>2. /\ p \in Seq(S) /\ Len(p) = i - 1
        /\ \A j \in 1..(i - 1) : p[j] = s[j]
    BY <1>1, SubSeqProperties
  <1>3. /\ q \in Seq(S) /\ Len(q) = Len(s) - i
        /\ \A j \in 1..(Len(s) - i) : q[j] = s[i + j]
    BY <1>1, SubSeqProperties
  <1> HIDE DEF p, q
  <1>4. /\ p \o q \in Seq(S) /\ Len(p \o q) = Len(s) - 1
        /\ \A j \in 1..(Len(s) - 1) :
              (p \o q)[j] = IF j <= i - 1 THEN p[j] ELSE q[j - (i - 1)]
    BY <1>1, <1>2, <1>3, ConcatProperties
  <1>5. \A j \in 1..(Len(s) - 1) :
            (p \o q)[j] = IF j < i THEN s[j] ELSE s[j + 1]
    <2> SUFFICES ASSUME NEW j \in 1..(Len(s) - 1)
                 PROVE  (p \o q)[j] = IF j < i THEN s[j] ELSE s[j + 1]
      OBVIOUS
    <2>1. CASE j < i
      BY <1>1, <1>2, <1>4, <2>1
    <2>2. CASE ~ (j < i)
      <3>1. j - (i - 1) \in 1..(Len(s) - i) /\ i + (j - (i - 1)) = j + 1
        BY <1>1, <2>2
      <3>2. (p \o q)[j] = q[j - (i - 1)]
        BY <1>1, <1>4, <2>2
      <3> QED
        BY <1>3, <2>2, <3>1, <3>2
    <2> QED
      BY <2>1, <2>2
  <1>6. Without(p \o q, s, i)
    BY <1>1, <1>4, <1>5 DEF Without
  <1>7. RemoveAt(s, i) = p \o q
    BY DEF RemoveAt, p, q
  <1>8. \A r \in Seq(S) :
            Without(r, s, i) => Tally(s, e) = Tally(r, e) + Hit(s[i], e)
    BY TallyWithout
  <1>9. Tally(s, e) = Tally(p \o q, e) + Hit(s[i], e)
    BY <1>4, <1>6, <1>8, Zenon
  <1> QED
    BY <1>7, <1>9

(* What a call waits for. *)
Asks(c, e) == IF c.at \in {"wait", "woken"} /\ c.evt = e THEN 1 ELSE 0

(* The threads that wait for a result of kind e. *)
Waiters(e) == {t \in Senders : Posted(t, e)}

(* A finite set without one element. *)
LEMMA OneLess ==
    ASSUME NEW S, IsFiniteSet(S), NEW x
    PROVE  /\ Cardinality(S \ {x}) \in Nat
           /\ Cardinality(S) = Cardinality(S \ {x}) + IF x \in S THEN 1 ELSE 0
  <1>1. IsFiniteSet(S \ {x})
    BY FS_RemoveElement
  <1>2. Cardinality(S \ {x}) \in Nat /\ Cardinality(S) \in Nat
    BY <1>1, FS_CardinalityType
  <1>3. Cardinality(S \ {x}) = IF x \in S THEN Cardinality(S) - 1 ELSE Cardinality(S)
    BY FS_RemoveElement
  <1> QED
    BY <1>2, <1>3

(* One thread changes what it does. *)
LEMMA WaitersStep ==
    ASSUME IsFiniteSet(Senders), call \in [Senders -> Call], NEW t \in Senders,
           NEW c, call' = [call EXCEPT ![t] = c], NEW e
    PROVE  /\ Cardinality(Waiters(e)) \in Nat /\ Cardinality(Waiters(e)') \in Nat
           /\ Cardinality(Waiters(e)') + Asks(call[t], e)
              = Cardinality(Waiters(e)) + Asks(c, e)
  <1> DEFINE R == Waiters(e) \ {t}
             R1 == Waiters(e)' \ {t}
  <1>1. call'[t] = c /\ \A u \in Senders : u # t => call'[u] = call[u]
    OBVIOUS
  <1>2. R1 = R
    BY <1>1 DEF Waiters, Posted
  <1>3. IsFiniteSet(Waiters(e)) /\ IsFiniteSet(Waiters(e)')
    <2>1. Waiters(e) \in SUBSET Senders /\ Waiters(e)' \in SUBSET Senders
      BY DEF Waiters
    <2> QED
      BY <2>1, FS_Subset
  <1>4. /\ Asks(call[t], e) = IF t \in Waiters(e) THEN 1 ELSE 0
        /\ Asks(c, e) = IF t \in Waiters(e)' THEN 1 ELSE 0
    BY <1>1 DEF Waiters, Posted, Asks
  <1>5. /\ Cardinality(Waiters(e)) = Cardinality(R) + Asks(call[t], e)
        /\ Cardinality(R) \in Nat
    BY <1>3, <1>4, OneLess
  <1>6. Cardinality(Waiters(e)') = Cardinality(R1) + Asks(c, e)
    BY <1>3, <1>4, OneLess
  <1> HIDE DEF R, R1
  <1> QED
    BY <1>2, <1>5, <1>6 DEF Asks

-----------------------------------------------------------------------------
(* The invariant *)

(* The session: no retro pictures, no deaths, and a recording only when the
   daemon refuses nothing. *)
Plain ==
    /\ IsFiniteSet(Senders)
    /\ ~ Retro /\ ~ CanDie
    /\ MayFail => "start_recording" \notin Methods

(* The requests of such a session. *)
AskedFor == IF MayFail THEN Awaited \ {"START_RECORDING"} ELSE Awaited

(* A call of such a session. *)
Asked(c) ==
    c.at # "out" => /\ c.evt \in AskedFor
                    /\ c.method # "take_retro"
                    /\ MayFail => c.method # "start_recording"

(* A request of a method, or the post-processor's own, which nobody awaits. *)
Request == {q \in Cmd : /\ q.cmd = "API"
                        /\ \/ q.from \in Senders /\ q.evt \in AskedFor
                           \/ q.from = HAL /\ q.evt = "STOP_CAPTURE_CHANNEL"}

(* An event of such a session. *)
Event == {q \in Cmd : q.cmd = "EVT" /\ q.evt \in InternalEvt \ {"DAEMON_DIED"}}

(* The state machine has at most one result to hand over. *)
OneReply ==
    \/ replies = <<>>
    \/ \E r : /\ replies = <<r>>
              /\ r.kind = "API" \/ r.evt = "SNAPSHOT_DONE"

(* The result of an accepted PREPARE_SNAPSHOT is still to come. *)
Held(e) == IF e = "PREPARE_SNAPSHOT" /\ m_state = "PREPARE_SNAPSHOT" THEN 1 ELSE 0

(* What is under way to a caller of kind e: asked, held, or answered. *)
InHand(e) ==
    Tally(api_queue, e) + Tally(replies, e) + Tally(m_apiResultList, e) + Held(e)

(* Nothing is under way that nobody waits for. *)
Books == \A e \in Awaited : InHand(e) <= Cardinality(Waiters(e))

(* The rest of what the handlers need and leave. *)
PlainState ==
    /\ Fit(hw) /\ TakesIn
    /\ MayFail => m_state \notin RecordingState
    /\ api_queue \in Seq(Request) /\ evt_queue \in Seq(Event)
    /\ OneReply

(* The inductive invariant of the hand-over. *)
HandInv ==
    /\ HwiInv
    /\ PlainState
    /\ \A t \in Senders : Asked(call[t])
    /\ Books

(* The accounts are numbers. *)
LEMMA HandTypes ==
    ASSUME HandInv, NEW e
    PROVE  /\ Tally(api_queue, e) \in Nat /\ Tally(replies, e) \in Nat
           /\ Tally(m_apiResultList, e) \in Nat /\ Held(e) \in Nat
  BY TallyNat DEF HandInv, HwiInv, SmInv, SmTypeOK, Held

(* What a thread does adds no more than it then waits for. *)
LEMMA CallStep ==
    ASSUME Plain, HandInv, NEW t \in Senders, NEW c,
           call' = [call EXCEPT ![t] = c],
           \A e \in Awaited :
              InHand(e)' + Asks(call[t], e) <= InHand(e) + Asks(c, e),
           \A e \in Awaited : InHand(e)' \in Nat
    PROVE  Books'
  <1> SUFFICES ASSUME NEW e \in Awaited
               PROVE  InHand(e)' <= Cardinality(Waiters(e)')
    BY DEF Books
  <1>1. /\ Cardinality(Waiters(e)) \in Nat /\ Cardinality(Waiters(e)') \in Nat
        /\ Cardinality(Waiters(e)') + Asks(call[t], e)
           = Cardinality(Waiters(e)) + Asks(c, e)
    BY WaitersStep DEF Plain, HandInv, HwiInv, CallsInv
  <1>2. InHand(e) \in Nat
    BY HandTypes DEF InHand
  <1>3. InHand(e) <= Cardinality(Waiters(e))
    BY DEF HandInv, Books
  <1>4. Asks(c, e) \in {0, 1} /\ Asks(call[t], e) \in {0, 1}
    BY DEF Asks
  <1>5. InHand(e)' \in Nat /\ InHand(e)' + Asks(call[t], e) <= InHand(e) + Asks(c, e)
    OBVIOUS
  <1> HIDE DEF InHand
  <1> QED
    BY <1>1, <1>2, <1>3, <1>4, <1>5

(* A thread that does not wait, before or after, touches no account. *)
LEMMA QuietCallStep ==
    ASSUME Plain, HandInv, NEW t \in Senders, NEW c,
           call' = [call EXCEPT ![t] = c],
           \A e : Asks(call[t], e) <= Asks(c, e),
           UNCHANGED <<api_queue, replies, m_apiResultList, m_state>>
    PROVE  Books'
  <1>1. \A e : InHand(e)' = InHand(e)
    BY DEF InHand, Held
  <1>2. \A e : InHand(e) \in Nat
    BY HandTypes DEF InHand
  <1>3. \A e : Asks(c, e) \in {0, 1} /\ Asks(call[t], e) \in {0, 1}
    BY DEF Asks
  <1>4. \A e \in Awaited : InHand(e)' + Asks(call[t], e) <= InHand(e) + Asks(c, e)
    <2> SUFFICES ASSUME NEW e \in Awaited
                 PROVE  InHand(e)' + Asks(call[t], e) <= InHand(e) + Asks(c, e)
      OBVIOUS
    <2> QED
      BY <1>1, <1>2, <1>3
  <1> QED
    BY <1>1, <1>2, <1>4, CallStep

(* The calls stay calls of the session. *)
LEMMA AskedStep ==
    ASSUME \A u \in Senders : Asked(call[u]), call \in [Senders -> Call],
           NEW t \in Senders, NEW c, call' = [call EXCEPT ![t] = c], Asked(c)
    PROVE  \A u \in Senders : Asked(call[u])'
  <1> SUFFICES ASSUME NEW u \in Senders PROVE Asked(call'[u])
    BY DEF Asked
  <1> QED
    BY DEF Asked

(* Step by step: a thread enters a method, ... *)
LEMMA EnterHand ==
    ASSUME Plain, HandInv, HwiInv', NEW t \in Senders, Enter(t)
    PROVE  HandInv'
  <1>1. PICK m, e, a : /\ call' = [call EXCEPT ![t] = At(m, e, a, "next")]
                       /\ e \in AskedFor /\ m # "take_retro"
                       /\ MayFail => m # "start_recording"
    <2>1. CASE EnterSimple(t)
      <3>1. PICK m \in Methods \cap Simple : \E a \in ArgsOf(m) :
                call' = [call EXCEPT ![t] = At(m, RequestOf[m], a, "next")]
        BY <2>1 DEF EnterSimple
      <3>2. m # "take_retro" /\ m # "start_recording"
        BY DEF Simple, RequestOf
      <3>3. RequestOf[m] \in AskedFor
        BY DEF Simple, RequestOf, AskedFor, Awaited, ApiEvt
      <3> QED
        BY <3>1, <3>2, <3>3
    <2>2. CASE set_parameters(t)
      <3>1. "SET_PARAMS" \in AskedFor
        BY DEF AskedFor, Awaited, ApiEvt
      <3>2. PICK a \in Settings :
                call' = [call EXCEPT ![t] = At("set_parameters", "SET_PARAMS", a, "next")]
        BY <2>2 DEF set_parameters
      <3>3. "set_parameters" # "take_retro" /\ "set_parameters" # "start_recording"
        OBVIOUS
      <3> QED
        BY <3>1, <3>2, <3>3, Zenon
    <2>3. CASE start_recording(t)
      <3>1. "PRE_START_RECORDING" \in AskedFor
        BY DEF AskedFor, Awaited, ApiEvt
      <3> QED
        BY <2>3, <3>1 DEF start_recording, Plain
    <2>4. CASE take_picture(t)
      <3>1. {"PRE_TAKE_PICTURE", "PREPARE_SNAPSHOT"} \subseteq AskedFor
        BY DEF AskedFor, Awaited, ApiEvt
      <3>2. PICK e \in {"PRE_TAKE_PICTURE", "PREPARE_SNAPSHOT"} :
                call' = [call EXCEPT ![t] = At("take_normal", e, {}, "next")]
        BY <2>4 DEF take_picture, TakesRetro, Plain
      <3>3. e \in AskedFor /\ "take_normal" # "take_retro" /\ "take_normal" # "start_recording"
        BY <3>1
      <3> QED
        BY <3>2, <3>3, Zenon
    <2> QED
      BY <2>1, <2>2, <2>3, <2>4 DEF Enter
  <1> DEFINE c == At(m, e, a, "next")
  <1>2. call[t].at = "out" /\ UNCHANGED <<api_queue, evt_queue, m_state, msgs, m_RestoreZSL,
                                live, replies, running, m_apiResultList, owed>>
    BY DEF Enter, EnterSimple, set_parameters, start_recording, take_picture, smVars
  <1>3. Asked(c) /\ \A f : Asks(c, f) = 0
    BY <1>1 DEF Asked, At, Asks
  <1>4. \A f : Asks(call[t], f) = 0
    BY <1>2 DEF Asks
  <1>5. Books'
    <2>1. \A f : Asks(call[t], f) <= Asks(c, f)
      BY <1>3, <1>4
    <2> HIDE DEF c
    <2>2. call' = [call EXCEPT ![t] = c]
      BY <1>1 DEF c
    <2> QED
      BY <1>2, <2>1, <2>2, QuietCallStep
  <1>6. \A u \in Senders : Asked(call[u])'
    BY <1>1, <1>3, AskedStep DEF HandInv, HwiInv, CallsInv
  <1>7. Fit(hw')
    <2>1. hw' = hw \/ hw' = [hw EXCEPT !.retro = FALSE]
      BY DEF Enter, EnterSimple, set_parameters, start_recording, take_picture, smVars,
             TakesRetro, Plain
    <2>2. Fit(hw)
      BY DEF HandInv, PlainState
    <2>3. [hw EXCEPT !.retro = FALSE] \in Hardware /\ [hw EXCEPT !.retro = FALSE].ch = hw.ch
          /\ [hw EXCEPT !.retro = FALSE].retro = hw.retro
      BY <2>2 DEF Fit, Hardware
    <2> QED
      BY <2>1, <2>2, <2>3, FitSame
  <1> QED
    BY <1>2, <1>5, <1>6, <1>7 DEF HandInv, PlainState, TakesIn, OneReply

(* A request that goes out is counted in the queue. *)
LEMMA PostTally ==
    ASSUME HandInv, NEW t \in Senders, NEW f \in AskedFor, NEW a \in SUBSET Flag,
           procAPI(f, a, t)
    PROVE  /\ api_queue' \in Seq(Request)
           /\ \A e : Tally(api_queue', e) = Tally(api_queue, e) + IF f = e THEN 1 ELSE 0
  <1> DEFINE x == Node("API", f, a, t)
  <1>1. x \in Cmd
    BY NodeType DEF AskedFor, Awaited, Evt
  <1>2. x.cmd = "API" /\ x.from = t /\ x.evt = f
    BY DEF Node
  <1>3. x \in Request
    BY <1>1, <1>2 DEF Request
  <1>4. api_queue \in Seq(Request) /\ api_queue' = Append(api_queue, x)
    BY DEF HandInv, PlainState, procAPI
  <1> HIDE DEF x
  <1>5. \A e : Tally(api_queue', e) = Tally(api_queue, e) + Hit(x, e)
    BY <1>3, <1>4, TallyAppend
  <1> QED
    BY <1>2, <1>3, <1>4, <1>5, AppendProperties DEF Hit

(* A thread that takes a result takes one of the kind it waits for. *)
LEMMA AnsweredTally ==
    ASSUME HandInv, NEW t \in Senders, Answered(t), NEW e
    PROVE  /\ Tally(m_apiResultList', e) + Asks(call[t], e) = Tally(m_apiResultList, e)
           /\ Tally(m_apiResultList', e) \in Nat
  <1>1. m_apiResultList \in Seq(Reply)
    BY DEF HandInv, HwiInv
  <1>2. /\ First(t) \in DOMAIN m_apiResultList
        /\ m_apiResultList[First(t)].evt = call[t].evt
    BY <1>1, FirstType DEF Answered
  <1>3. Tally(m_apiResultList, e)
        = Tally(RemoveAt(m_apiResultList, First(t)), e) + Hit(m_apiResultList[First(t)], e)
    BY <1>1, <1>2, TallyRemoveAt
  <1>4. RemoveAt(m_apiResultList, First(t)) \in Seq(Reply)
    BY <1>1, <1>2, RemoveAtType
  <1>5. Hit(m_apiResultList[First(t)], e) = Asks(call[t], e)
    BY <1>2 DEF Answered, Hit, Asks
  <1>6. m_apiResultList' = RemoveAt(m_apiResultList, First(t))
    BY DEF Answered
  <1> QED
    BY <1>3, <1>4, <1>5, <1>6, TallyNat

(* What the steps of a thread leave of the rest. *)
LEMMA PlainRest ==
    ASSUME PlainState, Fit(hw'), api_queue' \in Seq(Request),
           UNCHANGED <<evt_queue, m_state, live, replies>>
    PROVE  PlainState'
  BY DEF PlainState, TakesIn, OneReply

(* ... posts its request and waits, ... *)
LEMMA IssueHand ==
    ASSUME Plain, HandInv, HwiInv', NEW t \in Senders, Issue(t) \/ IssuePrepare(t)
    PROVE  HandInv'
  <1> DEFINE c == [call[t] EXCEPT !.at = "wait"]
             f == call[t].evt
  <1>1. call[t] \in Call /\ Asked(call[t]) /\ call[t].at = "next"
    BY DEF HandInv, HwiInv, CallsInv, Issue, IssuePrepare
  <1>2. PICK a \in SUBSET Flag : procAPI(f, a, t)
    BY <1>1 DEF Issue, IssuePrepare, Call
  <1>3. c.at = "wait" /\ c.evt = f /\ c.method = call[t].method
    BY <1>1 DEF Call
  <1>4. f \in AskedFor
    BY <1>1 DEF Asked
  <1>5. /\ call' = [call EXCEPT ![t] = c]
        /\ UNCHANGED <<evt_queue, m_state, hw, live, replies, m_apiResultList>>
    BY DEF Issue, IssuePrepare, HandInv, HwiInv, CallsInv
  <1>6. \A e : Asks(call[t], e) = 0 /\ Asks(c, e) = IF f = e THEN 1 ELSE 0
    BY <1>1, <1>3 DEF Asks
  <1>7. Asked(c)
    BY <1>1, <1>3 DEF Asked
  <1> HIDE DEF c, f
  <1>8. /\ api_queue' \in Seq(Request)
        /\ \A e : Tally(api_queue', e) = Tally(api_queue, e) + IF f = e THEN 1 ELSE 0
    BY <1>2, <1>4, PostTally
  <1>9. Books'
    <2>1. ASSUME NEW e
          PROVE  /\ InHand(e)' + Asks(call[t], e) <= InHand(e) + Asks(c, e)
                 /\ InHand(e)' \in Nat
      <3>1. InHand(e)' = Tally(api_queue', e) + Tally(replies, e)
                         + Tally(m_apiResultList, e) + Held(e)
        BY <1>5 DEF InHand, Held
      <3> QED
        BY <1>6, <1>8, <3>1, HandTypes DEF InHand
    <2> QED
      BY <1>5, <2>1, CallStep
  <1>10. \A u \in Senders : Asked(call[u])'
    BY <1>5, <1>7, AskedStep DEF HandInv, HwiInv, CallsInv
  <1>11. PlainState'
    BY <1>5, <1>8, PlainRest DEF HandInv, PlainState
  <1> QED
    BY <1>9, <1>10, <1>11 DEF HandInv

(* ... has nothing to prepare, or waits again, ... *)
LEMMA SkipHand ==
    ASSUME Plain, HandInv, HwiInv', NEW t \in Senders, SkipPrepare(t) \/ NotYet(t)
    PROVE  HandInv'
  <1>1. call[t] \in Call /\ Asked(call[t]) /\ call[t].at # "out"
    BY DEF HandInv, HwiInv, CallsInv, SkipPrepare, NotYet
  <1>2. UNCHANGED <<smVars, m_apiResultList>>
    BY DEF SkipPrepare, NotYet
  <1>3. PICK c : /\ call' = [call EXCEPT ![t] = c] /\ Asked(c)
                 /\ \A e : Asks(call[t], e) <= Asks(c, e)
    <2>1. CASE SkipPrepare(t)
      <3> DEFINE c == [call[t] EXCEPT !.evt = "PRE_TAKE_PICTURE"]
      <3>1. \A e : Asks(call[t], e) = 0 /\ Asks(NoCall, e) = 0 /\ Asks(c, e) = 0
        BY <1>1, <2>1 DEF SkipPrepare, Asks, Call, NoCall
      <3>2. Asked(NoCall) /\ Asked(c)
        BY <1>1 DEF Asked, NoCall, Call, AskedFor, Awaited, ApiEvt
      <3>3. call' = [call EXCEPT ![t] = NoCall] \/ call' = [call EXCEPT ![t] = c]
        BY <2>1 DEF SkipPrepare
      <3>4. \A e : Asks(call[t], e) <= Asks(NoCall, e) /\ Asks(call[t], e) <= Asks(c, e)
        BY <3>1
      <3> QED
        BY <3>2, <3>3, <3>4, Zenon
    <2>2. CASE NotYet(t)
      <3> DEFINE c == [call[t] EXCEPT !.at = "wait"]
      <3>1. \A e : Asks(call[t], e) = Asks(c, e)
        BY <1>1, <2>2 DEF NotYet, Asks, Call
      <3>2. Asked(c)
        BY <1>1 DEF Asked, Call
      <3>3. call' = [call EXCEPT ![t] = c]
        BY <2>2 DEF NotYet, HandInv, HwiInv, CallsInv
      <3>4. \A e : Asks(call[t], e) <= Asks(c, e)
        BY <3>1 DEF Asks
      <3> QED
        BY <3>2, <3>3, <3>4, Zenon
    <2> QED
      BY <2>1, <2>2
  <1>4. Books'
    BY <1>2, <1>3, QuietCallStep DEF smVars
  <1>5. \A u \in Senders : Asked(call[u])'
    BY <1>3, AskedStep DEF HandInv, HwiInv, CallsInv
  <1>6. PlainState'
    BY <1>2, PlainRest DEF HandInv, PlainState, smVars
  <1> QED
    BY <1>4, <1>5, <1>6 DEF HandInv

(* A result is taken and the thread goes on, or leaves, without a request. *)
LEMMA ReturnHand ==
    ASSUME Plain, HandInv, HwiInv', NEW t \in Senders, Answered(t), Fit(hw'),
           UNCHANGED <<api_queue, evt_queue, m_state, live, replies>>,
           \/ Leave(t)
           \/ \E f \in {"START_RECORDING", "TAKE_PICTURE", "PREPARE_SNAPSHOT",
                        "PRE_TAKE_PICTURE"} :
                 Then(t, f) /\ (f = "START_RECORDING" => call[t].method = "start_recording")
    PROVE  HandInv'
  <1>1. call[t] \in Call /\ Asked(call[t]) /\ call[t].at = "woken"
    BY DEF HandInv, HwiInv, CallsInv, Answered
  <1>2. PICK c : call' = [call EXCEPT ![t] = c] /\ Asked(c) /\ c.at \in {"out", "next"}
    <2>1. CASE Leave(t)
      <3>1. NoCall.at = "out"
        BY DEF NoCall
      <3> QED
        BY <2>1, <3>1 DEF Leave, Asked
    <2>2. ASSUME NEW f \in {"START_RECORDING", "TAKE_PICTURE", "PREPARE_SNAPSHOT",
                            "PRE_TAKE_PICTURE"},
                 Then(t, f), f = "START_RECORDING" => call[t].method = "start_recording"
          PROVE  \E c : call' = [call EXCEPT ![t] = c] /\ Asked(c) /\ c.at \in {"out", "next"}
      <3> DEFINE c == [call[t] EXCEPT !.evt = f, !.arg = {}, !.at = "next"]
      <3>1. c.at = "next" /\ c.evt = f /\ c.method = call[t].method
        BY <1>1 DEF Call
      <3>2. f \in AskedFor
        BY <1>1, <2>2 DEF Asked, AskedFor, Awaited, ApiEvt
      <3>3. Asked(c)
        BY <1>1, <3>1, <3>2 DEF Asked
      <3>4. call' = [call EXCEPT ![t] = c]
        BY <2>2 DEF Then, HandInv, HwiInv, CallsInv
      <3> HIDE DEF c
      <3> QED
        BY <3>1, <3>3, <3>4
    <2> QED
      BY <2>1, <2>2
  <1>3. \A e : Asks(c, e) = 0
    BY <1>2 DEF Asks
  <1>4. Books'
    <2>1. ASSUME NEW e
          PROVE  /\ InHand(e)' + Asks(call[t], e) <= InHand(e) + Asks(c, e)
                 /\ InHand(e)' \in Nat
      <3>1. InHand(e)' = Tally(api_queue, e) + Tally(replies, e)
                         + Tally(m_apiResultList', e) + Held(e)
        BY DEF InHand, Held
      <3>2. /\ Tally(m_apiResultList', e) + Asks(call[t], e) = Tally(m_apiResultList, e)
            /\ Tally(m_apiResultList', e) \in Nat
        BY AnsweredTally
      <3>3. Asks(call[t], e) \in {0, 1}
        BY DEF Asks
      <3> QED
        BY <1>3, <3>1, <3>2, <3>3, HandTypes DEF InHand
    <2> QED
      BY <1>2, <2>1, CallStep
  <1>5. \A u \in Senders : Asked(call[u])'
    BY <1>2, AskedStep DEF HandInv, HwiInv, CallsInv
  <1>6. PlainState'
    BY PlainRest DEF HandInv, PlainState
  <1> QED
    BY <1>4, <1>5, <1>6 DEF HandInv

(* ... or takes a result and posts the next request at once. *)
LEMMA ContinueHand ==
    ASSUME Plain, HandInv, HwiInv', NEW t \in Senders, ContinueParams(t)
    PROVE  HandInv'
  <1> DEFINE f == AfterParams(call[t].evt)
             c == [call[t] EXCEPT !.evt = f, !.at = "wait"]
  <1>1. call[t] \in Call /\ Asked(call[t]) /\ call[t].at = "woken" /\ Answered(t)
    BY DEF HandInv, HwiInv, CallsInv, ContinueParams, Answered
  <1>2. f \in {"SET_PARAMS_STOP", "SET_PARAMS_COMMIT", "SET_PARAMS_RESTART"}
    BY DEF ContinueParams, AfterParams
  <1>3. f \in AskedFor
    BY <1>2 DEF AskedFor, Awaited, ApiEvt
  <1>4. /\ procAPI(f, {}, t) /\ call' = [call EXCEPT ![t] = c]
        /\ UNCHANGED <<evt_queue, m_state, hw, live, replies>>
    BY DEF ContinueParams, Post, HandInv, HwiInv, CallsInv
  <1>5. c.at = "wait" /\ c.evt = f /\ c.method = call[t].method
    BY <1>1 DEF Call
  <1>6. Asked(c)
    BY <1>1, <1>3, <1>5 DEF Asked
  <1>7. \A e : Asks(c, e) = IF f = e THEN 1 ELSE 0
    BY <1>5 DEF Asks
  <1> HIDE DEF c, f
  <1>8. /\ api_queue' \in Seq(Request)
        /\ \A e : Tally(api_queue', e) = Tally(api_queue, e) + IF f = e THEN 1 ELSE 0
    <2>1. {} \in SUBSET Flag
      OBVIOUS
    <2> QED
      BY <1>3, <1>4, <2>1, PostTally
  <1>9. Books'
    <2>1. ASSUME NEW e
          PROVE  /\ InHand(e)' + Asks(call[t], e) <= InHand(e) + Asks(c, e)
                 /\ InHand(e)' \in Nat
      <3>1. InHand(e)' = Tally(api_queue', e) + Tally(replies, e)
                         + Tally(m_apiResultList', e) + Held(e)
        BY <1>4 DEF InHand, Held
      <3>2. /\ Tally(m_apiResultList', e) + Asks(call[t], e) = Tally(m_apiResultList, e)
            /\ Tally(m_apiResultList', e) \in Nat
        BY <1>1, AnsweredTally
      <3>3. Asks(call[t], e) \in {0, 1}
        BY DEF Asks
      <3> QED
        BY <1>7, <1>8, <3>1, <3>2, <3>3, HandTypes DEF InHand
    <2> QED
      BY <1>4, <2>1, CallStep
  <1>10. \A u \in Senders : Asked(call[u])'
    BY <1>4, <1>6, AskedStep DEF HandInv, HwiInv, CallsInv
  <1>11. PlainState'
    BY <1>4, <1>8, PlainRest DEF HandInv, PlainState
  <1> QED
    BY <1>9, <1>10, <1>11 DEF HandInv

(* Every step of a thread inside the HAL. *)
LEMMA ProceedHand ==
    ASSUME Plain, HandInv, HwiInv', NEW t \in Senders, Proceed(t)
    PROVE  HandInv'
  <1>1. Fit(hw)
    BY DEF HandInv, PlainState
  <1>2. CASE ReturnSimple(t) \/ ReturnParams(t)
    BY <1>1, <1>2, ReturnHand DEF ReturnSimple, ReturnParams, smVars
  <1>3. CASE AfterRecording(t) \/ AfterPreTake(t)
    <2>1. /\ Answered(t) /\ UNCHANGED smVars
          /\ \/ Leave(t)
             \/ Then(t, "START_RECORDING") /\ call[t].method = "start_recording"
             \/ Then(t, "TAKE_PICTURE")
      BY <1>3 DEF AfterRecording, AfterPreTake
    <2> QED
      BY <1>1, <2>1, ReturnHand DEF smVars
  <1>4. CASE AfterTake(t) \/ AfterPrepare(t)
    <2>1. /\ Answered(t)
          /\ UNCHANGED <<api_queue, evt_queue, m_state, live, replies>>
          /\ Leave(t) \/ Then(t, "PREPARE_SNAPSHOT") \/ Then(t, "PRE_TAKE_PICTURE")
      BY <1>4 DEF AfterTake, AfterPrepare
    <2>2. hw' \in Hardware
      BY DEF HwiInv, SmInv, SmTypeOK
    <2>3. hw' = hw \/ \E b : hw' = [hw EXCEPT !.prepSnapRun = b]
      BY <1>4 DEF AfterTake, AfterPrepare
    <2>4. hw'.ch = hw.ch /\ hw'.retro = hw.retro
      BY <1>1, <2>3 DEF Fit, Hardware
    <2>5. Fit(hw')
      BY <1>1, <2>2, <2>4, FitSame
    <2> QED
      BY <2>1, <2>5, ReturnHand
  <1> QED
    BY <1>2, <1>3, <1>4, IssueHand, SkipHand, ContinueHand DEF Proceed

(* Nobody but a thread changes what the threads do, except by waking them. *)
LEMMA WaitersSame ==
    ASSUME \A t \in Senders : call'[t].evt = call[t].evt
                              /\ (call'[t].at \in {"wait", "woken"}
                                  <=> call[t].at \in {"wait", "woken"}),
           NEW e
    PROVE  Waiters(e)' = Waiters(e)
  BY DEF Waiters, Posted

(* The node that is served leaves its queue. *)
LEMMA ServedTally ==
    ASSUME HandInv, Serves
    PROVE  /\ Next_cmd \in Request \cup Event
           /\ api_queue' \in Seq(Request) /\ evt_queue' \in Seq(Event)
           /\ \A e \in Awaited :
                 Tally(api_queue, e) = Tally(api_queue', e) + Hit(Next_cmd, e)
  <1> DEFINE x == Node("EVT", "SNAPSHOT_DONE", {}, HAL)
  <1>1. api_queue \in Seq(Request) /\ evt_queue \in Seq(Event)
    BY DEF HandInv, PlainState
  <1>2. <<>> \in Seq(Event) /\ <<x>> \in Seq(Event)
    <2>1. x \in Cmd
      BY NodeType DEF Evt, ApiEvt
    <2>2. x.cmd = "EVT" /\ x.evt = "SNAPSHOT_DONE"
      BY DEF Node
    <2>3. x \in Event
      BY <2>1, <2>2 DEF Event, InternalEvt
    <2> QED
      BY <2>3
  <1> HIDE DEF x
  <1>3. PICK raised \in {<<>>, <<x>>} :
          \/ /\ api_queue # <<>> /\ api_queue' = Tail(api_queue)
             /\ evt_queue' = evt_queue \o raised
          \/ /\ api_queue = <<>> /\ UNCHANGED api_queue
             /\ evt_queue' = Tail(evt_queue) \o raised
    BY Zenon DEF Serves, x
  <1>4. raised \in Seq(Event)
    BY <1>2
  <1>5. CASE api_queue # <<>>
    <2>1. Next_cmd = Head(api_queue) /\ Head(api_queue) \in Request
          /\ Tail(api_queue) \in Seq(Request)
      BY <1>1, <1>5, HeadTailProperties DEF Next_cmd
    <2>2. api_queue' = Tail(api_queue) /\ evt_queue' = evt_queue \o raised
      BY <1>3, <1>5
    <2>3. evt_queue' \in Seq(Event)
      BY <1>1, <1>4, <2>2, ConcatProperties
    <2>4. \A e \in Awaited :
              Tally(api_queue, e) = Tally(Tail(api_queue), e) + Hit(Head(api_queue), e)
      BY <1>1, <1>5, TallyTail
    <2> QED
      BY <2>1, <2>2, <2>3, <2>4
  <1>6. CASE api_queue = <<>>
    <2>1. evt_queue # <<>>
      BY <1>6 DEF Serves
    <2>2. Next_cmd = Head(evt_queue) /\ Head(evt_queue) \in Event
          /\ Tail(evt_queue) \in Seq(Event)
      BY <1>1, <1>6, <2>1, HeadTailProperties DEF Next_cmd
    <2>3. api_queue' = api_queue /\ evt_queue' = Tail(evt_queue) \o raised
      BY <1>3, <1>6
    <2>4. evt_queue' \in Seq(Event)
      BY <1>4, <2>2, <2>3, ConcatProperties
    <2>5. Next_cmd.evt \in InternalEvt
      BY <2>2 DEF Event
    <2>6. \A e \in Awaited : Hit(Next_cmd, e) = 0
      BY <2>5 DEF Hit, Awaited, ApiEvt, InternalEvt
    <2>7. \A e : Tally(api_queue, e) \in Nat
      BY <1>1, TallyNat
    <2>8. \A e \in Awaited :
              Tally(api_queue, e) = Tally(api_queue', e) + Hit(Next_cmd, e)
      BY <2>3, <2>6, <2>7
    <2> QED
      BY <1>1, <2>2, <2>3, <2>4, <2>8
  <1> QED
    BY <1>5, <1>6

(* The state machine hands over what it was given, once. *)
LEMMA HandlerBooks ==
    ASSUME Plain, HandInv, Gives, Serves, UNCHANGED <<call, m_apiResultList>>
    PROVE  Books'
  <1> SUFFICES ASSUME NEW e \in Awaited
               PROVE  InHand(e)' <= Cardinality(Waiters(e)')
    BY DEF Books
  <1>1. Waiters(e)' = Waiters(e)
    BY WaitersSame
  <1>2. InHand(e) <= Cardinality(Waiters(e))
    BY DEF HandInv, Books
  <1>3. Tally(api_queue, e) = Tally(api_queue', e) + Hit(Next_cmd, e)
    BY ServedTally
  <1>4. Tally(api_queue', e) \in Nat
    BY ServedTally, TallyNat
  <1>5. Tally(replies, e) = 0
    BY TallyEmpty DEF Serves
  <1>6. Tally(replies', e) + Held(e)' <= Hit(Next_cmd, e) + Held(e)
        /\ Tally(replies', e) \in Nat
    <2>1. CASE replies' = <<>> /\ (Enters => Next_cmd.evt = "PREPARE_SNAPSHOT")
      <3>1. Tally(replies', e) = 0
        BY <2>1, TallyEmpty
      <3>2. Held(e)' <= Hit(Next_cmd, e) + Held(e)
        BY <2>1 DEF Held, Hit, Enters
      <3> QED
        BY <3>1, <3>2 DEF Held, Hit
    <2>2. CASE OneResult /\ ~ Enters
      <3>1. PICK r : /\ replies' = <<r>>
                     /\ \/ r.kind = "EVT" /\ r.evt = "SNAPSHOT_DONE"
                        \/ r.kind = "API" /\ r.evt = Next_cmd.evt
        BY <2>2 DEF OneResult
      <3>2. Tally(replies', e) = Hit(r, e)
        BY <3>1, TallySingle
      <3>3. e # "SNAPSHOT_DONE"
        BY DEF Awaited
      <3>4. Hit(r, e) <= Hit(Next_cmd, e) /\ Hit(r, e) \in Nat
        BY <3>1, <3>3 DEF Hit
      <3>5. Held(e)' <= Held(e)
        BY <2>2 DEF Held, Enters
      <3> QED
        BY <3>2, <3>4, <3>5 DEF Held, Hit
    <2>3. CASE /\ m_state = "PREPARE_SNAPSHOT" /\ m_state' # "PREPARE_SNAPSHOT"
               /\ \E r : replies' = <<r>> /\ r.kind = "API" /\ r.evt = "PREPARE_SNAPSHOT"
      <3>1. PICK r : replies' = <<r>> /\ r.evt = "PREPARE_SNAPSHOT"
        BY <2>3
      <3>2. Tally(replies', e) = Hit(r, e)
        BY <3>1, TallySingle
      <3>3. Hit(r, e) + Held(e)' = Held(e) /\ Hit(r, e) \in Nat
        BY <2>3, <3>1 DEF Hit, Held
      <3> QED
        BY <3>2, <3>3 DEF Held, Hit
    <2> QED
      BY <2>1, <2>2, <2>3 DEF Gives
  <1>7. Tally(m_apiResultList', e) = Tally(m_apiResultList, e)
        /\ Tally(m_apiResultList, e) \in Nat /\ Cardinality(Waiters(e)) = Cardinality(Waiters(e)')
    BY <1>1, HandTypes
  <1>8. InHand(e)' <= InHand(e)
    BY <1>3, <1>4, <1>5, <1>6, <1>7 DEF InHand, Held, Hit
  <1>9. InHand(e)' \in Nat /\ InHand(e) \in Nat
    BY <1>4, <1>6, <1>7, HandTypes DEF InHand, Held
  <1> HIDE DEF InHand
  <1>10. Cardinality(Waiters(e)) \in Nat
    <2>1. Waiters(e) \in SUBSET Senders
      BY DEF Waiters
    <2> QED
      BY <2>1, FS_Subset, FS_CardinalityType DEF Plain
  <1> QED
    BY <1>2, <1>7, <1>8, <1>9, <1>10

(* The state machine thread serves a command. *)
LEMMA CommandHand ==
    ASSUME Plain, HandInv, HwiInv', HandleCommand
    PROVE  HandInv'
  <1>1. /\ Fit(hw) /\ TakesIn /\ api_queue \in Seq(Request) /\ evt_queue \in Seq(Event)
        /\ m_RestoreZSL \in BOOLEAN
    BY DEF HandInv, PlainState, HwiInv, SmInv, SmTypeOK
  <1>2. ~ Exit
    <2>1. api_queue # <<>> => Head(api_queue) \in Request
      BY <1>1, HeadTailProperties
    <2> QED
      BY <2>1 DEF Exit, Request
  <1>3. stateMachine
    BY <1>2 DEF HandleCommand, smEvtProcRoutine
  <1>4. api_queue # <<>> \/ evt_queue # <<>> => Next_cmd \in Request \cup Event
    <2>1. api_queue # <<>> => Head(api_queue) \in Request
      BY <1>1, HeadTailProperties
    <2>2. evt_queue # <<>> => Head(evt_queue) \in Event
      BY <1>1, HeadTailProperties
    <2> QED
      BY <2>1, <2>2 DEF Next_cmd
  <1>5. Alive
    BY <1>4 DEF Alive, Request, Event, AskedFor, Awaited, ApiEvt, InternalEvt
  <1>6. Handles
    BY <1>1, <1>3, <1>5, StateMachineHandles DEF Fit
  <1>7. MayFail => Next_cmd.evt # "START_RECORDING"
    <2>1. Next_cmd \in Request \cup Event
      BY <1>4, <1>6 DEF Handles, Serves
    <2> QED
      BY <2>1 DEF Request, Event, AskedFor, Awaited, InternalEvt
  <1>8. Fit(hw')
    BY <1>1, <1>3, StateMachineFit
  <1>9. UNCHANGED <<call, m_apiResultList>>
    BY DEF HandleCommand
  <1>10. Books'
    BY <1>6, <1>9, HandlerBooks DEF Handles
  <1>11. api_queue' \in Seq(Request) /\ evt_queue' \in Seq(Event)
    BY <1>6, ServedTally DEF Handles
  <1>12. MayFail => m_state' \notin RecordingState
    BY <1>6, <1>7 DEF Handles, Records, HandInv, PlainState
  <1>13. OneReply'
    BY <1>6 DEF Handles, Gives, OneResult, OneReply
  <1>14. TakesIn'
    BY <1>6 DEF Handles
  <1>15. \A u \in Senders : Asked(call[u])'
    BY <1>9 DEF HandInv, Asked
  <1> QED
    BY <1>8, <1>10, <1>11, <1>12, <1>13, <1>14, <1>15 DEF HandInv, PlainState

(* Steps that only change the object, within bounds, or raise an event. *)
LEMMA BooksSame ==
    ASSUME HandInv, UNCHANGED <<call, m_apiResultList, replies, m_state>>,
           \A e \in Awaited : Tally(api_queue', e) = Tally(api_queue, e)
    PROVE  Books'
  <1> SUFFICES ASSUME NEW e \in Awaited
               PROVE  InHand(e)' <= Cardinality(Waiters(e)')
    BY DEF Books
  <1>1. InHand(e)' = InHand(e)
    BY DEF InHand, Held
  <1>2. Waiters(e)' = Waiters(e)
    BY WaitersSame
  <1> QED
    BY <1>1, <1>2 DEF HandInv, Books

(* The live snapshot thread: it never fails in such a session. *)
LEMMA LiveHand ==
    ASSUME Plain, HandInv, HwiInv', LiveThread
    PROVE  HandInv'
  <1>1. /\ Fit(hw) /\ hw \in Hardware /\ RecordingHasVideo
        /\ live = "take" => m_state = "VIDEO_PIC_TAKING"
        /\ MayFail => m_state \notin RecordingState
    BY DEF HandInv, PlainState, HwiInv, SmInv, SmTypeOK, TakesIn
  <1>2. live # "take" \/ (~ MayFail /\ hw.ch["SNAPSHOT"] # "null")
    BY <1>1 DEF RecordingHasVideo, isRecording, RecordingState, Fit
  <1>3. ~ LiveTakeFails /\ ~ LiveTakeAbandoned
    <2>1. (~ MayFail) => MayErr({hw}) = {}
      BY DEF MayErr
    <2> QED
      BY <1>2, <2>1 DEF LiveTakeFails, LiveTakeAbandoned
  <1>4. LiveTakeStarts \/ LiveCancel
    BY <1>3 DEF LiveThread, Live_Snapshot_thread
  <1>5. Fit(hw')
    <2>1. hw' \in Hardware
      BY DEF HwiInv, SmInv, SmTypeOK
    <2>2. CASE LiveTakeStarts
      <3>1. PICK o \in startChannel(hw, "SNAPSHOT") : hw' = [o.hw EXCEPT !.postproc = TRUE]
        BY <2>2 DEF LiveTakeStarts
      <3>2. Fit(o.hw)
        BY <1>1, FitStart DEF FitAll, Channel
      <3>3. hw'.ch = o.hw.ch /\ hw'.retro = o.hw.retro
        BY <3>1, <3>2 DEF Fit, Hardware
      <3> QED
        BY <2>1, <3>2, <3>3, FitSame
    <2>3. CASE LiveCancel
      <3> DEFINE g == stopChannel(hw, "SNAPSHOT").hw
      <3>1. Fit(g) /\ hw' = [g EXCEPT !.postproc = FALSE]
        BY <1>1, <2>3, FitStop DEF LiveCancel, Channel
      <3> HIDE DEF g
      <3>2. hw'.ch = g.ch /\ hw'.retro = g.retro
        BY <3>1 DEF Fit, Hardware
      <3> QED
        BY <2>1, <3>1, <3>2, FitSame
    <2> QED
      BY <1>4, <2>2, <2>3
  <1>6. /\ UNCHANGED <<api_queue, evt_queue, m_state, replies, call, m_apiResultList>>
        /\ live' = "none"
    BY <1>4 DEF LiveTakeStarts, LiveCancel, LiveThread
  <1>7. Books'
    BY <1>6, BooksSame
  <1> QED
    BY <1>5, <1>6, <1>7 DEF HandInv, PlainState, TakesIn, OneReply, Asked

(* A result moves to the list and wakes who waits. *)
LEMMA SignalHand ==
    ASSUME Plain, HandInv, HwiInv', signalAPIResult \/ signalEvtResult
    PROVE  HandInv'
  <1>1. PICK r : replies = <<r>> /\ (r.kind = "API" \/ r.evt = "SNAPSHOT_DONE")
    BY DEF HandInv, PlainState, OneReply, signalAPIResult, signalEvtResult
  <1>2. Head(replies) = r /\ Tail(replies) = <<>>
    BY <1>1
  <1>3. replies' = <<>> /\ UNCHANGED <<api_queue, evt_queue, m_state, hw, live>>
    BY <1>2 DEF signalAPIResult, signalEvtResult
  <1>4. \A t \in Senders : /\ call'[t].evt = call[t].evt
                           /\ call'[t].method = call[t].method
                           /\ (call'[t].at = "out" <=> call[t].at = "out")
                           /\ (call'[t].at \in {"wait", "woken"}
                                  <=> call[t].at \in {"wait", "woken"})
    <2>1. CASE signalAPIResult
      <3> SUFFICES ASSUME NEW t \in Senders
                   PROVE  /\ call'[t].evt = call[t].evt
                          /\ call'[t].method = call[t].method
                          /\ (call'[t].at = "out" <=> call[t].at = "out")
                          /\ (call'[t].at \in {"wait", "woken"}
                                  <=> call[t].at \in {"wait", "woken"})
        OBVIOUS
      <3>1. call[t] \in Call
        BY DEF HandInv, HwiInv, CallsInv
      <3>2. call'[t] = IF call[t].at = "wait" THEN [call[t] EXCEPT !.at = "woken"]
                       ELSE call[t]
        BY <2>1 DEF signalAPIResult
      <3> QED
        BY <3>1, <3>2 DEF Call
    <2>2. CASE signalEvtResult
      BY <2>2 DEF signalEvtResult
    <2> QED
      BY <2>1, <2>2
  <1>5. \A e \in Awaited : Tally(m_apiResultList', e) = Tally(m_apiResultList, e) + Hit(r, e)
                           /\ Tally(m_apiResultList, e) \in Nat
    <2> SUFFICES ASSUME NEW e \in Awaited
                 PROVE  /\ Tally(m_apiResultList', e) = Tally(m_apiResultList, e) + Hit(r, e)
                        /\ Tally(m_apiResultList, e) \in Nat
      OBVIOUS
    <2>1. m_apiResultList \in Seq(Reply) /\ replies \in Seq(Reply)
      BY DEF HandInv, HwiInv, SmInv, SmTypeOK
    <2>2. r \in Reply
      BY <1>1, <2>1
    <2>3. Tally(m_apiResultList, e) \in Nat
      BY <2>1, TallyNat
    <2>4. CASE signalAPIResult /\ r.evt \in Awaited
      <3>1. m_apiResultList' = Append(m_apiResultList, r)
        BY <1>2, <2>4 DEF signalAPIResult
      <3> QED
        BY <2>1, <2>2, <2>3, <3>1, TallyAppend
    <2>5. CASE signalAPIResult /\ r.evt \notin Awaited
      <3>1. m_apiResultList' = m_apiResultList
        BY <1>2, <2>5 DEF signalAPIResult
      <3> QED
        BY <2>3, <2>5, <3>1 DEF Hit
    <2>6. CASE signalEvtResult
      <3>1. r.kind = "EVT" /\ m_apiResultList' = m_apiResultList
        BY <1>2, <2>6 DEF signalEvtResult
      <3>2. r.evt = "SNAPSHOT_DONE"
        BY <1>1, <3>1
      <3> QED
        BY <2>3, <3>1, <3>2 DEF Hit, Awaited
    <2> QED
      BY <2>4, <2>5, <2>6
  <1>6. Books'
    <2> SUFFICES ASSUME NEW e \in Awaited
                 PROVE  InHand(e)' <= Cardinality(Waiters(e)')
      BY DEF Books
    <2>1. Tally(replies, e) = Hit(r, e) /\ Tally(replies', e) = 0
      BY <1>1, <1>3, TallySingle, TallyEmpty
    <2>2. InHand(e)' = InHand(e)
      <3>1. InHand(e)' = Tally(api_queue, e) + 0 + (Tally(m_apiResultList, e) + Hit(r, e))
                         + Held(e)
        BY <1>3, <1>5, <2>1 DEF InHand, Held
      <3> QED
        BY <1>5, <2>1, <3>1, HandTypes DEF InHand
    <2>3. Waiters(e)' = Waiters(e)
      BY <1>4, WaitersSame
    <2> QED
      BY <2>2, <2>3 DEF HandInv, Books
  <1>7. \A u \in Senders : Asked(call[u])'
    BY <1>4 DEF HandInv, Asked
  <1> QED
    BY <1>3, <1>6, <1>7 DEF HandInv, PlainState, TakesIn, OneReply

(* Events, and the request nobody waits for. *)
LEMMA DaemonHand ==
    ASSUME Plain, HandInv, HwiInv', Daemon
    PROVE  HandInv'
  <1>1. /\ UNCHANGED <<m_state, hw, live, replies, call, m_apiResultList>>
        /\ \/ UNCHANGED api_queue /\ UNCHANGED evt_queue
           \/ UNCHANGED api_queue /\ \E f \in {"PREP_SNAPSHOT_DONE", "READY_FOR_SNAPSHOT",
                                               "SNAPSHOT_DONE"} : procEvt(f)
           \/ UNCHANGED evt_queue /\ procAPI("STOP_CAPTURE_CHANNEL", {}, HAL)
    BY DEF Daemon, DaemonEvent, LastJpeg, stopCapture, DaemonDies, Plain
  <1>2. api_queue \in Seq(Request) /\ evt_queue \in Seq(Event)
    BY DEF HandInv, PlainState
  <1>3. evt_queue' \in Seq(Event)
    <2>1. ASSUME NEW f \in {"PREP_SNAPSHOT_DONE", "READY_FOR_SNAPSHOT", "SNAPSHOT_DONE"},
                 procEvt(f)
          PROVE  evt_queue' \in Seq(Event)
      <3> DEFINE x == Node("EVT", f, {}, HAL)
      <3>1. x \in Cmd
        BY NodeType DEF Evt, InternalEvt
      <3>2. x.cmd = "EVT" /\ x.evt = f
        BY DEF Node
      <3>3. x \in Event
        BY <3>1, <3>2 DEF Event, InternalEvt
      <3>4. evt_queue' = Append(evt_queue, x)
        BY <2>1 DEF procEvt
      <3> HIDE DEF x
      <3> QED
        BY <1>2, <3>3, <3>4, AppendProperties
    <2> QED
      BY <1>1, <1>2, <2>1
  <1>4. /\ api_queue' \in Seq(Request)
        /\ \A e \in Awaited : Tally(api_queue', e) = Tally(api_queue, e)
    <2>1. CASE procAPI("STOP_CAPTURE_CHANNEL", {}, HAL)
      <3> DEFINE x == Node("API", "STOP_CAPTURE_CHANNEL", {}, HAL)
      <3>1. x \in Cmd
        BY NodeType DEF Evt, ApiEvt
      <3>2. x.cmd = "API" /\ x.evt = "STOP_CAPTURE_CHANNEL" /\ x.from = HAL
        BY DEF Node
      <3>3. x \in Request /\ \A e \in Awaited : Hit(x, e) = 0
        BY <3>1, <3>2 DEF Request, Hit, Awaited
      <3>4. api_queue' = Append(api_queue, x)
        BY <2>1 DEF procAPI
      <3> HIDE DEF x
      <3>5. \A e : Tally(api_queue', e) = Tally(api_queue, e) + Hit(x, e)
                  /\ Tally(api_queue, e) \in Nat
        BY <1>2, <3>3, <3>4, TallyAppend, TallyNat
      <3> QED
        BY <1>2, <3>3, <3>4, <3>5, AppendProperties
    <2>2. CASE UNCHANGED api_queue
      BY <1>2, <2>2
    <2> QED
      BY <1>1, <2>1, <2>2
  <1>5. Books'
    BY <1>1, <1>4, BooksSame
  <1> QED
    BY <1>1, <1>3, <1>4, <1>5 DEF HandInv, PlainState, TakesIn, OneReply, Asked

(* Every step of the system. *)
LEMMA HandNext ==
    ASSUME Plain, HandInv, [Next]_vars
    PROVE  HandInv'
  <1>1. HwiInv'
    BY NextStep DEF HandInv
  <1>2. CASE \E t \in Senders : Enter(t) \/ Proceed(t)
    BY <1>1, <1>2, EnterHand, ProceedHand
  <1>3. CASE HandleCommand \/ LiveThread \/ signalAPIResult \/ signalEvtResult \/ Daemon
    BY <1>1, <1>3, CommandHand, LiveHand, SignalHand, DaemonHand
  <1>4. CASE UNCHANGED vars
    <2>1. UNCHANGED <<api_queue, evt_queue, m_state, hw, live, replies, call, m_apiResultList>>
      BY <1>4 DEF vars, hwiVars, smVars
    <2>2. Books'
      BY <2>1, BooksSame
    <2> QED
      BY <1>1, <2>1, <2>2 DEF HandInv, PlainState, TakesIn, OneReply, Asked
  <1> QED
    BY <1>2, <1>3, <1>4 DEF Next

(* The start: nothing is under way. *)
LEMMA HandInit ==
    ASSUME Plain, Init
    PROVE  HandInv
  <1>1. HwiInv
    BY InitStep
  <1>2. PlainState
    <2>1. hw \in Hardware
      BY <1>1 DEF HwiInv, SmInv, SmTypeOK
    <2>2. ~ hw.retro /\ hw.ch["VIDEO"] = "null"
      BY DEF Init, SmInit, InitHardware, Channel
    <2>3. Fit(hw)
      BY <2>1, <2>2 DEF Fit
    <2>4. /\ live = "none" /\ m_state = "PREVIEW_STOPPED"
          /\ api_queue = <<>> /\ evt_queue = <<>> /\ replies = <<>>
      BY DEF Init, SmInit
    <2>5. <<>> \in Seq(Request) /\ <<>> \in Seq(Event)
      OBVIOUS
    <2> QED
      BY <2>3, <2>4, <2>5 DEF PlainState, TakesIn, OneReply, RecordingState
  <1>3. \A t \in Senders : Asked(call[t])
    BY DEF Init, NoCall, Asked
  <1>4. Books
    <2> SUFFICES ASSUME NEW e \in Awaited PROVE InHand(e) <= Cardinality(Waiters(e))
      BY DEF Books
    <2>1. InHand(e) = 0
      <3>1. Tally(api_queue, e) = 0 /\ Tally(replies, e) = 0 /\ Tally(m_apiResultList, e) = 0
        BY TallyEmpty DEF Init, SmInit
      <3>2. Held(e) = 0
        BY DEF Init, SmInit, Held
      <3> QED
        BY <3>1, <3>2 DEF InHand
    <2>2. Cardinality(Waiters(e)) \in Nat
      <3>1. Waiters(e) \in SUBSET Senders
        BY DEF Waiters
      <3> QED
        BY <3>1, FS_Subset, FS_CardinalityType DEF Plain
    <2> QED
      BY <2>1, <2>2
  <1> QED
    BY <1>1, <1>2, <1>3, <1>4 DEF HandInv

(* The invariant holds throughout. *)
LEMMA HandInvariance == Plain => (Spec => []HandInv)
  <1> SUFFICES ASSUME Plain PROVE Spec => []HandInv
    OBVIOUS
  <1>1. Init => HandInv
    BY HandInit
  <1>2. HandInv /\ [Next]_vars => HandInv'
    BY HandNext
  <1> QED
    BY <1>1, <1>2, PTL DEF Spec

(***************************************************************************)
(* NoSpareResult for any number of threads that call any of the methods,   *)
(* in any order: every result under way, in the API queue, with the state  *)
(* machine or in m_apiResultList, has a thread of its own that waits for   *)
(* one of its kind, so no call takes the result of an earlier one.  The    *)
(* session has no retro pictures, the daemon does not die, and it refuses  *)
(* nothing while the application records: retro events, the recovery from  *)
(* a death, and the live snapshot thread's own CANCEL_PICTURE do leave     *)
(* results that nobody takes.                                              *)
(***************************************************************************)
THEOREM NoResultIsSpare ==
    ASSUME IsFiniteSet(Senders), ~ Retro, ~ CanDie,
           MayFail => "start_recording" \notin Methods
    PROVE  Spec => []NoSpareResult
  <1>1. Plain
    BY DEF Plain
  <1>2. HandInv => NoSpareResult
    <2> SUFFICES ASSUME HandInv, NEW e \in Awaited
                 PROVE  OnItsWay(e) <= Cardinality(Waiters(e))
      BY DEF NoSpareResult, Waiters
    <2>1. {i \in DOMAIN replies : replies[i].kind = "API" /\ replies[i].evt = e}
          = Nodes(replies, e)
      BY DEF HandInv, PlainState, OneReply, Nodes, Awaited
    <2>2. OnItsWay(e) = Tally(api_queue, e) + Tally(replies, e) + Tally(m_apiResultList, e)
      BY <2>1 DEF OnItsWay, Tally, Nodes
    <2>3. InHand(e) <= Cardinality(Waiters(e))
      BY DEF HandInv, Books
    <2>4. Cardinality(Waiters(e)) \in Nat
      <3>1. Waiters(e) \in SUBSET Senders
        BY DEF Waiters
      <3> QED
        BY <1>1, <3>1, FS_Subset, FS_CardinalityType DEF Plain
    <2> QED
      BY <2>2, <2>3, <2>4, HandTypes DEF InHand
  <1> QED
    BY <1>1, <1>2, HandInvariance, PTL

-----------------------------------------------------------------------------
(* One thread that calls the HAL *)

(* What is in the queue is the post-processor's or this thread's request,  *)
(* and of that there is one.                                               *)
LEMMA InQueue ==
    ASSUME NEW a, Senders = {a}, HandInv, NEW i \in DOMAIN api_queue
    PROVE  api_queue[i].evt = "STOP_CAPTURE_CHANNEL" \/ Posted(a, api_queue[i].evt)
  <1> DEFINE e == api_queue[i].evt
  <1>1. api_queue \in Seq(Request) /\ api_queue[i] \in Request
    BY DEF HandInv, PlainState
  <1>2. SUFFICES ASSUME e # "STOP_CAPTURE_CHANNEL" PROVE Posted(a, e)
    OBVIOUS
  <1>3. e \in Awaited
    BY <1>1, <1>2 DEF Request, AskedFor
  <1>4. Tally(api_queue, e) # 0
    <2>1. i \in Nodes(api_queue, e)
      BY DEF Nodes
    <2>2. IsFiniteSet(Nodes(api_queue, e))
      BY <1>1, TallyNat
    <2> QED
      BY <2>1, <2>2, FS_EmptySet DEF Tally
  <1> HIDE DEF e
  <1>5. InHand(e) # 0 /\ InHand(e) \in Nat
    BY <1>4, HandTypes DEF InHand
  <1>6. InHand(e) <= Cardinality(Waiters(e))
    BY <1>3 DEF HandInv, Books
  <1>7. Waiters(e) # {}
    BY <1>5, <1>6, FS_EmptySet
  <1> QED
    BY <1>7 DEF Waiters

LEMMA AtMostOne ==
    ASSUME NEW a, Senders = {a}, HandInv, NEW e \in Awaited
    PROVE  Tally(api_queue, e) + Tally(m_apiResultList, e) <= 1
  <1>1. Cardinality(Waiters(e)) <= 1 /\ Cardinality(Waiters(e)) \in Nat
    <2>1. Waiters(e) = {} \/ Waiters(e) = {a}
      BY DEF Waiters
    <2> QED
      BY <2>1, FS_EmptySet, FS_Singleton
  <1>2. InHand(e) <= Cardinality(Waiters(e))
    BY DEF HandInv, Books
  <1> QED
    BY <1>1, <1>2, HandTypes DEF InHand

(* The head of a queue. *)
LEMMA HeadIs ==
    ASSUME NEW S, NEW s \in Seq(S), s # <<>>
    PROVE  1 \in DOMAIN s /\ Head(s) = s[1] /\ Head(s) \in S
  OBVIOUS

(***************************************************************************)
(* SyncCall when one thread calls the HAL, in the same sessions: a request *)
(* in the queue belongs to a call that still waits, so its payload is      *)
(* there when the state machine looks at it.  With two threads one may     *)
(* take the result of the other and return with its own request queued.    *)
(***************************************************************************)
THEOREM CallsAreSync ==
    ASSUME NEW a, Senders = {a}, ~ Retro, ~ CanDie,
           MayFail => "start_recording" \notin Methods
    PROVE  Spec => []SyncCall
  <1>1. Plain
    BY FS_Singleton DEF Plain
  <1>2. HandInv => SyncCall
    <2> SUFFICES ASSUME HandInv, NEW i \in DOMAIN api_queue, api_queue[i].from \in Senders
                 PROVE  Posted(api_queue[i].from, api_queue[i].evt)
      BY DEF SyncCall
    <2>1. api_queue[i] \in Request
      BY DEF HandInv, PlainState
    <2>2. api_queue[i].evt # "STOP_CAPTURE_CHANNEL"
      BY <2>1, StateMachineAssumption DEF Request, AskedFor, Awaited
    <2> QED
      BY <2>2, InQueue
  <1> QED
    BY <1>1, <1>2, HandInvariance, PTL

-----------------------------------------------------------------------------
(***************************************************************************)
(* set_parameters stops preview before it restarts it.  From the moment    *)
(* SET_PARAMS_STOP was handled until SET_PARAMS_RESTART is, no channel of  *)
(* preview exists in the two states in which a failed restart would leave  *)
(* for a state without preview: all that is handled in between is this     *)
(* thread's own requests, the post-processor's, and events.                *)
(***************************************************************************)
LitState == {"PREVIEW_READY", "PREVIEW_PIC_TAKING"}

Chain == {"SET_PARAMS_STOP", "SET_PARAMS_COMMIT", "SET_PARAMS_RESTART"}

Settling == Chain \cup {"STOP_CAPTURE_CHANNEL"} \cup InternalEvt

(* What such a command does: no restart is wanted anew, and the two states *)
(* are not entered, nor are channels added in them.                        *)
Settles ==
    /\ hw'.needRestart => hw.needRestart
    /\ m_state' \in LitState =>
          \/ Bare(hw')
          \/ Next_cmd.evt = "SET_PARAMS_RESTART"
          \/ /\ m_state = m_state' /\ hw'.ch = hw.ch
             /\ Next_cmd.evt # "SET_PARAMS_STOP"

(* A restart that is asked for, or about to be. *)
RestartDue(t) ==
    /\ call[t].at \in {"wait", "woken"}
    /\ \/ call[t].evt = "SET_PARAMS_STOP" /\ Tally(api_queue, "SET_PARAMS_STOP") = 0
       \/ call[t].evt = "SET_PARAMS_COMMIT" /\ hw.needRestart
       \/ /\ call[t].evt = "SET_PARAMS_RESTART"
          /\ Tally(api_queue, "SET_PARAMS_RESTART") # 0

DueIsBare ==
    \A t \in Senders : RestartDue(t) /\ m_state \in LitState => Bare(hw)

(* No thread is about to enter the chain in the middle. *)
NextIsFirst == \A t \in Senders : call[t].at = "next" => call[t].evt \notin Chain

(* What the end of a handler leaves of the object. *)
LEMMA FinishLeaves ==
    ASSUME NEW s, NEW h \in Hardware, NEW rs, Finish(s, h, rs)
    PROVE  m_state' = s /\ hw'.ch = h.ch /\ hw'.needRestart = h.needRestart
  <1>1. m_state' = s /\ hw' = [h EXCEPT !.raised = FALSE]
    BY DEF Finish
  <1> QED
    BY <1>1 DEF Hardware

(* Preview is gone, ... *)
LEMMA BareSettles ==
    ASSUME NEW s, NEW h \in Hardware, h.needRestart => hw.needRestart, Bare(h),
           NEW rs, Finish(s, h, rs)
    PROVE  Settles
  BY FinishLeaves DEF Settles, Bare

(* ... or the state is another, ... *)
LEMMA OtherSettles ==
    ASSUME NEW s, s \notin LitState, NEW h \in Hardware,
           h.needRestart => hw.needRestart, NEW rs, Finish(s, h, rs)
    PROVE  Settles
  BY FinishLeaves DEF Settles

(* ... or nothing changed. *)
LEMMA SameSettles ==
    ASSUME NEW s, NEW E, On(s, E), s \notin LitState \/ "SET_PARAMS_STOP" \notin E,
           NEW h \in Hardware, h.ch = hw.ch, h.needRestart => hw.needRestart,
           NEW rs, Finish(s, h, rs)
    PROVE  Settles
  BY FinishLeaves, OnFacts DEF Settles

(* Requests that are refused or acknowledged, events that are ignored. *)
LEMMA SimpleSettles ==
    ASSUME SmInv, NEW s, NEW E, s \notin LitState \/ "SET_PARAMS_STOP" \notin E,
           Refuse(s, E) \/ Acknowledge(s, E) \/ Ignore(s, E)
    PROVE  Settles
  <1>1. hw \in Hardware /\ Ok(hw).hw = hw
    BY HwType DEF Ok
  <1> QED
    BY <1>1, SameSettles DEF Refuse, Acknowledge, Ignore, Answer

(* The handlers shared by several states. *)
LEMMA SharedSettles ==
    ASSUME SmInv, NEW s,
           CommitParams(s) \/ ForgetRestart(s) \/ EvtDone(s) \/ DaemonDied(s)
    PROVE  Settles
  <1>1. hw \in Hardware
    BY HwType
  <1>2. CASE CommitParams(s)
    <2>1. PICK o \in commitParameterChanges(hw) :
             Finish(s, o.hw, <<Result("API", Next_cmd.evt, o.rc)>>)
      BY <1>2 DEF CommitParams, Apply, Answer
    <2>2. o.hw \in {[hw EXCEPT !.p = Committed(hw.p)], hw}
      BY DEF commitParameterChanges, MayErr, Ok, Err
    <2>3. o \in Outcome /\ o.hw.ch = hw.ch
      BY <1>1, CommitType
    <2>4. o.hw \in Hardware
      BY <2>3 DEF Outcome
    <2>5. o.hw.needRestart = hw.needRestart
      BY <1>1, <2>2 DEF Hardware
    <2>6. On(s, {"SET_PARAMS_COMMIT"})
      BY <1>2 DEF CommitParams, Apply
    <2> QED
      BY <2>1, <2>3, <2>4, <2>5, <2>6, SameSettles
  <1>3. CASE ForgetRestart(s)
    <2> DEFINE h == [hw EXCEPT !.needRestart = FALSE]
    <2>1. h \in Hardware /\ h.ch = hw.ch /\ ~ h.needRestart
      BY <1>1 DEF Hardware
    <2>2. /\ On(s, {"SET_PARAMS_RESTART"})
          /\ Finish(s, Ok(h).hw, <<Result("API", Next_cmd.evt, Ok(h).rc)>>)
      BY <1>3 DEF ForgetRestart, Apply, Answer
    <2>3. Ok(h).hw = h
      BY DEF Ok
    <2> HIDE DEF h
    <2> QED
      BY <2>1, <2>2, <2>3, SameSettles
  <1>4. CASE EvtDone(s) \/ DaemonDied(s)
    BY <1>1, <1>4, SameSettles DEF EvtDone, DaemonDied
  <1> QED
    BY <1>2, <1>3, <1>4

(* Captures and previews that end say nothing of a restart. *)
LEMMA NoRestartAnew ==
    ASSUME NEW h \in Hardware
    PROVE  /\ cancelPicture(h).needRestart = h.needRestart
           /\ stopPreview(h).needRestart = h.needRestart
           /\ unpreparePreview(h).needRestart = h.needRestart
           /\ stopCaptureChannel(h).hw.needRestart = h.needRestart
  <1>1. \A g \in Hardware : \A S, v : WithChannels(g, S, v).needRestart = g.needRestart
    BY DEF WithChannels, Hardware
  <1> DEFINE g == [h EXCEPT !.postproc = FALSE]
  <1>2. g \in Hardware /\ g.needRestart = h.needRestart
    BY DEF Hardware
  <1>3. cancelPicture(h) \in {g, WithChannels(g, {"CAPTURE"}, "null")}
    BY DEF cancelPicture, delChannels
  <1>4. \E S : stopPreview(h) = WithChannels(h, S, "null")
    BY DEF stopPreview, unpreparePreview, delChannels
  <1>5. \E S : unpreparePreview(h) = WithChannels(h, S, "null")
    BY DEF unpreparePreview, delChannels
  <1>6. \E S, v : stopCaptureChannel(h).hw \in {h, WithChannels(h, S, v)}
    BY DEF stopCaptureChannel, stopChannel, Ok, Err
  <1> HIDE DEF g
  <1> QED
    BY <1>1, <1>2, <1>3, <1>4, <1>5, <1>6

(* The handlers of the requests that have no part in the chain, state by state. *)
LEMMA NotInChain ==
    ASSUME Next_cmd.evt \in Settling, NEW s
    PROVE  /\ ~ \/ StoppedInitFailed \/ StoppedRefused \/ StoppedSetWindow
                \/ StoppedPrepare \/ StoppedStart \/ StoppedRelease
                \/ StoppedSendCommand
           /\ ~ \/ PicTakingCancel \/ PicTakingSendCommand
                \/ PicTakingRefused
           /\ ~ \/ RecordingSendCommand \/ RecordingTakePicture
                \/ RecordingStop \/ RecordingStopPreview
                \/ VideoPicSendCommand \/ VideoPicCancel
                \/ VideoPicStopRecording \/ VideoPicStopPreview
           /\ ~ \/ ReadyAcknowledged \/ ReadyRefused \/ ReadySetWindow
                \/ ReadyStart \/ ReadyStartWithoutWindow \/ ReadyStop
                \/ ReadySendCommand
           /\ ~ \/ PreviewingAcknowledged \/ PreviewingRefused
                \/ PreviewingEnableMsg \/ PreviewingDisableMsg
                \/ PreviewingStartAgain \/ PreviewingStop
                \/ PreviewingPreStartRecording \/ PreviewingStartRecording
                \/ PreviewingPrepareSnapshot \/ PreviewingPreTakePicture
                \/ PreviewingTakeZsl \/ PreviewingTakeRestart
                \/ PreviewingTakeRegular \/ PreviewingSendCommand
           /\ ~ \/ PreviewPicAcknowledged \/ PreviewPicRefused
                \/ PreviewPicSendCommand \/ PreviewPicCancel
                \/ PreviewPicStopPreview \/ PreviewPicRecordRefused
                \/ PreviewPicPreStartRecording \/ PreviewPicStartRecording
                \/ PreviewPicPrepareSnapshot
           /\ ~ \/ EnableMsg(s) \/ DisableMsg(s) \/ SetParams(s)
                \/ RecordingSetParams(s) \/ LongshotPreTake(s)
                \/ LongshotTake(s) \/ NotLongshot(s)
  <1>1. /\ \A t, E : On(t, E) => Next_cmd.evt \in E
        /\ \A t, E : Refuse(t, E) \/ Acknowledge(t, E) => Next_cmd.evt \in E
        /\ \A t, E, S : Apply(t, E, S) => Next_cmd.evt \in E
    BY OnFacts DEF Refuse, Acknowledge, Apply
  <1>2. Next_cmd.evt \in {"SET_PARAMS_STOP", "SET_PARAMS_COMMIT", "SET_PARAMS_RESTART",
           "STOP_CAPTURE_CHANNEL", "SNAPSHOT_DONE", "PREP_SNAPSHOT_DONE",
           "READY_FOR_SNAPSHOT", "DAEMON_DIED"}
    BY DEF Settling, Chain, InternalEvt
  <1>3. ~ \/ StoppedInitFailed \/ StoppedRefused \/ StoppedSetWindow
    BY <1>1, <1>2 DEF StoppedInitFailed, StoppedRefused, StoppedSetWindow
  <1>4. ~ \/ StoppedPrepare \/ StoppedStart \/ StoppedRelease
           \/ StoppedSendCommand
    BY <1>1, <1>2 DEF StoppedPrepare, StoppedStart, StoppedRelease, StoppedSendCommand
  <1>5. ~ \/ PicTakingCancel \/ PicTakingSendCommand \/ PicTakingRefused
    BY <1>1, <1>2 DEF PicTakingCancel, PicTakingSendCommand, PicTakingRefused
  <1>6. ~ \/ RecordingSendCommand \/ RecordingTakePicture \/ RecordingStop
           \/ RecordingStopPreview
    BY <1>1, <1>2 DEF RecordingSendCommand, RecordingTakePicture, RecordingStop,
       RecordingStopPreview
  <1>7. ~ \/ VideoPicSendCommand \/ VideoPicCancel \/ VideoPicStopRecording
           \/ VideoPicStopPreview
    BY <1>1, <1>2 DEF VideoPicSendCommand, VideoPicCancel, VideoPicStopRecording,
       VideoPicStopPreview
  <1>8. ~ \/ ReadyAcknowledged \/ ReadyRefused \/ ReadySetWindow
    BY <1>1, <1>2 DEF ReadyAcknowledged, ReadyRefused, ReadySetWindow
  <1>9. ~ \/ ReadyStart \/ ReadyStartWithoutWindow \/ ReadyStop
           \/ ReadySendCommand
    BY <1>1, <1>2 DEF ReadyStart, ReadyStartWithoutWindow, ReadyStop, ReadySendCommand
  <1>10. ~ \/ PreviewingAcknowledged \/ PreviewingRefused
           \/ PreviewingEnableMsg \/ PreviewingDisableMsg
           \/ PreviewingStartAgain
    BY <1>1, <1>2 DEF PreviewingAcknowledged, PreviewingRefused, PreviewingEnableMsg,
       PreviewingDisableMsg, PreviewingStartAgain
  <1>11. ~ \/ PreviewingStop \/ PreviewingPreStartRecording
           \/ PreviewingStartRecording \/ PreviewingPrepareSnapshot
           \/ PreviewingPreTakePicture
    BY <1>1, <1>2 DEF PreviewingStop, PreviewingPreStartRecording, PreviewingStartRecording,
       PreviewingPrepareSnapshot, PreviewingPreTakePicture
  <1>12. ~ \/ PreviewingTakeZsl \/ PreviewingTakeRestart
           \/ PreviewingTakeRegular \/ PreviewingSendCommand
    BY <1>1, <1>2 DEF PreviewingTakeZsl, PreviewingTakeRestart, PreviewingTakeRegular,
       PreviewingSendCommand
  <1>13. ~ \/ PreviewPicAcknowledged \/ PreviewPicRefused
           \/ PreviewPicSendCommand \/ PreviewPicCancel
    BY <1>1, <1>2 DEF PreviewPicAcknowledged, PreviewPicRefused, PreviewPicSendCommand,
       PreviewPicCancel
  <1>14. ~ \/ PreviewPicStopPreview \/ PreviewPicRecordRefused
           \/ PreviewPicPreStartRecording \/ PreviewPicStartRecording
           \/ PreviewPicPrepareSnapshot
    BY <1>1, <1>2 DEF PreviewPicStopPreview, PreviewPicRecordRefused,
       PreviewPicPreStartRecording, PreviewPicStartRecording,
       PreviewPicPrepareSnapshot
  <1>15. ~ \/ EnableMsg(s) \/ DisableMsg(s) \/ SetParams(s)
                 \/ RecordingSetParams(s) \/ LongshotPreTake(s)
                 \/ LongshotTake(s) \/ NotLongshot(s)
    BY <1>1, <1>2 DEF EnableMsg, DisableMsg, SetParams, RecordingSetParams, LongshotPreTake,
       LongshotTake, NotLongshot
  <1> QED
    BY <1>3, <1>4, <1>5, <1>6, <1>7, <1>8, <1>9, <1>10, <1>11, <1>12, <1>13, <1>14, <1>15

(* The states without preview, and the preparation of the flash. *)
LEMMA StoppedSettles ==
    ASSUME SmInv, procEvtPreviewStoppedState, Next_cmd.evt \in Settling
    PROVE  Settles
  <1>1. "PREVIEW_STOPPED" \notin LitState
    BY DEF LitState
  <1>2. \/ StoppedAcknowledged
        \/ CommitParams("PREVIEW_STOPPED") \/ ForgetRestart("PREVIEW_STOPPED")
        \/ EvtDone("PREVIEW_STOPPED")
        \/ Ignore("PREVIEW_STOPPED",
                  {"STOP_CAPTURE_CHANNEL", "PREP_SNAPSHOT_DONE",
                   "READY_FOR_SNAPSHOT", "DAEMON_DIED"})
    BY NotInChain DEF procEvtPreviewStoppedState
  <1> QED
    BY <1>1, <1>2, SimpleSettles, SharedSettles DEF StoppedAcknowledged

LEMMA PrepareSnapshotSettles ==
    ASSUME SmInv, procEvtPrepareSnapshotState
    PROVE  Settles
  <1>1. "PREPARE_SNAPSHOT" \notin LitState /\ "PREVIEWING" \notin LitState /\ hw \in Hardware
    BY HwType DEF LitState
  <1>2. CASE PrepareSnapshotDone
    BY <1>1, <1>2, OtherSettles DEF PrepareSnapshotDone
  <1> QED
    BY <1>1, <1>2, SimpleSettles, SharedSettles
       DEF procEvtPrepareSnapshotState, PrepareSnapshotRefused

LEMMA PicTakingSettles ==
    ASSUME ~ RestartEnabled, SmInv, procEvtPicTakingState, Next_cmd.evt \in Settling
    PROVE  Settles
  <1>1. /\ "PIC_TAKING" \notin LitState /\ "PREVIEW_STOPPED" \notin LitState
        /\ hw \in Hardware /\ cancelPicture(hw) \in Hardware
    BY HwType, CancelPictureType DEF LitState
  <1>3. CASE PicTakingStopCaptureChannel
    <2> DEFINE o == stopCaptureChannel(hw)
    <2>1. Answer("PIC_TAKING", o)
      BY <1>3 DEF PicTakingStopCaptureChannel
    <2>2. o.hw \in Hardware
      BY <1>1, StopChannelType DEF stopCaptureChannel, Channel, Outcome
    <2>3. o.hw.needRestart = hw.needRestart
      BY <1>1, NoRestartAnew
    <2> HIDE DEF o
    <2> QED
      BY <1>1, <2>1, <2>2, <2>3, OtherSettles DEF Answer
  <1>4. CASE PicTakingDone
    BY <1>1, <1>4, NoRestartAnew, OtherSettles DEF PicTakingDone
  <1>5. CASE PicTakingDoneRestart
    BY <1>5 DEF PicTakingDoneRestart, EarlyRestart
  <1>2. \/ PicTakingAcknowledged \/ PicTakingStopCaptureChannel
        \/ PicTakingDone \/ PicTakingDoneRestart
        \/ CommitParams("PIC_TAKING") \/ ForgetRestart("PIC_TAKING")
        \/ DaemonDied("PIC_TAKING")
        \/ Ignore("PIC_TAKING", {"PREP_SNAPSHOT_DONE", "READY_FOR_SNAPSHOT"})
    BY NotInChain DEF procEvtPicTakingState
  <1> QED
    BY <1>1, <1>2, <1>3, <1>4, <1>5, SimpleSettles, SharedSettles
       DEF PicTakingAcknowledged

(* The recording states. *)
LEMMA RecordingSettles ==
    ASSUME SmInv, procEvtRecordingState \/ procEvtVideoPicTakingState,
           Next_cmd.evt \in Settling
    PROVE  Settles
  <1>1. /\ "RECORDING" \notin LitState /\ "VIDEO_PIC_TAKING" \notin LitState
        /\ hw \in Hardware
    BY HwType DEF LitState
  <1>3. CASE VideoPicDone
    BY <1>1, <1>3, OtherSettles DEF VideoPicDone
  <1>2. \/ RecordingAcknowledged \/ RecordingRefused
        \/ VideoPicAcknowledged \/ VideoPicRefused \/ VideoPicDone
        \/ CommitParams("RECORDING") \/ CommitParams("VIDEO_PIC_TAKING")
        \/ EvtDone("RECORDING")
        \/ Ignore("RECORDING",
                  {"STOP_CAPTURE_CHANNEL", "PREP_SNAPSHOT_DONE",
                   "READY_FOR_SNAPSHOT", "DAEMON_DIED"})
        \/ Ignore("VIDEO_PIC_TAKING",
                  {"STOP_CAPTURE_CHANNEL", "PREP_SNAPSHOT_DONE",
                   "READY_FOR_SNAPSHOT", "DAEMON_DIED"})
    <2>1. CASE procEvtRecordingState
      BY <2>1, NotInChain DEF procEvtRecordingState
    <2>2. CASE procEvtVideoPicTakingState
      BY <2>2, NotInChain DEF procEvtVideoPicTakingState
    <2> QED
      BY <2>1, <2>2
  <1> QED
    BY <1>1, <1>2, <1>3, SimpleSettles, SharedSettles
       DEF RecordingAcknowledged, RecordingRefused, VideoPicAcknowledged, VideoPicRefused

(* The states with preview: SET_PARAMS_STOP ends it, the restart is the    *)
(* end of the chain.                                                       *)
LEMMA StopSettles ==
    ASSUME SmInv, NEW s, Apply(s, {"SET_PARAMS_STOP"}, {Ok(stopPreview(hw))})
    PROVE  Settles
  <1>1. Finish(s, stopPreview(hw), <<Result("API", Next_cmd.evt, "OK")>>)
    BY DEF Apply, Answer, Ok
  <1> QED
    BY <1>1, HwType, StopPreviewType, StoppedBare, NoRestartAnew, BareSettles

LEMMA RestartSettles ==
    ASSUME SmInv, NEW s, On(s, {"SET_PARAMS_RESTART"}), NEW t,
           NEW o \in Outcome \cup BroughtUp,
           Answer(t, [o EXCEPT !.hw.needRestart = FALSE])
    PROVE  Settles
  <1> DEFINE k == [o EXCEPT !.hw.needRestart = FALSE]
  <1>1. k.hw \in Hardware /\ ~ k.hw.needRestart
    BY DEF Outcome, BroughtUp, Hardware
  <1>2. Finish(t, k.hw, <<Result("API", Next_cmd.evt, k.rc)>>)
    BY DEF Answer
  <1> HIDE DEF k
  <1>3. ~ hw'.needRestart
    BY <1>1, <1>2, FinishLeaves
  <1>4. Next_cmd.evt = "SET_PARAMS_RESTART"
    BY OnFacts
  <1> QED
    BY <1>3, <1>4 DEF Settles

LEMMA ReadySettles ==
    ASSUME SmInv, procEvtPreviewReadyState, Next_cmd.evt \in Settling
    PROVE  Settles
  <1>1. hw \in Hardware
    BY HwType
  <1>3. CASE ReadyParamsStop
    BY <1>3, StopSettles DEF ReadyParamsStop, stopPreview
  <1>4. CASE ReadyParamsRestart
    BY <1>1, <1>4, PreparePreviewType, RestartSettles DEF ReadyParamsRestart
  <1>2. \/ ReadyParamsStop \/ ReadyParamsRestart
        \/ CommitParams("PREVIEW_READY") \/ EvtDone("PREVIEW_READY")
        \/ Ignore("PREVIEW_READY",
                  {"STOP_CAPTURE_CHANNEL", "PREP_SNAPSHOT_DONE",
                   "READY_FOR_SNAPSHOT", "DAEMON_DIED"})
    BY NotInChain DEF procEvtPreviewReadyState
  <1> QED
    BY <1>2, <1>3, <1>4, SimpleSettles, SharedSettles

LEMMA PreviewingSettles ==
    ASSUME SmInv, procEvtPreviewingState, Next_cmd.evt \in Settling
    PROVE  Settles
  <1>1. hw \in Hardware /\ "PREVIEWING" \notin LitState
    BY HwType DEF LitState
  <1>3. CASE PreviewingParamsStop
    BY <1>3, StopSettles DEF PreviewingParamsStop
  <1>4. CASE PreviewingParamsRestart
    BY <1>1, <1>4, BringUpType, RestartSettles DEF PreviewingParamsRestart
  <1>2. \/ PreviewingParamsStop \/ PreviewingParamsRestart
        \/ CommitParams("PREVIEWING") \/ EvtDone("PREVIEWING")
        \/ Ignore("PREVIEWING",
                  {"STOP_CAPTURE_CHANNEL", "PREP_SNAPSHOT_DONE",
                   "READY_FOR_SNAPSHOT", "DAEMON_DIED"})
    BY NotInChain DEF procEvtPreviewingState
  <1> QED
    BY <1>1, <1>2, <1>3, <1>4, SimpleSettles, SharedSettles

LEMMA PreviewPicSettles ==
    ASSUME SmInv, procEvtPreviewPicTakingState, Next_cmd.evt \in Settling
    PROVE  Settles
  <1>1. hw \in Hardware /\ cancelPicture(hw) \in Hardware /\ "PREVIEWING" \notin LitState
    BY HwType, CancelPictureType DEF LitState
  <1>3. CASE PreviewPicParamsStop
    BY <1>3, StopSettles DEF PreviewPicParamsStop
  <1>4. CASE PreviewPicParamsRestart
    BY <1>1, <1>4, BringUpType, RestartSettles DEF PreviewPicParamsRestart
  <1>5. CASE PreviewPicDone
    BY <1>1, <1>5, NoRestartAnew, OtherSettles DEF PreviewPicDone
  <1>6. CASE \/ RetroEvent("PREP_SNAPSHOT_DONE", "PREPARE_SNAPSHOT")
             \/ RetroEvent("READY_FOR_SNAPSHOT", "TAKE_PICTURE")
    BY <1>1, <1>6, SameSettles DEF RetroEvent
  <1>2. \/ PreviewPicParamsStop \/ PreviewPicParamsRestart \/ PreviewPicDone
        \/ RetroEvent("PREP_SNAPSHOT_DONE", "PREPARE_SNAPSHOT")
        \/ RetroEvent("READY_FOR_SNAPSHOT", "TAKE_PICTURE")
        \/ CommitParams("PREVIEW_PIC_TAKING") \/ DaemonDied("PREVIEW_PIC_TAKING")
        \/ Ignore("PREVIEW_PIC_TAKING", {"STOP_CAPTURE_CHANNEL"})
    BY NotInChain DEF procEvtPreviewPicTakingState
  <1> QED
    BY <1>2, <1>3, <1>4, <1>5, <1>6, SimpleSettles, SharedSettles

(* Every handler of a command that may come in the chain. *)
LEMMA MachineSettles ==
    ASSUME ~ RestartEnabled, SmInv, stateMachine, Next_cmd.evt \in Settling
    PROVE  Settles
  BY StoppedSettles, ReadySettles, PreviewingSettles, PrepareSnapshotSettles,
     PicTakingSettles, RecordingSettles, PreviewPicSettles DEF stateMachine

(* So all that the state machine is given while a thread waits for a       *)
(* request of the chain leaves what it found alone.                        *)
LEMMA CommandIs ==
    ASSUME NEW a, Senders = {a}, HandInv, api_queue # <<>> \/ evt_queue # <<>>
    PROVE  \/ api_queue # <<>> /\ Next_cmd = Head(api_queue) /\ Posted(a, Next_cmd.evt)
           \/ Next_cmd.evt \in {"STOP_CAPTURE_CHANNEL"} \cup InternalEvt
  <1>1. CASE api_queue # <<>>
    <2>1. api_queue \in Seq(Request)
      BY DEF HandInv, PlainState
    <2>2. 1 \in DOMAIN api_queue /\ Next_cmd = api_queue[1] /\ Next_cmd = Head(api_queue)
      BY <1>1, <2>1, HeadIs DEF Next_cmd
    <2> QED
      BY <1>1, <2>2, InQueue
  <1>2. CASE api_queue = <<>>
    <2>1. evt_queue \in Seq(Event) /\ evt_queue # <<>>
      BY <1>2 DEF HandInv, PlainState
    <2>2. Next_cmd \in Event
      BY <1>2, <2>1, HeadIs DEF Next_cmd
    <2> QED
      BY <2>2 DEF Event
  <1> QED
    BY <1>1, <1>2

-----------------------------------------------------------------------------
(* The invariant *)

BareInv == HandInv /\ DarkIsBare /\ DueIsBare /\ NextIsFirst

(* It is what the handlers of SET_PARAMS_RESTART rely on. *)
LEMMA RestartsFindNone ==
    ASSUME NEW a, Senders = {a}, BareInv
    PROVE  RestartsBare
  <1> SUFFICES ASSUME NEW s \in {"PREVIEW_READY", "PREVIEW_PIC_TAKING"},
                      On(s, {"SET_PARAMS_RESTART"})
               PROVE  Bare(hw)
    BY DEF RestartsBare
  <1>1. /\ m_state \in LitState /\ Next_cmd.evt = "SET_PARAMS_RESTART"
        /\ api_queue # <<>> \/ evt_queue # <<>>
    BY DEF On, LitState
  <1>2. /\ api_queue # <<>> /\ Next_cmd = Head(api_queue)
        /\ Posted(a, "SET_PARAMS_RESTART")
    BY <1>1, CommandIs DEF BareInv, InternalEvt
  <1>3. Tally(api_queue, "SET_PARAMS_RESTART") # 0
    <2>1. api_queue \in Seq(Request)
      BY DEF BareInv, HandInv, PlainState
    <2>2. Tally(api_queue, "SET_PARAMS_RESTART")
          = Tally(Tail(api_queue), "SET_PARAMS_RESTART") + 1
      BY <1>1, <1>2, <2>1, TallyTail DEF Hit
    <2>3. Tally(Tail(api_queue), "SET_PARAMS_RESTART") \in Nat
      BY <1>2, <2>1, HeadTailProperties, TallyNat
    <2> QED
      BY <2>2, <2>3
  <1>4. RestartDue(a)
    BY <1>2, <1>3 DEF RestartDue, Posted
  <1> QED
    BY <1>1, <1>4 DEF BareInv, DueIsBare

(* A step that keeps the state, the queue, and what the thread waits for. *)
LEMMA DueSame ==
    ASSUME DueIsBare, NEW t \in Senders, RestartDue(t)',
           m_state' = m_state, hw'.needRestart = hw.needRestart,
           Bare(hw) => Bare(hw'),
           \A e \in Chain : Tally(api_queue', e) = Tally(api_queue, e),
           call'[t].evt = call[t].evt,
           call'[t].at \in {"wait", "woken"} => call[t].at \in {"wait", "woken"}
    PROVE  m_state' \in LitState => Bare(hw')
  <1>1. RestartDue(t)
    BY DEF RestartDue, Chain
  <1> QED
    BY <1>1 DEF DueIsBare

(* The state machine thread. *)
LEMMA CommandDue ==
    ASSUME NEW a, Senders = {a}, ~ RestartEnabled, Plain, BareInv, HandleCommand
    PROVE  DueIsBare'
  <1>1. /\ Fit(hw) /\ TakesIn /\ api_queue \in Seq(Request) /\ evt_queue \in Seq(Event)
        /\ m_RestoreZSL \in BOOLEAN /\ SmInv
    BY DEF BareInv, HandInv, PlainState, HwiInv, SmInv, SmTypeOK
  <1>2. ~ Exit
    <2>1. api_queue # <<>> => Head(api_queue) \in Request
      BY <1>1, HeadIs
    <2> QED
      BY <2>1 DEF Exit, Request
  <1>3. stateMachine
    BY <1>2 DEF HandleCommand, smEvtProcRoutine
  <1>4. api_queue # <<>> \/ evt_queue # <<>> => Next_cmd \in Request \cup Event
    BY <1>1, HeadIs DEF Next_cmd
  <1>5. Alive
    BY <1>4 DEF Alive, Request, Event, AskedFor, Awaited, ApiEvt, InternalEvt
  <1>6. Serves
    BY <1>1, <1>3, <1>5, StateMachineHandles DEF Fit, Handles
  <1>7. /\ api_queue # <<>> \/ evt_queue # <<>>
        /\ api_queue # <<>> => api_queue' = Tail(api_queue)
        /\ api_queue = <<>> => UNCHANGED api_queue
    BY <1>6 DEF Serves
  <1>8. call' = call
    BY DEF HandleCommand
  <1> SUFFICES ASSUME RestartDue(a)', m_state' \in LitState
               PROVE  Bare(hw')
    BY DEF DueIsBare
  <1>9. call[a].at \in {"wait", "woken"} /\ call[a].evt \in Chain
    BY <1>8 DEF RestartDue, Chain
  <1>10. Next_cmd.evt \in Settling
    BY <1>7, <1>9, CommandIs DEF BareInv, Settling, Posted
  <1>11. Settles
    BY <1>1, <1>3, <1>10, MachineSettles
  <1>12. \A e \in Chain :
            /\ Tally(api_queue, e) \in Nat /\ Tally(api_queue', e) \in Nat
            /\ Tally(api_queue', e) + (IF api_queue # <<>> THEN Hit(Head(api_queue), e) ELSE 0)
               = Tally(api_queue, e)
    <2> SUFFICES ASSUME NEW e \in Chain
                 PROVE  /\ Tally(api_queue, e) \in Nat /\ Tally(api_queue', e) \in Nat
                        /\ Tally(api_queue', e)
                           + (IF api_queue # <<>> THEN Hit(Head(api_queue), e) ELSE 0)
                           = Tally(api_queue, e)
      OBVIOUS
    <2>1. Tally(api_queue, e) \in Nat
      BY <1>1, TallyNat
    <2>2. CASE api_queue # <<>>
      <3>1. Tail(api_queue) \in Seq(Request)
        BY <1>1, <2>2, HeadTailProperties
      <3>2. Tally(Tail(api_queue), e) \in Nat
        BY <3>1, TallyNat
      <3>3. Tally(api_queue, e) = Tally(Tail(api_queue), e) + Hit(Head(api_queue), e)
        BY <1>1, <2>2, TallyTail
      <3> QED
        BY <1>7, <2>1, <2>2, <3>2, <3>3
    <2>3. CASE api_queue = <<>>
      BY <1>7, <2>1, <2>3
    <2> QED
      BY <2>2, <2>3
  <1>13. Next_cmd.evt \in Chain =>
            /\ api_queue # <<>> /\ Next_cmd = Head(api_queue)
            /\ Posted(a, Next_cmd.evt)
    BY <1>7, CommandIs DEF BareInv, Chain, InternalEvt
  <1>14. Next_cmd.evt # "SET_PARAMS_RESTART"
    <2> SUFFICES ASSUME Next_cmd.evt = "SET_PARAMS_RESTART" PROVE FALSE
      OBVIOUS
    <2>1. /\ api_queue # <<>> /\ Hit(Head(api_queue), "SET_PARAMS_RESTART") = 1
          /\ call[a].evt = "SET_PARAMS_RESTART"
      BY <1>13 DEF Chain, Hit, Posted
    <2>2. Tally(api_queue', "SET_PARAMS_RESTART") # 0
      BY <1>8, <2>1 DEF RestartDue
    <2>3. /\ Tally(api_queue, "SET_PARAMS_RESTART") + Tally(m_apiResultList, "SET_PARAMS_RESTART")
             <= 1
          /\ Tally(m_apiResultList, "SET_PARAMS_RESTART") \in Nat
      BY AtMostOne, HandTypes DEF BareInv, Awaited, ApiEvt
    <2> QED
      BY <1>12, <2>1, <2>2, <2>3 DEF Chain
  <1>15. CASE Bare(hw')
    BY <1>15
  <1>16. CASE m_state = m_state' /\ hw'.ch = hw.ch /\ Next_cmd.evt # "SET_PARAMS_STOP"
    <2>1. api_queue # <<>> => Hit(Head(api_queue), "SET_PARAMS_STOP") = 0
      BY <1>16 DEF Next_cmd, Hit
    <2>2. hw'.needRestart => hw.needRestart
      BY <1>11 DEF Settles
    <2>3. call[a].evt = "SET_PARAMS_STOP" => Tally(api_queue, "SET_PARAMS_STOP") = 0
      BY <1>8, <1>12, <2>1 DEF RestartDue, Chain
    <2>4. call[a].evt = "SET_PARAMS_RESTART" => Tally(api_queue, "SET_PARAMS_RESTART") # 0
      <3>1. \A x, e : Hit(x, e) \in {0, 1}
        BY DEF Hit
      <3> QED
        BY <1>8, <1>12, <3>1 DEF RestartDue, Chain
    <2>5. RestartDue(a)
      BY <1>8, <1>9, <2>2, <2>3, <2>4 DEF RestartDue, Chain
    <2> QED
      BY <1>16, <2>5, BareSame DEF BareInv, DueIsBare
  <1> QED
    BY <1>11, <1>14, <1>15, <1>16 DEF Settles

(* A thread enters a method: its request is not of the chain. *)
LEMMA EnterDue ==
    ASSUME NEW a, Senders = {a}, BareInv, Enter(a)
    PROVE  DueIsBare' /\ NextIsFirst' /\ UNCHANGED <<m_state, hw.ch>>
  <1>1. /\ call'[a].at = "next" /\ call'[a].evt \notin Chain
    <2>1. \A m, e, x : call' = [call EXCEPT ![a] = At(m, e, x, "next")]
                         => call'[a].at = "next" /\ call'[a].evt = e
      BY DEF At, BareInv, HandInv, HwiInv, CallsInv
    <2>2. CASE EnterSimple(a)
      <3>1. PICK m \in Simple : \E x : call' = [call EXCEPT ![a] = At(m, RequestOf[m], x, "next")]
        BY <2>2 DEF EnterSimple
      <3>2. RequestOf[m] \notin Chain
        BY DEF Simple, RequestOf, Chain
      <3> QED
        BY <2>1, <3>1, <3>2
    <2>3. CASE set_parameters(a)
      <3>1. PICK x : call' = [call EXCEPT ![a] = At("set_parameters", "SET_PARAMS", x, "next")]
        BY <2>3 DEF set_parameters
      <3>2. call'[a].at = "next" /\ call'[a].evt = "SET_PARAMS"
        BY <2>1, <3>1, Zenon
      <3> QED
        BY <3>2 DEF Chain
    <2>4. CASE start_recording(a)
      <3>1. call'[a].at = "next" /\ call'[a].evt = "PRE_START_RECORDING"
        BY <2>1, <2>4, Zenon DEF start_recording
      <3> QED
        BY <3>1 DEF Chain
    <2>5. CASE take_picture(a)
      <3>1. \E m : \E e \in {"PRE_TAKE_PICTURE", "PREPARE_SNAPSHOT"} :
               call' = [call EXCEPT ![a] = At(m, e, {}, "next")]
        BY <2>5 DEF take_picture
      <3> QED
        BY <2>1, <3>1 DEF Chain
    <2> QED
      BY <2>2, <2>3, <2>4, <2>5 DEF Enter
  <1>2. m_state' = m_state /\ hw'.ch = hw.ch
    <2>1. hw \in Hardware
      BY DEF BareInv, HandInv, HwiInv, SmInv, SmTypeOK
    <2>2. m_state' = m_state /\ (hw' = hw \/ \E b : hw' = [hw EXCEPT !.retro = b])
      BY DEF Enter, EnterSimple, set_parameters, start_recording, take_picture, smVars
    <2> QED
      BY <2>1, <2>2 DEF Hardware
  <1> QED
    BY <1>1, <1>2 DEF DueIsBare, RestartDue, NextIsFirst

(* A thread posts its first request, has nothing to prepare, waits again, *)
(* or takes a result and goes on without one of the chain.                *)
LEMMA PlainDue ==
    ASSUME NEW a, Senders = {a}, BareInv, Proceed(a), ~ ContinueParams(a)
    PROVE  DueIsBare' /\ NextIsFirst' /\ UNCHANGED <<m_state, hw.ch>>
  <1>1. hw \in Hardware /\ call \in [Senders -> Call] /\ call[a] \in Call
    BY DEF BareInv, HandInv, HwiInv, CallsInv, SmInv, SmTypeOK
  <1>2. m_state' = m_state /\ hw'.ch = hw.ch
    <2>1. m_state' = m_state /\ (hw' = hw \/ \E b : hw' = [hw EXCEPT !.prepSnapRun = b])
      BY DEF Proceed, Issue, IssuePrepare, SkipPrepare, NotYet, ReturnSimple, ReturnParams,
         AfterRecording, AfterPreTake, AfterTake, AfterPrepare, smVars
    <2> QED
      BY <1>1, <2>1 DEF Hardware
  <1>3. CASE Issue(a) \/ IssuePrepare(a)
    <2>1. call'[a].at = "wait" /\ call'[a].evt = call[a].evt /\ call[a].at = "next"
      BY <1>1, <1>3 DEF Issue, IssuePrepare, Call
    <2>2. call'[a].evt \notin Chain
      BY <2>1 DEF BareInv, NextIsFirst
    <2> QED
      BY <1>2, <2>1, <2>2 DEF DueIsBare, RestartDue, NextIsFirst, Chain
  <1>4. CASE NotYet(a)
    <2>1. /\ call'[a].at = "wait" /\ call'[a].evt = call[a].evt /\ call[a].at = "woken"
          /\ UNCHANGED <<api_queue, m_state, hw>>
      BY <1>1, <1>4 DEF NotYet, Call, smVars
    <2> QED
      BY <1>2, <2>1 DEF BareInv, DueIsBare, RestartDue, NextIsFirst, Bare
  <1>5. CASE \/ SkipPrepare(a) \/ ReturnSimple(a) \/ ReturnParams(a) \/ AfterRecording(a)
             \/ AfterPreTake(a) \/ AfterTake(a) \/ AfterPrepare(a)
    <2>1. \/ call' = [call EXCEPT ![a] = NoCall]
          \/ \E e \in {"START_RECORDING", "TAKE_PICTURE", "PREPARE_SNAPSHOT"} : Then(a, e)
          \/ Then(a, "PRE_TAKE_PICTURE")
          \/ /\ call[a].at = "next"
             /\ call' = [call EXCEPT ![a] = [call[a] EXCEPT !.evt = "PRE_TAKE_PICTURE"]]
      BY <1>5 DEF SkipPrepare, ReturnSimple, ReturnParams, AfterRecording, AfterPreTake,
         AfterTake, AfterPrepare, Leave
    <2>2. call'[a].at \in {"out", "next"} /\ (call'[a].at = "next" => call'[a].evt \notin Chain)
      <3>1. CASE call' = [call EXCEPT ![a] = NoCall]
        BY <1>1, <3>1 DEF NoCall
      <3>2. ASSUME NEW e \in {"START_RECORDING", "TAKE_PICTURE", "PREPARE_SNAPSHOT",
                              "PRE_TAKE_PICTURE"}, Then(a, e)
            PROVE  call'[a].at = "next" /\ call'[a].evt = e
        BY <1>1, <3>2 DEF Then, Call
      <3>3. CASE /\ call[a].at = "next"
                 /\ call' = [call EXCEPT ![a] = [call[a] EXCEPT !.evt = "PRE_TAKE_PICTURE"]]
        BY <1>1, <3>3 DEF Call, Chain
      <3> QED
        BY <2>1, <3>1, <3>2, <3>3 DEF Chain
    <2> QED
      BY <1>2, <2>2 DEF DueIsBare, RestartDue, NextIsFirst
  <1> QED
    BY <1>3, <1>4, <1>5 DEF Proceed

(* set_parameters goes on: what it asks for next was due. *)
LEMMA ContinueDue ==
    ASSUME NEW a, Senders = {a}, BareInv, ContinueParams(a)
    PROVE  DueIsBare' /\ NextIsFirst' /\ UNCHANGED <<m_state, hw.ch>>
  <1> DEFINE e == call[a].evt
             f == AfterParams(e)
             x == Node("API", f, {}, a)
  <1>1. /\ call \in [Senders -> Call] /\ call[a] \in Call /\ api_queue \in Seq(Request)
        /\ Asked(call[a]) /\ m_apiResultList \in Seq(Reply)
    BY DEF BareInv, HandInv, HwiInv, CallsInv, PlainState
  <1>2. /\ call[a].at = "woken" /\ Matching(a) # {} /\ Answered(a)
        /\ UNCHANGED <<m_state, hw>>
        /\ api_queue' = Append(api_queue, x)
        /\ f # "NONE" /\ call' = [call EXCEPT ![a].evt = f, ![a].at = "wait"]
    BY DEF ContinueParams, Answered, Post, procAPI
  <1>3. call'[a].at = "wait" /\ call'[a].evt = f
    BY <1>1, <1>2 DEF Call
  <1>4. Tally(api_queue, e) = 0
    <2>1. e \in Awaited
      BY <1>1, <1>2 DEF Asked, AskedFor
    <2>2. Tally(m_apiResultList, e) # 0
      <3>1. IsFiniteSet(Nodes(m_apiResultList, e))
        BY <1>1, TallyNat
      <3>2. Nodes(m_apiResultList, e) # {}
        BY <1>2 DEF Matching, Nodes
      <3> QED
        BY <3>1, <3>2, FS_EmptySet DEF Tally
    <2>3. Tally(api_queue, e) + Tally(m_apiResultList, e) <= 1
      BY <2>1, AtMostOne DEF BareInv
    <2> HIDE DEF e
    <2> QED
      BY <2>2, <2>3, HandTypes DEF BareInv
  <1>5. Tally(api_queue', f) = Tally(api_queue, f) + 1 /\ Tally(api_queue, f) \in Nat
    <2>1. f \in {"SET_PARAMS_STOP", "SET_PARAMS_COMMIT", "SET_PARAMS_RESTART"}
      BY <1>2 DEF AfterParams
    <2>2. f \in AskedFor /\ f \in Evt
      BY <2>1 DEF AskedFor, Awaited, ApiEvt, Evt
    <2>3. x.evt = f /\ {} \in SUBSET Flag /\ procAPI(f, {}, a)
      BY <1>2 DEF Node, procAPI
    <2> HIDE DEF f, x
    <2>4. Tally(api_queue', f) = Tally(api_queue, f) + 1
      BY <2>2, <2>3, PostTally DEF BareInv
    <2> QED
      BY <1>1, <2>4, TallyNat
  <1>6. CASE e = "SET_PARAMS_STOP"
    <2>1. f = "SET_PARAMS_COMMIT" /\ RestartDue(a)
      BY <1>2, <1>4, <1>6 DEF AfterParams, RestartDue
    <2> QED
      BY <1>2, <1>3, <2>1 DEF BareInv, DueIsBare, NextIsFirst, Bare
  <1>7. CASE e = "SET_PARAMS_COMMIT"
    <2>1. RestartDue(a)
      BY <1>2, <1>7 DEF AfterParams, RestartDue
    <2> QED
      BY <1>2, <1>3, <2>1 DEF BareInv, DueIsBare, NextIsFirst, Bare
  <1>8. CASE e = "SET_PARAMS"
    <2>1. CASE hw.needRestart
      <3>1. f = "SET_PARAMS_STOP"
        BY <1>8, <2>1 DEF AfterParams
      <3>2. Tally(api_queue', "SET_PARAMS_STOP") # 0
        BY <1>5, <3>1
      <3> QED
        BY <1>2, <1>3, <3>1, <3>2 DEF DueIsBare, RestartDue, NextIsFirst
    <2>2. CASE ~ hw.needRestart
      <3>1. f = "SET_PARAMS_COMMIT" /\ ~ hw'.needRestart
        BY <1>2, <1>8, <2>2 DEF AfterParams
      <3> QED
        BY <1>2, <1>3, <3>1 DEF DueIsBare, RestartDue, NextIsFirst
    <2> QED
      BY <2>1, <2>2
  <1> QED
    BY <1>2, <1>6, <1>7, <1>8 DEF AfterParams

(* The results are handed over, the daemon and the post-processor report. *)
LEMMA OthersDue ==
    ASSUME NEW a, Senders = {a}, Plain, BareInv,
           signalAPIResult \/ signalEvtResult \/ Daemon \/ UNCHANGED vars
    PROVE  DueIsBare' /\ NextIsFirst' /\ UNCHANGED <<m_state, hw>>
  <1>1. /\ call \in [Senders -> Call] /\ call[a] \in Call /\ api_queue \in Seq(Request)
    BY DEF BareInv, HandInv, HwiInv, CallsInv, PlainState
  <1>2. UNCHANGED <<m_state, hw>>
    BY DEF signalAPIResult, signalEvtResult, Daemon, DaemonEvent, LastJpeg, stopCapture,
       DaemonDies, vars, smVars
  <1>3. /\ call'[a].evt = call[a].evt
        /\ call'[a].at \in {"wait", "woken"} => call[a].at \in {"wait", "woken"}
        /\ call'[a].at = "next" => call[a].at = "next"
    <2>1. CASE signalAPIResult
      <3>1. call'[a] = IF call[a].at = "wait" THEN [call[a] EXCEPT !.at = "woken"]
                       ELSE call[a]
        BY <2>1 DEF signalAPIResult
      <3> QED
        BY <1>1, <3>1 DEF Call
    <2>2. CASE signalEvtResult \/ Daemon \/ UNCHANGED vars
      BY <2>2 DEF signalEvtResult, Daemon, DaemonEvent, LastJpeg, stopCapture,
         DaemonDies, vars, hwiVars
    <2> QED
      BY <2>1, <2>2
  <1>4. \A e \in Chain : Tally(api_queue', e) = Tally(api_queue, e)
    <2>1. CASE UNCHANGED api_queue
      BY <2>1
    <2>2. CASE procAPI("STOP_CAPTURE_CHANNEL", {}, HAL)
      <3> DEFINE x == Node("API", "STOP_CAPTURE_CHANNEL", {}, HAL)
      <3>1. x \in Cmd /\ x.cmd = "API" /\ x.evt = "STOP_CAPTURE_CHANNEL" /\ x.from = HAL
        BY NodeType DEF Evt, ApiEvt, Node
      <3>2. x \in Request /\ \A e \in Chain : Hit(x, e) = 0
        BY <3>1 DEF Request, Hit, Chain
      <3>3. api_queue' = Append(api_queue, x)
        BY <2>2 DEF procAPI
      <3> HIDE DEF x
      <3>4. \A e : Tally(api_queue', e) = Tally(api_queue, e) + Hit(x, e)
                   /\ Tally(api_queue, e) \in Nat
        BY <1>1, <3>2, <3>3, TallyAppend, TallyNat
      <3> QED
        BY <3>2, <3>4
    <2>3. UNCHANGED api_queue \/ procAPI("STOP_CAPTURE_CHANNEL", {}, HAL)
      BY DEF signalAPIResult, signalEvtResult, Daemon, DaemonEvent, LastJpeg, stopCapture,
         DaemonDies, vars, smVars
    <2> QED
      BY <2>1, <2>2, <2>3
  <1>5. Bare(hw) => Bare(hw')
    BY <1>2
  <1>6. DueIsBare'
    <2> SUFFICES ASSUME RestartDue(a)' PROVE m_state' \in LitState => Bare(hw')
      BY DEF DueIsBare
    <2> QED
      BY <1>2, <1>3, <1>4, <1>5, DueSame DEF BareInv
  <1> QED
    BY <1>2, <1>3, <1>6 DEF BareInv, NextIsFirst

(* The live snapshot thread, which posts nothing in such a session. *)
LEMMA LiveDue ==
    ASSUME NEW a, Senders = {a}, Plain, BareInv, LiveThread
    PROVE  DueIsBare' /\ NextIsFirst'
  <1>1. /\ Fit(hw) /\ hw \in Hardware /\ RecordingHasVideo /\ SmInv
        /\ live = "take" => m_state = "VIDEO_PIC_TAKING"
        /\ MayFail => m_state \notin RecordingState
    BY DEF BareInv, HandInv, PlainState, HwiInv, SmInv, SmTypeOK, TakesIn
  <1>2. CASE live = "take"
    <2>1. m_state' = "VIDEO_PIC_TAKING"
      BY <1>1, <1>2 DEF LiveThread, Live_Snapshot_thread, LiveTakeStarts, LiveTakeFails,
         LiveTakeAbandoned, LiveCancel
    <2> QED
      BY <2>1 DEF DueIsBare, NextIsFirst, LiveThread, BareInv, LitState
  <1>3. CASE live # "take"
    <2>1. LiveCancel /\ call' = call
      BY <1>3 DEF LiveThread, Live_Snapshot_thread, LiveTakeStarts, LiveTakeFails,
         LiveTakeAbandoned
    <2>2. UNCHANGED <<api_queue, m_state>>
      BY <2>1 DEF LiveCancel
    <2>3. hw'.needRestart = hw.needRestart
      <3>1. stopChannel(hw, "SNAPSHOT").hw \in {hw, WithChannels(hw, {"SNAPSHOT"}, "added")}
        BY DEF stopChannel, Ok, Err
      <3>2. hw' = [stopChannel(hw, "SNAPSHOT").hw EXCEPT !.postproc = FALSE]
        BY <2>1 DEF LiveCancel
      <3> QED
        BY <1>1, <3>1, <3>2 DEF WithChannels, Hardware
    <2>4. Bare(hw) => Bare(hw')
      BY <1>1, <2>1, ThreadKeepsBare DEF Live_Snapshot_thread
    <2> SUFFICES DueIsBare'
      BY <2>1 DEF BareInv, NextIsFirst
    <2> SUFFICES ASSUME RestartDue(a)' PROVE m_state' \in LitState => Bare(hw')
      BY DEF DueIsBare
    <2> QED
      BY <2>1, <2>2, <2>3, <2>4, DueSame DEF BareInv
  <1> QED
    BY <1>2, <1>3

(* Every step. *)
LEMMA BareNext ==
    ASSUME NEW a, Senders = {a}, ~ RestartEnabled, Plain, BareInv, [Next]_vars
    PROVE  BareInv'
  <1>1. HandInv' /\ SmInv
    BY HandNext DEF BareInv, HandInv, HwiInv
  <1>2. CASE Enter(a) \/ Proceed(a)
    <2>1. DueIsBare' /\ NextIsFirst' /\ m_state' = m_state /\ hw'.ch = hw.ch
      BY <1>2, EnterDue, PlainDue, ContinueDue
    <2> QED
      BY <1>1, <2>1 DEF BareInv, DarkIsBare, Bare
  <1>3. CASE HandleCommand
    <2>1. DueIsBare'
      BY <1>3, CommandDue
    <2>2. DarkIsBare'
      BY <1>1, <1>3, RestartsFindNone, MachineKeepsDark DEF BareInv, HandleCommand
    <2> QED
      BY <1>1, <1>3, <2>1, <2>2 DEF BareInv, NextIsFirst, HandleCommand
  <1>4. CASE LiveThread
    <2>1. DarkIsBare'
      BY <1>1, <1>4, ThreadKeepsDark DEF BareInv, LiveThread
    <2> QED
      BY <1>1, <1>4, <2>1, LiveDue DEF BareInv
  <1>5. CASE signalAPIResult \/ signalEvtResult \/ Daemon \/ UNCHANGED vars
    <2>1. DueIsBare' /\ NextIsFirst' /\ m_state' = m_state /\ hw' = hw
      BY <1>5, OthersDue
    <2> QED
      BY <1>1, <2>1 DEF BareInv, DarkIsBare, Bare
  <1> QED
    BY <1>2, <1>3, <1>4, <1>5 DEF Next

(***************************************************************************)
(* PREVIEW_STOPPED means that no channel of preview or recording is left,  *)
(* when one thread calls the methods, in any order, whichever calls into   *)
(* the daemon fail (while nothing is recorded): what StoppedIsStopped of   *)
(* StateMachineEnv_proofs asks of the callers, that no SET_PARAMS_RESTART  *)
(* comes while preview is still there, set_parameters keeps to.  It is the *)
(* post-processor's events and its own request that may come in between.   *)
(***************************************************************************)
THEOREM CallsLeaveStopped ==
    ASSUME NEW a, Senders = {a}, ~ Retro, ~ CanDie, ~ RestartEnabled,
           MayFail => "start_recording" \notin Methods
    PROVE  Spec => []StoppedHasNoPreview
  <1>1. Plain
    BY FS_Singleton DEF Plain
  <1>2. Init => BareInv
    <2> SUFFICES ASSUME Init PROVE BareInv
      OBVIOUS
    <2>1. HandInv
      BY <1>1, HandInit
    <2>2. DarkIsBare
      BY DEF Init, SmInit, InitHardware, DarkIsBare, Bare, PreviewChannels, Channel
    <2>3. DueIsBare /\ NextIsFirst
      BY DEF Init, NoCall, DueIsBare, NextIsFirst, RestartDue
    <2> QED
      BY <2>1, <2>2, <2>3 DEF BareInv
  <1>3. BareInv /\ [Next]_vars => BareInv'
    BY <1>1, BareNext
  <1>4. BareInv => StoppedHasNoPreview
    BY DEF BareInv, DarkIsBare, DarkState, Bare, StoppedHasNoPreview
  <1> QED
    BY <1>2, <1>3, <1>4, PTL DEF Spec
=============================================================================
