--------------------- MODULE QCameraStateMachine_proofs ---------------------
(***************************************************************************)
(* Every step of the state machine thread and of the live snapshot thread  *)
(* preserves                                                               *)
(*     SmInv == SmTypeOK /\ RecordingHasVideo /\ DelayedMsgsKept.          *)
(*                                                                         *)
(* A handler does two things: it ends (Finish), in some state, with some   *)
(* object and some results, and it changes the variables that only some    *)
(* handlers change.  Ends and Rest say what the invariant needs of either; *)
(* one lemma per handler shows both, and EndsInv concludes.                *)
(***************************************************************************)
EXTENDS QCameraStateMachine, QCamera2Hardware_proofs, SequenceTheorems

SmInv == SmTypeOK /\ RecordingHasVideo /\ DelayedMsgsKept

(* A frame message that was wanted is wanted still, unless it is disabled. *)
KeepsMsgs == MsgsWanted /\ ~ MsgsWanted' => Next_cmd.evt = "DISABLE_MSG_TYPE"

(* What every step of the two threads does. *)
StepInv == SmInv' /\ KeepsMsgs

RecordingState == {"RECORDING", "VIDEO_PIC_TAKING"}

(* A handler whose end leaves the VIDEO channel as its state demands. *)
Ends ==
    \E s \in State : \E h \in Hardware : \E rs \in Seq(Reply) :
        /\ Finish(s, h, rs)
        /\ s \in RecordingState => h.ch["VIDEO"] = "started"

(* What becomes of the messages: none is lost unless it is disabled. *)
FrameMsgs ==
    /\ msgs' \in Msgs
    /\ DelayedMsgsKept'
    /\ KeepsMsgs

Rest == /\ FrameMsgs
        /\ m_RestoreZSL' \in BOOLEAN
        /\ live' \in {"none", "take", "cancel"}

HasCmd == api_queue # <<>> \/ evt_queue # <<>>

-----------------------------------------------------------------------------
(* The command at the head of the queues *)

(* The command that is served has the type of a command. *)
LEMMA NextCmdType ==
    ASSUME SmTypeOK, HasCmd
    PROVE  Next_cmd \in Cmd
  <1>1. CASE api_queue # <<>>
    BY <1>1, HeadTailProperties DEF SmTypeOK, Next_cmd
  <1>2. CASE api_queue = <<>>
    <2>1. evt_queue # <<>> /\ evt_queue \in Seq(Cmd)
      BY <1>2 DEF SmTypeOK, HasCmd
    <2> QED
      BY <1>2, <2>1, HeadTailProperties DEF Next_cmd
  <1> QED
    BY <1>1, <1>2

(* A result inherits its sender from that command. *)
LEMMA ResultType ==
    ASSUME SmTypeOK, HasCmd, NEW k \in {"API", "EVT"}, NEW e \in Evt,
           NEW s \in Status
    PROVE  Result(k, e, s) \in Reply
  BY NextCmdType DEF Result, Reply, Cmd

(* The usual list of results: one. *)
LEMMA OneResultType ==
    ASSUME SmTypeOK, HasCmd, NEW k \in {"API", "EVT"}, NEW e \in Evt,
           NEW s \in Status
    PROVE  <<Result(k, e, s)>> \in Seq(Reply)
  BY ResultType

(* What the guard of a handler says. *)
LEMMA OnFacts ==
    ASSUME NEW s, NEW E, On(s, E)
    PROVE  HasCmd /\ m_state = s /\ Next_cmd.evt \in E
  BY DEF On, HasCmd

(* The event a longshot that is switched off raises. *)
LEMMA SnapshotDoneType ==
    <<Node("EVT", "SNAPSHOT_DONE", {}, HAL)>> \in Seq(Cmd)
  <1>1. Node("EVT", "SNAPSHOT_DONE", {}, HAL) \in Cmd
    BY DEF Node, Cmd, Evt, InternalEvt
  <1> QED
    BY <1>1

(* What the end of a handler makes of the variables. *)
LEMMA FinishType ==
    ASSUME SmTypeOK, HasCmd, NEW s \in State, NEW h \in Hardware,
           NEW rs \in Seq(Reply), Finish(s, h, rs)
    PROVE  /\ m_state' = s
           /\ hw' \in Hardware /\ hw'.ch = h.ch
           /\ replies' \in Seq(Reply)
           /\ api_queue' \in Seq(Cmd) /\ evt_queue' \in Seq(Cmd)
           /\ running' \in BOOLEAN
  <1> DEFINE raised == IF h.raised
                       THEN <<Node("EVT", "SNAPSHOT_DONE", {}, HAL)>>
                       ELSE <<>>
  <1>1. raised \in Seq(Cmd)
    BY SnapshotDoneType
  <1>2. /\ m_state' = s /\ hw' = [h EXCEPT !.raised = FALSE]
        /\ replies' = rs /\ running' = running
        /\ IF api_queue # <<>>
           THEN api_queue' = Tail(api_queue) /\ evt_queue' = evt_queue \o raised
           ELSE /\ evt_queue' = Tail(evt_queue) \o raised
                /\ api_queue' = api_queue
    BY DEF Finish
  <1> HIDE DEF raised
  <1>3. hw' \in Hardware /\ hw'.ch = h.ch
    BY <1>2 DEF Hardware
  <1>4. api_queue \in Seq(Cmd) /\ evt_queue \in Seq(Cmd) /\ running \in BOOLEAN
    BY DEF SmTypeOK
  <1>5. CASE api_queue # <<>>
    <2>1. Tail(api_queue) \in Seq(Cmd)
      BY <1>4, <1>5, HeadTailProperties
    <2>2. evt_queue \o raised \in Seq(Cmd)
      BY <1>1, <1>4, ConcatProperties
    <2> QED
      BY <1>2, <1>3, <1>4, <1>5, <2>1, <2>2
  <1>6. CASE api_queue = <<>>
    <2>1. evt_queue # <<>>
      BY <1>6 DEF HasCmd
    <2>2. Tail(evt_queue) \in Seq(Cmd)
      BY <1>4, <2>1, HeadTailProperties
    <2>3. Tail(evt_queue) \o raised \in Seq(Cmd)
      BY <1>1, <2>2, ConcatProperties
    <2> QED
      BY <1>2, <1>3, <1>4, <1>6, <2>3
  <1> QED
    BY <1>5, <1>6

(* A handler that ends well preserves the invariant. *)
LEMMA EndsInv ==
    ASSUME SmTypeOK, HasCmd, Ends, Rest
    PROVE  StepInv
  <1>1. PICK s \in State, h \in Hardware, rs \in Seq(Reply) :
           /\ Finish(s, h, rs)
           /\ s \in RecordingState => h.ch["VIDEO"] = "started"
    BY DEF Ends
  <1>2. /\ m_state' = s
        /\ hw' \in Hardware /\ hw'.ch = h.ch
        /\ replies' \in Seq(Reply)
        /\ api_queue' \in Seq(Cmd) /\ evt_queue' \in Seq(Cmd)
        /\ running' \in BOOLEAN
    BY <1>1, FinishType
  <1>3. SmTypeOK'
    BY <1>2 DEF SmTypeOK, Rest, FrameMsgs
  <1>4. RecordingHasVideo'
    BY <1>1, <1>2 DEF RecordingHasVideo, isRecording, RecordingState
  <1> QED
    BY <1>3, <1>4 DEF StepInv, SmInv, Rest, FrameMsgs

-----------------------------------------------------------------------------
(* The messages *)

(* A handler that leaves the messages alone keeps them. *)
LEMMA MsgsSame ==
    ASSUME SmInv, UNCHANGED msgs
    PROVE  FrameMsgs
  BY DEF SmInv, SmTypeOK, FrameMsgs, KeepsMsgs, DelayedMsgsKept,
         MsgsWanted

(* applyDelayedMsgs delivers what was kept aside. *)
LEMMA MsgsDelayed ==
    ASSUME SmInv, NEW b, DelayedUnless(b)
    PROVE  FrameMsgs
  <1>1. msgs \in Msgs /\ (msgs.delayed => msgs.delay)
    BY DEF SmInv, SmTypeOK, DelayedMsgsKept
  <1>2. CASE b
    <2>1. msgs' = [on |-> msgs.on \/ (msgs.delay /\ msgs.delayed),
                   delay |-> FALSE, delayed |-> msgs.delayed /\ ~ msgs.delay]
      BY <1>2 DEF DelayedUnless, applyDelayedMsgs
    <2> QED
      BY <1>1, <2>1 DEF Msgs, FrameMsgs, KeepsMsgs, DelayedMsgsKept,
         MsgsWanted
  <1>3. CASE ~ b
    BY <1>3, MsgsSame DEF DelayedUnless
  <1> QED
    BY <1>2, <1>3

(* A handler that changes the object only. *)
LEMMA RestSame ==
    ASSUME SmInv, UNCHANGED <<msgs, m_RestoreZSL, live>>
    PROVE  Rest
  BY MsgsSame DEF Rest, SmInv, SmTypeOK

(* A handler that changes the object and the messages. *)
LEMMA RestMsgs ==
    ASSUME SmInv, FrameMsgs, UNCHANGED <<m_RestoreZSL, live>>
    PROVE  Rest
  BY DEF Rest, SmInv, SmTypeOK

-----------------------------------------------------------------------------
(* The forms a handler takes *)

(* An answer is an end; in a recording state VIDEO must stream. *)
LEMMA AnswerEnds ==
    ASSUME SmTypeOK, HasCmd, NEW s \in State, NEW o,
           o.hw \in Hardware, o.rc \in {"OK", "ERR"},
           s \in RecordingState => o.hw.ch["VIDEO"] = "started",
           Answer(s, o)
    PROVE  Ends
  <1>1. Next_cmd.evt \in Evt
    BY NextCmdType DEF Cmd
  <1>2. <<Result("API", Next_cmd.evt, o.rc)>> \in Seq(Reply)
    BY <1>1, OneResultType DEF Status
  <1>3. Finish(s, o.hw, <<Result("API", Next_cmd.evt, o.rc)>>)
    BY DEF Answer
  <1> QED
    BY <1>2, <1>3 DEF Ends

(* In its own state, with the object as it is, a handler may always end. *)
LEMMA SameObjectEnds ==
    ASSUME SmInv, NEW s, NEW E, On(s, E), NEW rs \in Seq(Reply),
           Finish(s, hw, rs)
    PROVE  Ends
  <1>1. s = m_state
    BY OnFacts
  <1>2. s \in State /\ hw \in Hardware
    BY <1>1 DEF SmInv, SmTypeOK
  <1>3. s \in RecordingState => hw.ch["VIDEO"] = "started"
    BY <1>1 DEF SmInv, RecordingHasVideo, isRecording, RecordingState
  <1> QED
    BY <1>2, <1>3 DEF Ends

(* One result of any kind, the object as it is. *)
LEMMA OneResultInv ==
    ASSUME SmInv, NEW s, NEW E, On(s, E), NEW k \in {"API", "EVT"},
           NEW e \in Evt, NEW c \in Status,
           Finish(s, hw, <<Result(k, e, c)>>), Rest
    PROVE  StepInv
  <1>1. SmTypeOK /\ HasCmd
    BY OnFacts DEF SmInv
  <1>2. <<Result(k, e, c)>> \in Seq(Reply)
    BY <1>1, OneResultType
  <1> QED
    BY <1>1, <1>2, SameObjectEnds, EndsInv

(* An answer to the request, the object as it is. *)
LEMMA AnswerSameInv ==
    ASSUME SmInv, NEW s, NEW E, On(s, E), NEW c \in Status,
           Finish(s, hw, <<Result("API", Next_cmd.evt, c)>>), Rest
    PROVE  StepInv
  <1>1. SmTypeOK /\ HasCmd
    BY OnFacts DEF SmInv
  <1>2. Next_cmd.evt \in Evt
    BY <1>1, NextCmdType DEF Cmd
  <1>3. <<Result("API", Next_cmd.evt, c)>> \in Seq(Reply)
    BY <1>1, <1>2, OneResultType
  <1> QED
    BY <1>1, <1>3, SameObjectEnds, EndsInv

(* A refused request. *)
LEMMA RefuseInv ==
    ASSUME SmInv, NEW s, NEW E, Refuse(s, E)
    PROVE  StepInv
  BY AnswerSameInv, RestSame DEF Refuse, Status

(* NO_ERROR, the object as it is. *)
LEMMA AnswerOkInv ==
    ASSUME SmInv, NEW s, NEW E, On(s, E), Answer(s, Ok(hw)), Rest
    PROVE  StepInv
  <1>1. Finish(s, hw, <<Result("API", Next_cmd.evt, "OK")>>)
    BY DEF Answer, Ok
  <1> QED
    BY <1>1, AnswerSameInv DEF Status

(* An acknowledged request. *)
LEMMA AcknowledgeInv ==
    ASSUME SmInv, NEW s, NEW E, Acknowledge(s, E)
    PROVE  StepInv
  BY AnswerOkInv, RestSame DEF Acknowledge

(* An ignored event. *)
LEMMA IgnoreInv ==
    ASSUME SmInv, NEW s, NEW E, Ignore(s, E)
    PROVE  StepInv
  <1>1. <<>> \in Seq(Reply)
    OBVIOUS
  <1>2. On(s, E) /\ Finish(s, hw, <<>>) /\ Rest
    BY RestSame DEF Ignore
  <1> QED
    BY <1>1, <1>2, SameObjectEnds, EndsInv, OnFacts DEF SmInv

(* A handler that stays in a recording state must leave VIDEO alone. *)
LEMMA ApplyInv ==
    ASSUME SmInv, NEW s, NEW E, NEW S, Apply(s, E, S), S \subseteq Outcome,
           s \in RecordingState =>
               \A o \in S : o.hw.ch["VIDEO"] = hw.ch["VIDEO"]
    PROVE  StepInv
  <1>1. PICK o \in S : Answer(s, o)
    BY DEF Apply
  <1>2. On(s, E) /\ Rest
    BY RestSame DEF Apply
  <1>3. s = m_state /\ HasCmd
    BY <1>2, OnFacts
  <1>4. s \in RecordingState => o.hw.ch["VIDEO"] = "started"
    BY <1>3 DEF SmInv, RecordingHasVideo, isRecording, RecordingState
  <1>5. o.hw \in Hardware /\ o.rc \in {"OK", "ERR"} /\ s \in State
    BY <1>3 DEF Outcome, SmInv, SmTypeOK
  <1>6. Ends
    BY <1>1, <1>3, <1>4, <1>5, AnswerEnds DEF SmInv
  <1> QED
    BY <1>2, <1>3, <1>6, EndsInv DEF SmInv

(* A handler that leaves for a state where nothing is recorded. *)
LEMMA AnswerOutInv ==
    ASSUME SmInv, HasCmd, NEW s \in State \ RecordingState, NEW o,
           o.hw \in Hardware, o.rc \in {"OK", "ERR"}, Answer(s, o), Rest
    PROVE  StepInv
  BY AnswerEnds, EndsInv DEF SmInv

(* The same for an end with any results. *)
LEMMA FinishOutInv ==
    ASSUME SmInv, HasCmd, NEW s \in State \ RecordingState,
           NEW h \in Hardware, NEW rs \in Seq(Reply), Finish(s, h, rs), Rest
    PROVE  StepInv
  BY EndsInv DEF SmInv, Ends

(* The outcomes of BringUp. *)
BroughtUp == [rc : {"OK", "ERR"}, hw : Hardware, prepared : BOOLEAN]

(* Whatever BringUp does, it returns a code and an object. *)
LEMMA BringUpType ==
    ASSUME NEW h \in Hardware, NEW cap, NEW undo, NEW o \in BringUp(h, cap, undo)
    PROVE  o \in BroughtUp /\ o.rc \in {"OK", "ERR"} /\ o.hw \in Hardware
  <1>1. PICK q \in preparePreview(h, cap) :
           o \in IF q.rc = "ERR"
                 THEN {[rc |-> "ERR", hw |-> q.hw, prepared |-> FALSE]}
                 ELSE {[rc |-> s.rc, prepared |-> TRUE,
                        hw |-> IF s.rc = "ERR" /\ undo
                               THEN unpreparePreview(s.hw) ELSE s.hw] :
                          s \in startPreview(q.hw)}
    BY DEF BringUp
  <1>2. q.hw \in Hardware
    BY PreparePreviewType DEF Outcome
  <1>3. CASE q.rc = "ERR"
    <2>1. o = [rc |-> "ERR", hw |-> q.hw, prepared |-> FALSE]
      BY <1>1, <1>3
    <2> QED
      BY <1>2, <2>1 DEF BroughtUp
  <1>4. CASE q.rc # "ERR"
    <2>1. PICK s \in startPreview(q.hw) :
             o = [rc |-> s.rc, prepared |-> TRUE,
                  hw |-> IF s.rc = "ERR" /\ undo THEN unpreparePreview(s.hw)
                         ELSE s.hw]
      BY <1>1, <1>4
    <2>2. s.rc \in {"OK", "ERR"} /\ s.hw \in Hardware
      BY <1>2, StartPreviewType DEF Outcome
    <2> QED
      BY <2>1, <2>2, StopPreviewType DEF BroughtUp
  <1> QED
    BY <1>3, <1>4

(* The handlers shared by several states. *)
LEMMA EnableMsgInv ==
    ASSUME SmInv, NEW s, EnableMsg(s)
    PROVE  StepInv
  <1>1. FrameMsgs
    BY DEF EnableMsg, SmInv, SmTypeOK, FrameMsgs, KeepsMsgs, DelayedMsgsKept,
           MsgsWanted, Msgs
  <1> QED
    BY <1>1, RestMsgs, AnswerOkInv DEF EnableMsg

(* The only handler that may take back a wanted message. *)
LEMMA DisableMsgInv ==
    ASSUME SmInv, NEW s, DisableMsg(s)
    PROVE  StepInv
  <1>1. Next_cmd.evt = "DISABLE_MSG_TYPE"
    BY OnFacts DEF DisableMsg
  <1>2. FrameMsgs
    BY <1>1 DEF DisableMsg, SmInv, SmTypeOK, FrameMsgs, KeepsMsgs, DelayedMsgsKept,
                MsgsWanted, Msgs
  <1> QED
    BY <1>2, RestMsgs, AnswerOkInv DEF DisableMsg

(* Parameters that are read change no channel. *)
LEMMA SetParamsInv ==
    ASSUME SmInv, NEW s, SetParams(s)
    PROVE  StepInv
  <1>1. \A o \in updateParameters(hw, Next_cmd.arg) :
           o \in Outcome /\ o.hw.ch = hw.ch
    BY UpdateParametersType DEF SmInv, SmTypeOK
  <1> QED
    BY <1>1, ApplyInv DEF SetParams

(* Parameters that come into force change no channel. *)
LEMMA CommitParamsInv ==
    ASSUME SmInv, NEW s, CommitParams(s)
    PROVE  StepInv
  <1>1. \A o \in commitParameterChanges(hw) : o \in Outcome /\ o.hw.ch = hw.ch
    BY CommitType DEF SmInv, SmTypeOK
  <1> QED
    BY <1>1, ApplyInv DEF CommitParams

(* Neither does a restart that is forgotten. *)
LEMMA ForgetRestartInv ==
    ASSUME SmInv, NEW s, ForgetRestart(s)
    PROVE  StepInv
  <1> DEFINE h == [hw EXCEPT !.needRestart = FALSE]
  <1>1. h \in Hardware /\ h.ch = hw.ch
    BY DEF SmInv, SmTypeOK, Hardware
  <1>2. Ok(h) \in Outcome /\ Ok(h).hw = h
    BY <1>1, OutcomeType
  <1>3. Apply(s, {"SET_PARAMS_RESTART"}, {Ok(h)})
    BY DEF ForgetRestart
  <1> HIDE DEF h
  <1> QED
    BY <1>1, <1>2, <1>3, ApplyInv

(* The end of a snapshot when nothing has to be done. *)
LEMMA EvtDoneInv ==
    ASSUME SmInv, NEW s, EvtDone(s)
    PROVE  StepInv
  BY OneResultInv, RestSame DEF EvtDone, Evt, InternalEvt, Status

(* The two results that the death of the daemon produces. *)
LEMMA DaemonDiedInv ==
    ASSUME SmInv, NEW s, DaemonDied(s)
    PROVE  StepInv
  <1>1. On(s, {"DAEMON_DIED"}) /\ Rest
    BY RestSame DEF DaemonDied
  <1>2. SmTypeOK /\ HasCmd
    BY <1>1, OnFacts DEF SmInv
  <1>3. /\ Result("API", "PREPARE_SNAPSHOT", "OK") \in Reply
        /\ Result("API", "TAKE_PICTURE", "OK") \in Reply
    BY <1>2, ResultType DEF Evt, ApiEvt, Status
  <1>4. <<Result("API", "PREPARE_SNAPSHOT", "OK"),
          Result("API", "TAKE_PICTURE", "OK")>> \in Seq(Reply)
    BY <1>3
  <1> QED
    BY <1>1, <1>2, <1>4, SameObjectEnds, EndsInv DEF DaemonDied

-----------------------------------------------------------------------------
(* QCAMERA_SM_STATE_PREVIEW_STOPPED *)

(* The object before a handler. *)
LEMMA HwType ==
    ASSUME SmInv
    PROVE  hw \in Hardware /\ m_state \in State /\ SmTypeOK
  BY DEF SmInv, SmTypeOK

(* AnswerOutInv for an end in one of two states. *)
LEMMA AnswerEitherInv ==
    ASSUME SmInv, NEW s, NEW E, On(s, E),
           NEW a \in State \ RecordingState, NEW b \in State \ RecordingState,
           NEW q, NEW o, o.hw \in Hardware, o.rc \in {"OK", "ERR"},
           Answer(IF q THEN a ELSE b, o), Rest
    PROVE  StepInv
  <1>1. (IF q THEN a ELSE b) \in State \ RecordingState
    OBVIOUS
  <1> QED
    BY <1>1, AnswerOutInv, OnFacts

(* NO_ERROR with a new object, in a state that records nothing. *)
LEMMA AnswerOkOutInv ==
    ASSUME SmInv, NEW s, NEW E, On(s, E), NEW t \in State \ RecordingState,
           NEW h \in Hardware, Answer(t, Ok(h)), Rest
    PROVE  StepInv
  BY OutcomeType, AnswerOutInv, OnFacts

(* The states that record nothing. *)
LEMMA QuietStates ==
    /\ "PREVIEW_STOPPED" \in State \ RecordingState
    /\ "PREVIEW_READY" \in State \ RecordingState
    /\ "PREVIEWING" \in State \ RecordingState
    /\ "PREPARE_SNAPSHOT" \in State \ RecordingState
    /\ "PIC_TAKING" \in State \ RecordingState
    /\ "PREVIEW_PIC_TAKING" \in State \ RecordingState
  BY DEF State, RecordingState

(* Outcomes that a handler outside the recording states applies. *)
LEMMA ApplyOutInv ==
    ASSUME SmInv, NEW s \in State \ RecordingState, NEW E, NEW S,
           Apply(s, E, S), S \subseteq Outcome
    PROVE  StepInv
  BY ApplyInv

(* The window comes or goes. *)
LEMMA WindowType ==
    ASSUME NEW h \in Hardware, NEW b \in BOOLEAN
    PROVE  [h EXCEPT !.window = b] \in Hardware
  BY DEF Hardware

(* m_bNeedRestart is cleared whatever the outcome. *)
LEMMA NeedRestartType ==
    /\ \A o \in Outcome :
          /\ [o EXCEPT !.hw.needRestart = FALSE].rc = o.rc
          /\ [o EXCEPT !.hw.needRestart = FALSE].hw \in Hardware
          /\ [o EXCEPT !.hw.needRestart = FALSE].hw.ch = o.hw.ch
    /\ \A o \in BroughtUp :
          /\ [o EXCEPT !.hw.needRestart = FALSE].rc = o.rc
          /\ [o EXCEPT !.hw.needRestart = FALSE].hw \in Hardware
  BY DEF Outcome, BroughtUp, Hardware

(* Every handler of QCAMERA_SM_STATE_PREVIEW_STOPPED. *)
LEMMA StoppedInv ==
    ASSUME SmInv, procEvtPreviewStoppedState
    PROVE  StepInv
  <1>1. CASE StoppedInitFailed
    BY <1>1, ApplyOutInv, QuietStates, HwType, MayErrType DEF StoppedInitFailed
  <1>2. CASE StoppedAcknowledged
    BY <1>2, AcknowledgeInv DEF StoppedAcknowledged
  <1>3. CASE StoppedRefused
    BY <1>3, RefuseInv DEF StoppedRefused
  <1>4. CASE StoppedSetWindow
    <2> DEFINE w == "window" \in Next_cmd.arg
    <2>1. w \in BOOLEAN
      OBVIOUS
    <2>2. Apply("PREVIEW_STOPPED", {"SET_PREVIEW_WINDOW"},
                {Ok([hw EXCEPT !.window = w])})
      BY <1>4 DEF StoppedSetWindow
    <2> HIDE DEF w
    <2>3. [hw EXCEPT !.window = w] \in Hardware
      BY <2>1, WindowType, HwType
    <2> QED
      BY <2>2, <2>3, OutcomeType, ApplyOutInv, QuietStates
  <1>5. CASE StoppedPrepare
    <2>1. PICK o \in preparePreview(hw, FALSE) :
             Answer(IF o.rc = "OK" THEN "PREVIEW_READY" ELSE m_state, o)
      BY <1>5 DEF StoppedPrepare
    <2>2. PICK E : On("PREVIEW_STOPPED", E)
      BY <1>5 DEF StoppedPrepare
    <2>3. m_state = "PREVIEW_STOPPED"
      BY <2>2, OnFacts
    <2>4. o.rc \in {"OK", "ERR"} /\ o.hw \in Hardware
      <3>1. o \in Outcome
        BY PreparePreviewType, HwType
      <3> QED
        BY <3>1 DEF Outcome
    <2>5. Rest
      BY <1>5, RestSame DEF StoppedPrepare
    <2>6. Answer(IF o.rc = "OK" THEN "PREVIEW_READY" ELSE "PREVIEW_STOPPED", o)
      BY <2>1, <2>3
    <2> QED
      BY <2>2, <2>4, <2>5, <2>6, AnswerEitherInv, QuietStates
  <1>6. CASE StoppedStart
    <2>1. PICK o \in BringUp(hw, FALSE, TRUE) :
             /\ Answer(IF o.rc = "OK" THEN "PREVIEWING" ELSE m_state, o)
             /\ DelayedUnless(o.prepared)
      BY <1>6 DEF StoppedStart
    <2>2. PICK E : On("PREVIEW_STOPPED", E)
      BY <1>6 DEF StoppedStart
    <2>3. m_state = "PREVIEW_STOPPED"
      BY <2>2, OnFacts
    <2>4. o.rc \in {"OK", "ERR"} /\ o.hw \in Hardware
      BY BringUpType, HwType
    <2>5. Rest
      BY <1>6, <2>1, MsgsDelayed, RestMsgs DEF StoppedStart
    <2>6. Answer(IF o.rc = "OK" THEN "PREVIEWING" ELSE "PREVIEW_STOPPED", o)
      BY <2>1, <2>3
    <2> QED
      BY <2>2, <2>4, <2>5, <2>6, AnswerEitherInv, QuietStates
  <1>7. CASE StoppedRelease
    <2>1. releaseChannels(hw) \in Hardware
      BY DelChannelsType, HwType DEF releaseChannels
    <2> QED
      BY <1>7, <2>1, OutcomeType, ApplyOutInv, QuietStates DEF StoppedRelease
  <1>8. CASE StoppedSendCommand
    BY <1>8, SendCommandType, HwType, ApplyOutInv, QuietStates
       DEF StoppedSendCommand
  <1>9. CASE EnableMsg("PREVIEW_STOPPED") \/ DisableMsg("PREVIEW_STOPPED")
    BY <1>9, EnableMsgInv, DisableMsgInv
  <1>10. CASE \/ SetParams("PREVIEW_STOPPED") \/ CommitParams("PREVIEW_STOPPED")
              \/ ForgetRestart("PREVIEW_STOPPED") \/ EvtDone("PREVIEW_STOPPED")
    BY <1>10, SetParamsInv, CommitParamsInv, ForgetRestartInv, EvtDoneInv
  <1>11. CASE Ignore("PREVIEW_STOPPED",
                     {"STOP_CAPTURE_CHANNEL", "PREP_SNAPSHOT_DONE",
                      "READY_FOR_SNAPSHOT", "DAEMON_DIED"})
    BY <1>11, IgnoreInv
  <1> QED
    BY <1>1, <1>2, <1>3, <1>4, <1>5, <1>6, <1>7, <1>8, <1>9, <1>10, <1>11
       DEF procEvtPreviewStoppedState

-----------------------------------------------------------------------------
(* QCAMERA_SM_STATE_PREVIEW_READY *)

(* unpreparePreview as an outcome. *)
LEMMA UnprepareOkType ==
    ASSUME NEW h \in Hardware
    PROVE  /\ Ok(unpreparePreview(h)) \in Outcome
           /\ Ok(stopPreview(h)) \in Outcome
  BY StopPreviewType, OutcomeType

(* startPreview, undone when it failed, as an outcome. *)
LEMMA ReadyStartedType ==
    ASSUME NEW h \in Hardware, NEW o \in ReadyStarted(h)
    PROVE  o \in Outcome /\ o.rc \in {"OK", "ERR"} /\ o.hw \in Hardware
  <1>1. PICK q \in startPreview(h) :
           o = IF q.rc = "OK" THEN q ELSE Err(unpreparePreview(q.hw))
    BY DEF ReadyStarted
  <1>2. q \in Outcome
    BY StartPreviewType
  <1>3. q.hw \in Hardware
    BY <1>2 DEF Outcome
  <1>4. o \in Outcome
    BY <1>1, <1>2, <1>3, StopPreviewType, OutcomeType
  <1> QED
    BY <1>4 DEF Outcome

(* The window arrives and preview starts, or not. *)
LEMMA ReadySetWindowInv ==
    ASSUME SmInv, ReadySetWindow
    PROVE  StepInv
  <1> DEFINE w == "window" \in Next_cmd.arg
             h == [hw EXCEPT !.window = w]
  <1>1. w \in BOOLEAN
    OBVIOUS
  <1>2. /\ On("PREVIEW_READY", {"SET_PREVIEW_WINDOW"})
        /\ IF w
           THEN /\ \E o \in ReadyStarted(h) : Answer(AfterStart(o.rc), o)
                /\ DelayedUnless(TRUE)
           ELSE Answer("PREVIEW_READY", Ok(h)) /\ UNCHANGED msgs
        /\ UNCHANGED <<m_RestoreZSL, live>>
    BY DEF ReadySetWindow
  <1>3. h \in Hardware
    <2> HIDE DEF w
    <2> QED
      BY <1>1, WindowType, HwType
  <1> HIDE DEF w, h
  <1>4. CASE w
    <2>1. PICK o \in ReadyStarted(h) : Answer(AfterStart(o.rc), o)
      BY <1>2, <1>4
    <2>2. o.rc \in {"OK", "ERR"} /\ o.hw \in Hardware
      BY <1>3, ReadyStartedType
    <2>3. Rest
      BY <1>2, <1>4, MsgsDelayed, RestMsgs
    <2> QED
      BY <1>2, <2>1, <2>2, <2>3, AnswerEitherInv, QuietStates DEF AfterStart
  <1>5. CASE ~ w
    BY <1>2, <1>3, <1>5, RestSame, AnswerOkOutInv, QuietStates
  <1> QED
    BY <1>4, <1>5

(* START_PREVIEW, whose answer does not tell a failed start. *)
LEMMA ReadyStartInv ==
    ASSUME SmInv, ReadyStart
    PROVE  StepInv
  <1>1. PICK o \in ReadyStarted(hw) : Answer(AfterStart(o.rc), Ok(o.hw))
    BY DEF ReadyStart
  <1>2. PICK E : On("PREVIEW_READY", E)
    BY DEF ReadyStart
  <1>3. o.hw \in Hardware
    BY ReadyStartedType, HwType
  <1>4. /\ Ok(o.hw).hw \in Hardware /\ Ok(o.hw).rc \in {"OK", "ERR"}
    BY <1>3, OutcomeType
  <1>5. Rest
    BY RestSame DEF ReadyStart
  <1> QED
    BY <1>1, <1>2, <1>4, <1>5, AnswerEitherInv, QuietStates DEF AfterStart

(* Preview prepared again with new parameters. *)
LEMMA ReadyParamsRestartInv ==
    ASSUME SmInv, ReadyParamsRestart
    PROVE  StepInv
  <1>1. PICK o \in preparePreview(hw, FALSE) :
           Answer(IF o.rc = "OK" THEN "PREVIEW_READY" ELSE "PREVIEW_STOPPED",
                  [o EXCEPT !.hw.needRestart = FALSE])
    BY DEF ReadyParamsRestart
  <1>2. o \in Outcome
    BY PreparePreviewType, HwType
  <1>3. o.rc \in {"OK", "ERR"}
    BY <1>2 DEF Outcome
  <1> DEFINE q == [o EXCEPT !.hw.needRestart = FALSE]
  <1>4. q.hw \in Hardware /\ q.rc \in {"OK", "ERR"}
    BY <1>2, <1>3, NeedRestartType
  <1>5. Rest /\ On("PREVIEW_READY", {"SET_PARAMS_RESTART"})
    BY RestSame DEF ReadyParamsRestart
  <1> HIDE DEF q
  <1> QED
    BY <1>1, <1>4, <1>5, AnswerEitherInv, QuietStates DEF q

(* Every handler of QCAMERA_SM_STATE_PREVIEW_READY. *)
LEMMA ReadyInv ==
    ASSUME SmInv, procEvtPreviewReadyState
    PROVE  StepInv
  <1>1. CASE ReadyAcknowledged
    BY <1>1, AcknowledgeInv DEF ReadyAcknowledged
  <1>2. CASE ReadyRefused
    BY <1>2, RefuseInv DEF ReadyRefused
  <1>3. CASE ReadySetWindow \/ ReadyStart \/ ReadyParamsRestart
    BY <1>3, ReadySetWindowInv, ReadyStartInv, ReadyParamsRestartInv
  <1>4. CASE ReadyStartWithoutWindow
    BY <1>4, AnswerOkInv, RestSame DEF ReadyStartWithoutWindow
  <1>5. CASE ReadyStop
    BY <1>5, StopPreviewType, HwType, AnswerOkOutInv, RestSame, QuietStates
       DEF ReadyStop
  <1>6. CASE ReadyParamsStop
    BY <1>6, UnprepareOkType, HwType, ApplyOutInv, QuietStates
       DEF ReadyParamsStop
  <1>7. CASE ReadySendCommand
    BY <1>7, SendCommandType, HwType, ApplyOutInv, QuietStates
       DEF ReadySendCommand
  <1>8. CASE EnableMsg("PREVIEW_READY") \/ DisableMsg("PREVIEW_READY")
    BY <1>8, EnableMsgInv, DisableMsgInv
  <1>9. CASE \/ SetParams("PREVIEW_READY") \/ CommitParams("PREVIEW_READY")
             \/ EvtDone("PREVIEW_READY")
    BY <1>9, SetParamsInv, CommitParamsInv, EvtDoneInv
  <1>10. CASE Ignore("PREVIEW_READY",
                     {"STOP_CAPTURE_CHANNEL", "PREP_SNAPSHOT_DONE",
                      "READY_FOR_SNAPSHOT", "DAEMON_DIED"})
    BY <1>10, IgnoreInv
  <1> QED
    BY <1>1, <1>2, <1>3, <1>4, <1>5, <1>6, <1>7, <1>8, <1>9, <1>10
       DEF procEvtPreviewReadyState

-----------------------------------------------------------------------------
(* QCAMERA_SM_STATE_PREVIEWING *)

(* Messages asked for now, kept aside for later, or not wanted any more.  *)
LEMMA PreviewingMsgsInv ==
    ASSUME SmInv, PreviewingEnableMsg \/ PreviewingDisableMsg
    PROVE  StepInv
  <1>1. msgs \in Msgs /\ (msgs.delayed => msgs.delay)
    BY DEF SmInv, SmTypeOK, DelayedMsgsKept
  <1>2. CASE PreviewingEnableMsg
    <2>1. FrameMsgs
      BY <1>1, <1>2 DEF PreviewingEnableMsg, FrameMsgs, KeepsMsgs, DelayedMsgsKept,
                        MsgsWanted, Msgs
    <2> QED
      BY <1>2, <2>1, RestMsgs, AnswerOkInv DEF PreviewingEnableMsg
  <1>3. CASE PreviewingDisableMsg
    <2>1. Next_cmd.evt = "DISABLE_MSG_TYPE"
      BY <1>3, OnFacts DEF PreviewingDisableMsg
    <2>2. msgs' = [on |-> FALSE, delay |-> msgs.delay /\ ~ msgs.delayed,
                   delayed |-> msgs.delayed /\ ~ msgs.delay]
      BY <1>3 DEF PreviewingDisableMsg
    <2>3. FrameMsgs
      BY <1>1, <2>1, <2>2 DEF FrameMsgs, KeepsMsgs, DelayedMsgsKept,
         MsgsWanted, Msgs
    <2> QED
      BY <1>3, <2>3, RestMsgs, AnswerOkInv DEF PreviewingDisableMsg
  <1> QED
    BY <1>2, <1>3

(* Preview is brought up again, and nobody minds whether it was.          *)
LEMMA PreviewingParamsRestartInv ==
    ASSUME SmInv, PreviewingParamsRestart
    PROVE  StepInv
  <1>1. PICK o \in BringUp(hw, FALSE, TRUE) :
           /\ Answer(IF o.prepared THEN AfterStart(o.rc) ELSE "PREVIEWING",
                     [o EXCEPT !.hw.needRestart = FALSE])
           /\ DelayedUnless(o.prepared)
    BY DEF PreviewingParamsRestart
  <1>2. o \in BroughtUp /\ o.rc \in {"OK", "ERR"}
    BY BringUpType, HwType
  <1> DEFINE q == [o EXCEPT !.hw.needRestart = FALSE]
             t == IF o.prepared THEN AfterStart(o.rc) ELSE "PREVIEWING"
  <1>3. q.hw \in Hardware /\ q.rc \in {"OK", "ERR"}
    BY <1>2, NeedRestartType
  <1>4. t \in State \ RecordingState
    BY QuietStates DEF AfterStart
  <1>5. Rest
    BY <1>1, MsgsDelayed, RestMsgs DEF PreviewingParamsRestart
  <1>6. HasCmd
    BY OnFacts DEF PreviewingParamsRestart
  <1>7. Answer(t, q)
    BY <1>1
  <1> HIDE DEF q, t
  <1> QED
    BY <1>3, <1>4, <1>5, <1>6, <1>7, AnswerOutInv

(* START_RECORDING: the state is RECORDING only if the channel streams.   *)
LEMMA PreviewingStartRecordingInv ==
    ASSUME SmInv, PreviewingStartRecording
    PROVE  StepInv
  <1>1. PICK o \in startRecording(hw) :
           /\ Answer(IF o.rc = "OK" THEN "RECORDING" ELSE "PREVIEWING", o)
           /\ DelayedUnless(o.rc = "OK")
    BY DEF PreviewingStartRecording
  <1>2. o \in Outcome /\ (o.rc = "OK" => o.hw.ch["VIDEO"] = "started")
    BY StartRecordingType, HwType
  <1>3. o.rc \in {"OK", "ERR"} /\ o.hw \in Hardware
    BY <1>2 DEF Outcome
  <1>4. Rest
    BY <1>1, MsgsDelayed, RestMsgs DEF PreviewingStartRecording
  <1>5. HasCmd
    BY OnFacts DEF PreviewingStartRecording
  <1>6. CASE o.rc = "OK"
    <2>1. Answer("RECORDING", o) /\ "RECORDING" \in State
      BY <1>1, <1>6 DEF State
    <2>2. Ends
      BY <1>2, <1>3, <1>5, <1>6, <2>1, AnswerEnds, HwType
    <2> QED
      BY <1>4, <1>5, <2>2, EndsInv, HwType
  <1>7. CASE o.rc # "OK"
    BY <1>1, <1>3, <1>4, <1>5, <1>7, AnswerOutInv, QuietStates
  <1> QED
    BY <1>6, <1>7

(* The flash is prepared: a deferred result or an error. *)
LEMMA PreviewingPrepareSnapshotInv ==
    ASSUME SmInv, PreviewingPrepareSnapshot
    PROVE  StepInv
  <1>1. HasCmd
    BY OnFacts DEF PreviewingPrepareSnapshot
  <1>2. CASE Finish("PREPARE_SNAPSHOT", hw, <<>>) /\ DelayedUnless(TRUE)
    <2>1. Rest
      BY <1>2, MsgsDelayed, RestMsgs DEF PreviewingPrepareSnapshot
    <2>2. <<>> \in Seq(Reply)
      OBVIOUS
    <2> QED
      BY <1>1, <1>2, <2>1, <2>2, FinishOutInv, QuietStates, HwType
  <1>3. CASE (\E o \in MayErr({hw}) : Answer("PREVIEWING", o)) /\ UNCHANGED msgs
    <2>1. PICK o \in MayErr({hw}) : Answer("PREVIEWING", o)
      BY <1>3
    <2>2. o \in Outcome
      BY MayErrType, HwType
    <2>3. o.rc \in {"OK", "ERR"} /\ o.hw \in Hardware
      BY <2>2 DEF Outcome
    <2>4. Rest
      BY <1>3, RestSame DEF PreviewingPrepareSnapshot
    <2> QED
      BY <1>1, <2>1, <2>3, <2>4, AnswerOutInv, QuietStates
  <1> QED
    BY <1>2, <1>3 DEF PreviewingPrepareSnapshot

(* TAKE_PICTURE, in each of its three ways. *)
LEMMA WithoutHintType ==
    ASSUME NEW h \in Hardware
    PROVE  WithoutHint(h) \subseteq Hardware
  <1>1. CASE ~ h.p.hint
    BY <1>1 DEF WithoutHint
  <1>2. CASE h.p.hint
    <2>1. updateRecordingHintValue(stopPreview(h), FALSE) \subseteq Hardware
      BY StopPreviewType, UpdateValueType
    <2>2. \A g \in updateRecordingHintValue(stopPreview(h), FALSE) :
             \A o \in prepareStartOrUndo(g, FALSE) : o \in Outcome
      BY <2>1, PrepareStartOrUndoType
    <2>3. \A g \in updateRecordingHintValue(stopPreview(h), FALSE) :
             \A o \in prepareStartOrUndo(g, FALSE) : o.hw \in Hardware
      BY <2>2 DEF Outcome
    <2>4. WithoutHint(h) = {o.hw : o \in UNION {prepareStartOrUndo(g, FALSE) :
             g \in updateRecordingHintValue(stopPreview(h), FALSE)}}
      BY <1>2 DEF WithoutHint
    <2> QED
      BY <2>3, <2>4
  <1> QED
    BY <1>1, <1>2

(* The capture was started: a result now, or later for a retro picture.   *)
LEMMA TakenInv ==
    ASSUME SmInv, NEW h \in Hardware, NEW o \in takePicture(h),
           NEW E, On("PREVIEWING", E), NEW s \in State \ RecordingState, Rest,
           IF o.rc = "OK" /\ o.hw.retro THEN Finish(s, o.hw, <<>>)
           ELSE Answer(IF o.rc = "OK" THEN s ELSE "PREVIEWING", o)
    PROVE  StepInv
  <1>1. o \in Outcome
    BY TakePictureType
  <1>2. o.rc \in {"OK", "ERR"} /\ o.hw \in Hardware
    BY <1>1 DEF Outcome
  <1>3. CASE o.rc = "OK" /\ o.hw.retro
    <2>1. <<>> \in Seq(Reply) /\ HasCmd
      BY OnFacts
    <2> QED
      BY <1>2, <1>3, <2>1, FinishOutInv
  <1>4. CASE ~ (o.rc = "OK" /\ o.hw.retro)
    BY <1>2, <1>4, AnswerEitherInv, QuietStates
  <1> QED
    BY <1>3, <1>4

(* From TAKE_PICTURE on, messages are kept aside. *)
LEMMA MsgsDelay ==
    ASSUME SmInv, msgs' = [msgs EXCEPT !.delay = TRUE]
    PROVE  FrameMsgs
  BY DEF SmInv, SmTypeOK, FrameMsgs, KeepsMsgs, DelayedMsgsKept,
         MsgsWanted, Msgs

(* A ZSL picture. *)
LEMMA PreviewingTakeZslInv ==
    ASSUME SmInv, PreviewingTakeZsl
    PROVE  StepInv
  <1>1. PICK h \in WithoutHint(hw) : \E o \in takePicture(h) :
           IF o.rc = "OK" /\ o.hw.retro
           THEN Finish("PREVIEW_PIC_TAKING", o.hw, <<>>)
           ELSE Answer(IF o.rc = "OK" THEN "PREVIEW_PIC_TAKING"
                       ELSE "PREVIEWING", o)
    BY DEF PreviewingTakeZsl
  <1>2. h \in Hardware
    BY WithoutHintType, HwType
  <1>3. Rest /\ On("PREVIEWING", {"TAKE_PICTURE"})
    BY MsgsDelay, RestMsgs DEF PreviewingTakeZsl
  <1> QED
    BY <1>1, <1>2, <1>3, TakenInv, QuietStates

(* A picture that needs another mode first. *)
LEMMA PreviewingTakeRestartInv ==
    ASSUME SmInv, PreviewingTakeRestart
    PROVE  StepInv
  <1>1. PICK h \in WithoutHint(hw) :
             \E g \in updateZSLModeValue(stopPreview(h), FALSE) :
             \E o \in takePicture(g) :
                IF o.rc = "OK" /\ o.hw.retro
                THEN Finish("PIC_TAKING", o.hw, <<>>)
                ELSE Answer(IF o.rc = "OK" THEN "PIC_TAKING"
                            ELSE "PREVIEWING", o)
    BY DEF PreviewingTakeRestart
  <1>2. h \in Hardware
    BY WithoutHintType, HwType
  <1>3. PICK g \in updateZSLModeValue(stopPreview(h), FALSE) :
             \E o \in takePicture(g) :
                IF o.rc = "OK" /\ o.hw.retro
                THEN Finish("PIC_TAKING", o.hw, <<>>)
                ELSE Answer(IF o.rc = "OK" THEN "PIC_TAKING"
                            ELSE "PREVIEWING", o)
    BY <1>1
  <1>4. g \in Hardware
    BY <1>2, StopPreviewType, UpdateValueType
  <1>5. Rest /\ On("PREVIEWING", {"TAKE_PICTURE"})
    BY MsgsDelay DEF PreviewingTakeRestart, Rest, SmInv, SmTypeOK
  <1> QED
    BY <1>3, <1>4, <1>5, TakenInv, QuietStates

(* A regular picture; its failure brings preview back. *)
LEMMA PreviewingTakeRegularInv ==
    ASSUME SmInv, PreviewingTakeRegular
    PROVE  StepInv
  <1> DEFINE Taken(o) ==
               IF o.rc = "OK" THEN Answer("PIC_TAKING", o)
               ELSE \E b \in prepareStartOrUndo(stopPreview(o.hw), TRUE) :
                       Answer(AfterStart(b.rc), Err(b.hw))
  <1>0. PICK h \in WithoutHint(hw) : \E o \in takePicture(h) : Taken(o)
    BY DEF PreviewingTakeRegular
  <1>1. PICK o \in takePicture(h) : Taken(o)
    BY <1>0
  <1>2. h \in Hardware
    BY WithoutHintType, HwType
  <1>3. o \in Outcome
    BY <1>2, TakePictureType
  <1>4. o.rc \in {"OK", "ERR"} /\ o.hw \in Hardware
    BY <1>3 DEF Outcome
  <1>5. Rest /\ On("PREVIEWING", {"TAKE_PICTURE"})
    BY RestSame DEF PreviewingTakeRegular
  <1>6. HasCmd
    BY <1>5, OnFacts
  <1>7. CASE o.rc = "OK"
    BY <1>1, <1>4, <1>5, <1>6, <1>7, AnswerOutInv, QuietStates
  <1>8. CASE o.rc # "OK"
    <2>1. PICK b \in prepareStartOrUndo(stopPreview(o.hw), TRUE) :
             Answer(AfterStart(b.rc), Err(b.hw))
      BY <1>1, <1>8
    <2>2. b \in Outcome
      BY <1>4, StopPreviewType, PrepareStartOrUndoType
    <2>3. b.hw \in Hardware
      BY <2>2 DEF Outcome
    <2>4. Err(b.hw).hw \in Hardware /\ Err(b.hw).rc \in {"OK", "ERR"}
      BY <2>3, OutcomeType
    <2> QED
      BY <1>5, <2>1, <2>4, AnswerEitherInv, QuietStates DEF AfterStart
  <1> QED
    BY <1>7, <1>8

(* Longshot on and off. *)
LEMMA PreviewingSendCommandInv ==
    ASSUME SmInv, PreviewingSendCommand
    PROVE  StepInv
  <1>1. PICK o \in sendCommand(hw, Next_cmd.arg, FALSE) :
           \/ Answer("PREVIEWING", o) /\ UNCHANGED msgs
           \/ \E b \in BringUp(stopPreview(o.hw), FALSE, TRUE) :
                 Answer("PREVIEWING", b) /\ DelayedUnless(b.prepared)
    BY DEF PreviewingSendCommand
  <1>2. o \in Outcome
    BY SendCommandType, HwType
  <1>3. o.rc \in {"OK", "ERR"} /\ o.hw \in Hardware
    BY <1>2 DEF Outcome
  <1>4. HasCmd
    BY OnFacts DEF PreviewingSendCommand
  <1>5. CASE Answer("PREVIEWING", o) /\ UNCHANGED msgs
    <2>1. Rest
      BY <1>5, RestSame DEF PreviewingSendCommand
    <2> QED
      BY <1>3, <1>4, <1>5, <2>1, AnswerOutInv, QuietStates
  <1>6. CASE \E b \in BringUp(stopPreview(o.hw), FALSE, TRUE) :
                Answer("PREVIEWING", b) /\ DelayedUnless(b.prepared)
    <2>1. PICK b \in BringUp(stopPreview(o.hw), FALSE, TRUE) :
             Answer("PREVIEWING", b) /\ DelayedUnless(b.prepared)
      BY <1>6
    <2>2. b.rc \in {"OK", "ERR"} /\ b.hw \in Hardware
      BY <1>3, StopPreviewType, BringUpType
    <2>3. Rest
      BY <2>1, MsgsDelayed, RestMsgs DEF PreviewingSendCommand
    <2> QED
      BY <1>4, <2>1, <2>2, <2>3, AnswerOutInv, QuietStates
  <1> QED
    BY <1>1, <1>5, <1>6

(* Every handler of QCAMERA_SM_STATE_PREVIEWING. *)
LEMMA PreviewingInv ==
    ASSUME SmInv, procEvtPreviewingState
    PROVE  StepInv
  <1>1. CASE PreviewingAcknowledged
    BY <1>1, AcknowledgeInv DEF PreviewingAcknowledged
  <1>2. CASE PreviewingRefused
    BY <1>2, RefuseInv DEF PreviewingRefused
  <1>3. CASE PreviewingEnableMsg \/ PreviewingDisableMsg
    BY <1>3, PreviewingMsgsInv
  <1>4. CASE PreviewingParamsStop
    BY <1>4, UnprepareOkType, HwType, ApplyOutInv, QuietStates
       DEF PreviewingParamsStop
  <1>5. CASE \/ PreviewingParamsRestart \/ PreviewingStartRecording
             \/ PreviewingPrepareSnapshot \/ PreviewingSendCommand
    BY <1>5, PreviewingParamsRestartInv, PreviewingStartRecordingInv,
       PreviewingPrepareSnapshotInv, PreviewingSendCommandInv
  <1>6. CASE PreviewingStartAgain
    BY <1>6, MsgsDelayed, RestMsgs, AnswerOkInv DEF PreviewingStartAgain
  <1>7. CASE PreviewingStop
    <2>1. Rest
      BY <1>7, MsgsDelayed, RestMsgs DEF PreviewingStop
    <2> QED
      BY <1>7, <2>1, StopPreviewType, HwType, AnswerOkOutInv, QuietStates
         DEF PreviewingStop
  <1>8. CASE PreviewingPreStartRecording
    BY <1>8, PreStartRecordingType, HwType, ApplyOutInv, QuietStates
       DEF PreviewingPreStartRecording
  <1>9. CASE PreviewingPreTakePicture
    BY <1>9, PreTakePictureType, HwType, ApplyOutInv, QuietStates
       DEF PreviewingPreTakePicture
  <1>10. CASE PreviewingTakeZsl \/ PreviewingTakeRestart \/ PreviewingTakeRegular
    BY <1>10, PreviewingTakeZslInv, PreviewingTakeRestartInv,
       PreviewingTakeRegularInv
  <1>11. CASE \/ SetParams("PREVIEWING") \/ CommitParams("PREVIEWING")
              \/ EvtDone("PREVIEWING")
    BY <1>11, SetParamsInv, CommitParamsInv, EvtDoneInv
  <1>12. CASE Ignore("PREVIEWING",
                     {"STOP_CAPTURE_CHANNEL", "PREP_SNAPSHOT_DONE",
                      "READY_FOR_SNAPSHOT", "DAEMON_DIED"})
    BY <1>12, IgnoreInv
  <1> QED
    BY <1>1, <1>2, <1>3, <1>4, <1>5, <1>6, <1>7, <1>8, <1>9, <1>10, <1>11,
       <1>12 DEF procEvtPreviewingState

-----------------------------------------------------------------------------
(* QCAMERA_SM_STATE_PREPARE_SNAPSHOT *)

(* Every handler of QCAMERA_SM_STATE_PREPARE_SNAPSHOT. *)
LEMMA PrepareSnapshotInv ==
    ASSUME SmInv, procEvtPrepareSnapshotState
    PROVE  StepInv
  <1>1. CASE PrepareSnapshotRefused
    BY <1>1, RefuseInv DEF PrepareSnapshotRefused
  <1>2. CASE PrepareSnapshotDone
    <2>1. Rest /\ HasCmd
      BY <1>2, RestSame, OnFacts DEF PrepareSnapshotDone
    <2>2. <<Result("API", "PREPARE_SNAPSHOT", "OK")>> \in Seq(Reply)
      BY <2>1, OneResultType, HwType DEF Evt, ApiEvt, Status
    <2> QED
      BY <1>2, <2>1, <2>2, FinishOutInv, QuietStates, HwType
         DEF PrepareSnapshotDone
  <1>3. CASE DaemonDied("PREPARE_SNAPSHOT") \/ EvtDone("PREPARE_SNAPSHOT")
    BY <1>3, DaemonDiedInv, EvtDoneInv
  <1>4. CASE Ignore("PREPARE_SNAPSHOT",
                    {"STOP_CAPTURE_CHANNEL", "READY_FOR_SNAPSHOT"})
    BY <1>4, IgnoreInv
  <1> QED
    BY <1>1, <1>2, <1>3, <1>4 DEF procEvtPrepareSnapshotState

-----------------------------------------------------------------------------
(* QCAMERA_SM_STATE_PIC_TAKING *)

(* cancelPicture, with preview kept or torn down, as an object. *)
LEMMA CancelOkType ==
    ASSUME SmInv
    PROVE  /\ cancelPicture(hw) \in Hardware
           /\ unpreparePreview(cancelPicture(hw)) \in Hardware
           /\ stopPreview(hw) \in Hardware /\ unpreparePreview(hw) \in Hardware
  BY HwType, CancelPictureType, StopPreviewType

(* A longshot command while a capture runs. *)
LEMMA SendCommandInv ==
    ASSUME SmInv, NEW s \in State \ RecordingState, NEW E, On(s, E), Rest,
           NEW o \in sendCommand(hw, Next_cmd.arg, TRUE),
           Answer(AfterCommand(s), o)
    PROVE  StepInv
  <1>1. o \in Outcome
    BY SendCommandType, HwType
  <1>2. o.rc \in {"OK", "ERR"} /\ o.hw \in Hardware
    BY <1>1 DEF Outcome
  <1> QED
    BY <1>2, AnswerEitherInv, QuietStates DEF AfterCommand

(* The requests of a running longshot. *)
LEMMA LongshotInv ==
    ASSUME SmInv, NEW s \in State \ RecordingState,
           LongshotPreTake(s) \/ LongshotTake(s) \/ NotLongshot(s)
    PROVE  StepInv
  <1>1. CASE LongshotPreTake(s)
    <2>1. (IF hw.longshot THEN {Ok(hw)} ELSE {}) \subseteq Outcome
      BY OutcomeType, HwType
    <2> QED
      BY <1>1, <2>1, ApplyOutInv DEF LongshotPreTake
  <1>2. CASE LongshotTake(s)
    <2>1. (IF hw.longshot THEN longShot(hw) ELSE {}) \subseteq Outcome
      BY LongShotType, HwType
    <2> QED
      BY <1>2, <2>1, ApplyOutInv DEF LongshotTake
  <1>3. CASE NotLongshot(s)
    BY <1>3, RefuseInv DEF NotLongshot
  <1> QED
    BY <1>1, <1>2, <1>3

(* The CAPTURE channel is stopped, preview perhaps restarted. *)
LEMMA PicTakingStopCaptureInv ==
    ASSUME SmInv, PicTakingStopCaptureChannel
    PROVE  StepInv
  <1> DEFINE o == stopCaptureChannel(hw)
  <1>1. o \in Outcome
    BY StopChannelType, HwType DEF stopCaptureChannel, Channel
  <1>2. o.rc \in {"OK", "ERR"} /\ o.hw \in Hardware
    <2> HIDE DEF o
    <2> QED
      BY <1>1 DEF Outcome
  <1>3. On("PIC_TAKING", {"STOP_CAPTURE_CHANNEL"})
        /\ UNCHANGED <<m_RestoreZSL, live>>
    BY DEF PicTakingStopCaptureChannel
  <1>4. \/ \E b \in BringUp(o.hw, TRUE, FALSE) :
              Answer("PIC_TAKING", b) /\ DelayedUnless(b.prepared)
        \/ Answer("PIC_TAKING", o) /\ UNCHANGED msgs
    BY DEF PicTakingStopCaptureChannel
  <1> HIDE DEF o
  <1>5. CASE \E b \in BringUp(o.hw, TRUE, FALSE) :
                Answer("PIC_TAKING", b) /\ DelayedUnless(b.prepared)
    <2>1. PICK b \in BringUp(o.hw, TRUE, FALSE) :
             Answer("PIC_TAKING", b) /\ DelayedUnless(b.prepared)
      BY <1>5
    <2>2. b.rc \in {"OK", "ERR"} /\ b.hw \in Hardware
      BY <1>2, BringUpType
    <2>3. Rest
      BY <1>3, <2>1, MsgsDelayed, RestMsgs
    <2> QED
      BY <1>3, <2>1, <2>2, <2>3, AnswerOutInv, OnFacts, QuietStates
  <1>6. CASE Answer("PIC_TAKING", o) /\ UNCHANGED msgs
    BY <1>2, <1>3, <1>6, RestSame, AnswerOutInv, OnFacts, QuietStates
  <1> QED
    BY <1>4, <1>5, <1>6

(* The last picture is there: ZSL or preview comes back. *)
LEMMA PicTakingDoneInv ==
    ASSUME SmInv, PicTakingDone \/ PicTakingDoneRestart
    PROVE  StepInv
  <1>1. HasCmd
    BY OnFacts DEF PicTakingDone, PicTakingDoneRestart
  <1>2. \A c \in {"OK", "ERR"} :
           <<Result("EVT", "SNAPSHOT_DONE", c)>> \in Seq(Reply)
    BY <1>1, OneResultType, HwType DEF Evt, InternalEvt, Status
  <1>3. CASE PicTakingDone
    <2> DEFINE t == IF RestartEnabled THEN "PREVIEWING" ELSE "PREVIEW_STOPPED"
    <2>1. t \in State \ RecordingState
      BY QuietStates
    <2>2. /\ Finish(t, cancelPicture(hw),
                    <<Result("EVT", "SNAPSHOT_DONE", "OK")>>)
          /\ UNCHANGED <<msgs, m_RestoreZSL, live>>
      BY <1>3 DEF PicTakingDone
    <2> HIDE DEF t
    <2> QED
      BY <1>1, <1>2, <2>1, <2>2, RestSame, CancelOkType, FinishOutInv
  <1>4. CASE PicTakingDoneRestart
    <2>1. PICK g \in updateZSLModeValue(cancelPicture(hw), m_RestoreZSL) :
             \E b \in BringUp(g, TRUE, FALSE) :
                /\ Finish("PREVIEWING", b.hw,
                          <<Result("EVT", "SNAPSHOT_DONE", b.rc)>>)
                /\ DelayedUnless(b.prepared)
      BY <1>4 DEF PicTakingDoneRestart
    <2>2. g \in Hardware
      BY CancelOkType, UpdateValueType DEF SmInv, SmTypeOK
    <2>3. PICK b \in BringUp(g, TRUE, FALSE) :
             /\ Finish("PREVIEWING", b.hw,
                       <<Result("EVT", "SNAPSHOT_DONE", b.rc)>>)
             /\ DelayedUnless(b.prepared)
      BY <2>1
    <2>4. b.rc \in {"OK", "ERR"} /\ b.hw \in Hardware
      BY <2>2, BringUpType
    <2>5. Rest
      BY <1>4, <2>3, MsgsDelayed
         DEF PicTakingDoneRestart, Rest, SmInv, SmTypeOK
    <2> QED
      BY <1>1, <1>2, <2>3, <2>4, <2>5, FinishOutInv, QuietStates
  <1> QED
    BY <1>3, <1>4

(* Every handler of QCAMERA_SM_STATE_PIC_TAKING. *)
LEMMA PicTakingInv ==
    ASSUME SmInv, procEvtPicTakingState
    PROVE  StepInv
  <1>1. CASE PicTakingAcknowledged
    BY <1>1, AcknowledgeInv DEF PicTakingAcknowledged
  <1>2. CASE PicTakingRefused
    BY <1>2, RefuseInv DEF PicTakingRefused
  <1>3. CASE PicTakingCancel
    BY <1>3, CancelOkType, AnswerOkOutInv, RestSame, QuietStates
       DEF PicTakingCancel
  <1>4. CASE PicTakingSendCommand
    BY <1>4, SendCommandInv, RestSame, QuietStates DEF PicTakingSendCommand
  <1>5. CASE PicTakingStopCaptureChannel
    BY <1>5, PicTakingStopCaptureInv
  <1>6. CASE PicTakingDone \/ PicTakingDoneRestart
    BY <1>6, PicTakingDoneInv
  <1>7. CASE \/ LongshotPreTake("PIC_TAKING") \/ LongshotTake("PIC_TAKING")
             \/ NotLongshot("PIC_TAKING")
    BY <1>7, LongshotInv, QuietStates
  <1>8. CASE \/ EnableMsg("PIC_TAKING") \/ DisableMsg("PIC_TAKING")
             \/ SetParams("PIC_TAKING") \/ CommitParams("PIC_TAKING")
             \/ ForgetRestart("PIC_TAKING") \/ DaemonDied("PIC_TAKING")
    BY <1>8, EnableMsgInv, DisableMsgInv, SetParamsInv, CommitParamsInv,
       ForgetRestartInv, DaemonDiedInv
  <1>9. CASE Ignore("PIC_TAKING", {"PREP_SNAPSHOT_DONE", "READY_FOR_SNAPSHOT"})
    BY <1>9, IgnoreInv
  <1> QED
    BY <1>1, <1>2, <1>3, <1>4, <1>5, <1>6, <1>7, <1>8, <1>9
       DEF procEvtPicTakingState

-----------------------------------------------------------------------------
(* QCAMERA_SM_STATE_RECORDING and QCAMERA_SM_STATE_VIDEO_PIC_TAKING *)

(* From one recording state to the same or the other, VIDEO untouched.    *)
LEMMA StillRecordingInv ==
    ASSUME SmInv, NEW s \in RecordingState, NEW E, On(s, E),
           NEW t \in RecordingState, NEW o, o.hw \in Hardware,
           o.rc \in {"OK", "ERR"}, o.hw.ch["VIDEO"] = hw.ch["VIDEO"],
           Answer(t, o), Rest
    PROVE  StepInv
  <1>1. m_state = s /\ HasCmd
    BY OnFacts
  <1>2. hw.ch["VIDEO"] = "started"
    BY <1>1 DEF SmInv, RecordingHasVideo, isRecording, RecordingState
  <1>3. t \in State
    BY DEF RecordingState, State
  <1> QED
    BY <1>1, <1>2, <1>3, AnswerEnds, EndsInv, HwType

(* RECORDING is a recording state. *)
LEMMA RecordingStates == "RECORDING" \in RecordingState
                         /\ "VIDEO_PIC_TAKING" \in RecordingState
  BY DEF RecordingState

(* Refused or not, parameters do not touch the channels.                  *)
LEMMA RecordingSetParamsInv ==
    ASSUME SmInv, NEW s \in RecordingState, RecordingSetParams(s)
    PROVE  StepInv
  <1>1. PICK o \in updateParameters(hw, Next_cmd.arg) :
           Answer(s, IF o.rc = "OK" /\ ~ o.hw.needRestart THEN o
                     ELSE Err([o.hw EXCEPT !.needRestart = FALSE]))
    BY DEF RecordingSetParams
  <1>2. o \in Outcome /\ o.hw.ch = hw.ch
    BY UpdateParametersType, HwType
  <1>3. o.rc \in {"OK", "ERR"} /\ o.hw \in Hardware
    BY <1>2 DEF Outcome
  <1>4. Rest /\ On(s, {"SET_PARAMS"})
    BY RestSame DEF RecordingSetParams
  <1>5. CASE o.rc = "OK" /\ ~ o.hw.needRestart
    BY <1>1, <1>2, <1>3, <1>4, <1>5, StillRecordingInv
  <1>6. CASE ~ (o.rc = "OK" /\ ~ o.hw.needRestart)
    <2> DEFINE h == [o.hw EXCEPT !.needRestart = FALSE]
    <2>1. h \in Hardware /\ h.ch = o.hw.ch
      BY <1>3 DEF Hardware
    <2>2. Answer(s, Err(h))
      BY <1>1, <1>6
    <2> HIDE DEF h
    <2>3. Err(h).hw = h /\ Err(h).rc \in {"OK", "ERR"}
      BY <2>1, OutcomeType
    <2> QED
      BY <1>2, <1>4, <2>1, <2>2, <2>3, StillRecordingInv
  <1> QED
    BY <1>5, <1>6

(* A longshot command during a recording keeps VIDEO. *)
LEMMA RecordingSendCommandInv ==
    ASSUME SmInv, RecordingSendCommand \/ VideoPicSendCommand
    PROVE  StepInv
  <1>1. \A cap : \A o \in sendCommand(hw, Next_cmd.arg, cap) :
           o \in Outcome /\ o.hw.ch["VIDEO"] = hw.ch["VIDEO"]
    BY SendCommandType, HwType
  <1> QED
    BY <1>1, ApplyInv DEF RecordingSendCommand, VideoPicSendCommand

(* A live snapshot begins, or its thread cannot be created.               *)
LEMMA RecordingTakePictureInv ==
    ASSUME SmInv, RecordingTakePicture
    PROVE  StepInv
  <1>1. On("RECORDING", {"TAKE_PICTURE"}) /\ UNCHANGED <<msgs, m_RestoreZSL>>
    BY DEF RecordingTakePicture
  <1>2. /\ Ok(hw).hw = hw /\ Ok(hw).rc \in {"OK", "ERR"}
        /\ Err(hw).hw = hw /\ Err(hw).rc \in {"OK", "ERR"}
    BY OutcomeType, HwType
  <1>3. CASE Answer("VIDEO_PIC_TAKING", Ok(hw)) /\ live' = "take"
    <2>1. Rest
      BY <1>1, <1>3, MsgsSame DEF Rest, SmInv, SmTypeOK
    <2> QED
      BY <1>1, <1>2, <1>3, <2>1, StillRecordingInv, RecordingStates, HwType
  <1>4. CASE Answer("RECORDING", Err(hw)) /\ UNCHANGED live
    <2>1. Rest
      BY <1>1, <1>4, RestSame
    <2> QED
      BY <1>1, <1>2, <1>4, <2>1, StillRecordingInv, RecordingStates, HwType
  <1> QED
    BY <1>3, <1>4 DEF RecordingTakePicture

(* What stopRecording leaves for the handlers that go on. *)
LEMMA StopRecordingOk ==
    ASSUME SmInv
    PROVE  /\ stopRecording(hw).hw \in Hardware
           /\ stopRecording(hw).rc \in {"OK", "ERR"}
           /\ stopPreview(stopRecording(hw).hw) \in Hardware
  <1>1. stopRecording(hw) \in Outcome
    BY StopRecordingType, HwType
  <1>2. stopRecording(hw).hw \in Hardware /\ stopRecording(hw).rc \in {"OK", "ERR"}
    BY <1>1 DEF Outcome
  <1> QED
    BY <1>2, StopPreviewType

(* Every handler of QCAMERA_SM_STATE_RECORDING. *)
LEMMA RecordingInv ==
    ASSUME SmInv, procEvtRecordingState
    PROVE  StepInv
  <1>1. CASE RecordingAcknowledged
    BY <1>1, AcknowledgeInv DEF RecordingAcknowledged
  <1>2. CASE RecordingRefused
    BY <1>2, RefuseInv DEF RecordingRefused
  <1>3. CASE RecordingSendCommand \/ RecordingTakePicture
    BY <1>3, RecordingSendCommandInv, RecordingTakePictureInv
  <1>4. CASE RecordingStop
    BY <1>4, StopRecordingOk, RestSame, AnswerOutInv, OnFacts, QuietStates
       DEF RecordingStop
  <1>5. CASE RecordingStopPreview
    BY <1>5, StopRecordingOk, RestSame, AnswerOkOutInv, QuietStates
       DEF RecordingStopPreview
  <1>6. CASE \/ RecordingSetParams("RECORDING") \/ CommitParams("RECORDING")
             \/ EnableMsg("RECORDING") \/ DisableMsg("RECORDING")
             \/ EvtDone("RECORDING")
    BY <1>6, RecordingSetParamsInv, RecordingStates, CommitParamsInv,
       EnableMsgInv, DisableMsgInv, EvtDoneInv
  <1>7. CASE Ignore("RECORDING",
                    {"STOP_CAPTURE_CHANNEL", "PREP_SNAPSHOT_DONE",
                     "READY_FOR_SNAPSHOT", "DAEMON_DIED"})
    BY <1>7, IgnoreInv
  <1> QED
    BY <1>1, <1>2, <1>3, <1>4, <1>5, <1>6, <1>7 DEF procEvtRecordingState

(* What cancelLiveSnapshot returns, and what it makes of the thread.      *)
LEMMA CancelLiveType ==
    ASSUME SmInv, cancelLiveSnapshot, UNCHANGED <<msgs, m_RestoreZSL>>
    PROVE  Rest /\ CancelLiveResult \in {"OK", "ERR"}
  <1>1. live' \in {"none", "take", "cancel"}
    BY DEF cancelLiveSnapshot
  <1> QED
    BY <1>1, MsgsSame DEF Rest, SmInv, SmTypeOK, CancelLiveResult

(* A live snapshot ends and the recording goes on. *)
LEMMA VideoPicCancelInv ==
    ASSUME SmInv, VideoPicCancel \/ VideoPicDone
    PROVE  StepInv
  <1>1. Rest /\ CancelLiveResult \in {"OK", "ERR"}
    BY CancelLiveType DEF VideoPicCancel, VideoPicDone
  <1>2. PICK E : On("VIDEO_PIC_TAKING", E)
    BY DEF VideoPicCancel, VideoPicDone
  <1>3. HasCmd /\ m_state = "VIDEO_PIC_TAKING"
    BY <1>2, OnFacts
  <1>4. hw.ch["VIDEO"] = "started" /\ "RECORDING" \in State
    BY <1>3 DEF SmInv, RecordingHasVideo, isRecording, State
  <1>5. CASE VideoPicCancel
    <2> DEFINE o == [rc |-> CancelLiveResult, hw |-> hw]
    <2>1. o.hw = hw /\ o.rc \in {"OK", "ERR"}
      BY <1>1
    <2>2. Answer("RECORDING", o)
      BY <1>5 DEF VideoPicCancel
    <2> HIDE DEF o
    <2> QED
      BY <1>1, <1>2, <2>1, <2>2, StillRecordingInv, RecordingStates, HwType
  <1>6. CASE VideoPicDone
    <2>1. <<Result("EVT", "SNAPSHOT_DONE", CancelLiveResult)>> \in Seq(Reply)
      BY <1>1, <1>3, OneResultType, HwType DEF Evt, InternalEvt, Status
    <2>2. Finish("RECORDING", hw,
                 <<Result("EVT", "SNAPSHOT_DONE", CancelLiveResult)>>)
      BY <1>6 DEF VideoPicDone
    <2>3. Ends
      BY <1>4, <2>1, <2>2, HwType DEF Ends
    <2> QED
      BY <1>1, <1>3, <2>3, EndsInv, HwType
  <1> QED
    BY <1>5, <1>6

(* The recording ends under a live snapshot. *)
LEMMA VideoPicStopInv ==
    ASSUME SmInv, VideoPicStopRecording \/ VideoPicStopPreview
    PROVE  StepInv
  <1>1. Rest
    BY CancelLiveType DEF VideoPicStopRecording, VideoPicStopPreview
  <1>2. CASE VideoPicStopRecording
    BY <1>1, <1>2, StopRecordingOk, AnswerOutInv, OnFacts, QuietStates
       DEF VideoPicStopRecording
  <1>3. CASE VideoPicStopPreview
    BY <1>1, <1>3, StopRecordingOk, AnswerOkOutInv, QuietStates
       DEF VideoPicStopPreview
  <1> QED
    BY <1>2, <1>3

(* Every handler of QCAMERA_SM_STATE_VIDEO_PIC_TAKING. *)
LEMMA VideoPicInv ==
    ASSUME SmInv, procEvtVideoPicTakingState
    PROVE  StepInv
  <1>1. CASE VideoPicAcknowledged
    BY <1>1, AcknowledgeInv DEF VideoPicAcknowledged
  <1>2. CASE VideoPicRefused
    BY <1>2, RefuseInv DEF VideoPicRefused
  <1>3. CASE VideoPicSendCommand
    BY <1>3, RecordingSendCommandInv
  <1>4. CASE VideoPicCancel \/ VideoPicDone
    BY <1>4, VideoPicCancelInv
  <1>5. CASE VideoPicStopRecording \/ VideoPicStopPreview
    BY <1>5, VideoPicStopInv
  <1>6. CASE \/ RecordingSetParams("VIDEO_PIC_TAKING")
             \/ CommitParams("VIDEO_PIC_TAKING")
             \/ EnableMsg("VIDEO_PIC_TAKING") \/ DisableMsg("VIDEO_PIC_TAKING")
    BY <1>6, RecordingSetParamsInv, RecordingStates, CommitParamsInv,
       EnableMsgInv, DisableMsgInv
  <1>7. CASE Ignore("VIDEO_PIC_TAKING",
                    {"STOP_CAPTURE_CHANNEL", "PREP_SNAPSHOT_DONE",
                     "READY_FOR_SNAPSHOT", "DAEMON_DIED"})
    BY <1>7, IgnoreInv
  <1> QED
    BY <1>1, <1>2, <1>3, <1>4, <1>5, <1>6, <1>7 DEF procEvtVideoPicTakingState

-----------------------------------------------------------------------------
(* QCAMERA_SM_STATE_PREVIEW_PIC_TAKING *)

(* Preview restarted during a capture, or lost. *)
LEMMA PreviewPicParamsRestartInv ==
    ASSUME SmInv, PreviewPicParamsRestart
    PROVE  StepInv
  <1>1. PICK o \in BringUp(hw, TRUE, TRUE) :
           /\ Answer(IF o.rc = "OK" THEN "PREVIEW_PIC_TAKING" ELSE "PIC_TAKING",
                     [o EXCEPT !.hw.needRestart = FALSE])
           /\ DelayedUnless(o.prepared)
    BY DEF PreviewPicParamsRestart
  <1>2. o \in BroughtUp /\ o.rc \in {"OK", "ERR"}
    BY BringUpType, HwType
  <1> DEFINE q == [o EXCEPT !.hw.needRestart = FALSE]
  <1>3. q.hw \in Hardware /\ q.rc \in {"OK", "ERR"}
    BY <1>2, NeedRestartType
  <1>4. Answer(IF o.rc = "OK" THEN "PREVIEW_PIC_TAKING" ELSE "PIC_TAKING", q)
    BY <1>1
  <1>5. Rest /\ On("PREVIEW_PIC_TAKING", {"SET_PARAMS_RESTART"})
    BY <1>1, MsgsDelayed, RestMsgs DEF PreviewPicParamsRestart
  <1> HIDE DEF q
  <1> QED
    BY <1>3, <1>4, <1>5, AnswerEitherInv, QuietStates

(* CANCEL_PICTURE and STOP_PREVIEW: which of two captures is running is   *)
(* asked of the mode, and either answer keeps the invariant.              *)
LEMMA PreviewPicCancelInv ==
    ASSUME SmInv, PreviewPicCancel \/ PreviewPicStopPreview
    PROVE  StepInv
  <1>1. PICK E : On("PREVIEW_PIC_TAKING", E)
    BY DEF PreviewPicCancel, PreviewPicStopPreview
  <1>2. PICK t \in {"PREVIEWING", "PREVIEW_STOPPED"},
             h \in {cancelPicture(hw), unpreparePreview(cancelPicture(hw)),
                    hw, unpreparePreview(hw)} :
           /\ UNCHANGED <<msgs, m_RestoreZSL>>
           /\ \/ Answer(t, Ok(h)) /\ UNCHANGED live
              \/ cancelLiveSnapshot /\ Answer(t, [rc |-> CancelLiveResult,
                                                 hw |-> h])
    BY DEF PreviewPicCancel, PreviewPicStopPreview
  <1>3. h \in Hardware /\ t \in State \ RecordingState
    BY CancelOkType, HwType, QuietStates
  <1>4. CASE Answer(t, Ok(h)) /\ UNCHANGED live
    BY <1>1, <1>2, <1>3, <1>4, RestSame, AnswerOkOutInv
  <1>5. CASE cancelLiveSnapshot /\ Answer(t, [rc |-> CancelLiveResult,
                                             hw |-> h])
    <2> DEFINE o == [rc |-> CancelLiveResult, hw |-> h]
    <2>1. Rest /\ CancelLiveResult \in {"OK", "ERR"}
      BY <1>2, <1>5, CancelLiveType
    <2>2. o.hw = h /\ o.rc \in {"OK", "ERR"} /\ Answer(t, o)
      BY <1>5, <2>1
    <2> HIDE DEF o
    <2> QED
      BY <1>1, <1>3, <2>1, <2>2, AnswerOutInv, OnFacts
  <1> QED
    BY <1>2, <1>4, <1>5

(* Preview rebuilt for a recording during a live snapshot. *)
LEMMA PreviewPicPreStartRecordingInv ==
    ASSUME SmInv, PreviewPicPreStartRecording
    PROVE  StepInv
  <1> DEFINE S == IF ZslOrLongshot(hw) THEN {} ELSE preStartRecording(hw, TRUE)
  <1>1. S \subseteq Outcome
    BY PreStartRecordingType, HwType
  <1>2. Apply("PREVIEW_PIC_TAKING", {"PRE_START_RECORDING"}, S)
    BY DEF PreviewPicPreStartRecording
  <1> HIDE DEF S
  <1> QED
    BY <1>1, <1>2, ApplyOutInv, QuietStates

(* A recording starts during a live snapshot. *)
LEMMA PreviewPicStartRecordingInv ==
    ASSUME SmInv, PreviewPicStartRecording
    PROVE  StepInv
  <1>1. PICK o \in startRecording(hw) :
           Answer(IF o.rc = "OK" THEN "VIDEO_PIC_TAKING" ELSE m_state, o)
    BY DEF PreviewPicStartRecording
  <1>2. o \in Outcome /\ (o.rc = "OK" => o.hw.ch["VIDEO"] = "started")
    BY StartRecordingType, HwType
  <1>3. o.rc \in {"OK", "ERR"} /\ o.hw \in Hardware
    BY <1>2 DEF Outcome
  <1>4. Rest
    BY RestSame DEF PreviewPicStartRecording
  <1>5. HasCmd /\ m_state = "PREVIEW_PIC_TAKING"
    BY OnFacts DEF PreviewPicStartRecording
  <1>6. CASE o.rc = "OK"
    <2>1. Answer("VIDEO_PIC_TAKING", o) /\ "VIDEO_PIC_TAKING" \in State
      BY <1>1, <1>6 DEF State
    <2>2. Ends
      BY <1>2, <1>3, <1>5, <1>6, <2>1, AnswerEnds, HwType
    <2> QED
      BY <1>4, <1>5, <2>2, EndsInv, HwType
  <1>7. CASE o.rc # "OK"
    BY <1>1, <1>3, <1>4, <1>5, <1>7, AnswerOutInv, QuietStates
  <1> QED
    BY <1>6, <1>7

(* The flash of a retro picture. *)
LEMMA PreviewPicPrepareSnapshotInv ==
    ASSUME SmInv, PreviewPicPrepareSnapshot
    PROVE  StepInv
  <1>1. On("PREVIEW_PIC_TAKING", {"PREPARE_SNAPSHOT"}) /\ Rest
    BY RestSame DEF PreviewPicPrepareSnapshot
  <1>2. HasCmd
    BY <1>1, OnFacts
  <1>3. CASE Finish("PREVIEW_PIC_TAKING", hw, <<>>)
    <2>1. <<>> \in Seq(Reply)
      OBVIOUS
    <2> QED
      BY <1>1, <1>2, <1>3, <2>1, FinishOutInv, QuietStates, HwType
  <1>4. CASE \E o \in MayErr({hw}) : Answer("PREVIEW_PIC_TAKING", o)
    <2>1. PICK o \in MayErr({hw}) : Answer("PREVIEW_PIC_TAKING", o)
      BY <1>4
    <2>2. o \in Outcome
      BY MayErrType, HwType
    <2>3. o.rc \in {"OK", "ERR"} /\ o.hw \in Hardware
      BY <2>2 DEF Outcome
    <2> QED
      BY <1>1, <1>2, <2>1, <2>3, AnswerOutInv, QuietStates
  <1>5. CASE Finish("PREVIEW_PIC_TAKING", hw,
                    <<Result("API", "PREPARE_SNAPSHOT", "INVALID")>>)
    BY <1>1, <1>5, OneResultInv DEF Evt, ApiEvt, Status
  <1> QED
    BY <1>3, <1>4, <1>5 DEF PreviewPicPrepareSnapshot

(* The events that answer the requests of a retro picture. *)
LEMMA RetroEventInv ==
    ASSUME SmInv, NEW e, NEW a \in Evt, RetroEvent(e, a)
    PROVE  StepInv
  <1>1. On("PREVIEW_PIC_TAKING", {e}) /\ Rest
    BY RestSame DEF RetroEvent
  <1>2. HasCmd
    BY <1>1, OnFacts
  <1>3. <<Result("API", a, "OK")>> \in Seq(Reply) /\ <<>> \in Seq(Reply)
    BY <1>2, OneResultType, HwType DEF Status
  <1>4. \E rs \in Seq(Reply) : Finish("PREVIEW_PIC_TAKING", hw, rs)
    BY <1>3 DEF RetroEvent
  <1> QED
    BY <1>1, <1>2, <1>4, FinishOutInv, QuietStates, HwType

(* One or two results for the end of a capture. *)
LEMMA DoneResultsType ==
    ASSUME SmTypeOK, HasCmd, NEW c \in {"OK", "ERR"}
    PROVE  DoneResults(c) \in Seq(Reply)
  <1>1. /\ <<Result("API", "SNAPSHOT_DONE", c)>> \in Seq(Reply)
        /\ <<Result("EVT", "SNAPSHOT_DONE", c)>> \in Seq(Reply)
        /\ <<>> \in Seq(Reply)
    BY OneResultType DEF Evt, InternalEvt, Status
  <1> QED
    BY <1>1, ConcatProperties DEF DoneResults

(* The end of a ZSL capture, a longshot or a live snapshot. *)
LEMMA PreviewPicDoneInv ==
    ASSUME SmInv, PreviewPicDone
    PROVE  StepInv
  <1>1. HasCmd /\ UNCHANGED <<msgs, m_RestoreZSL>>
    BY OnFacts DEF PreviewPicDone
  <1>2. CASE Finish("PREVIEWING", cancelPicture(hw), DoneResults("OK"))
             /\ UNCHANGED live
    BY <1>1, <1>2, RestSame, DoneResultsType, CancelOkType, FinishOutInv,
       QuietStates, HwType
  <1>3. CASE cancelLiveSnapshot
             /\ Finish("PREVIEWING", hw, DoneResults(CancelLiveResult))
    <2>1. Rest /\ CancelLiveResult \in {"OK", "ERR"}
      BY <1>1, <1>3, CancelLiveType
    <2>2. DoneResults(CancelLiveResult) \in Seq(Reply)
      BY <1>1, <2>1, DoneResultsType, HwType
    <2> QED
      BY <1>1, <1>3, <2>1, <2>2, FinishOutInv, QuietStates, HwType
  <1> QED
    BY <1>2, <1>3 DEF PreviewPicDone

(* Every handler of QCAMERA_SM_STATE_PREVIEW_PIC_TAKING. *)
LEMMA PreviewPicInv ==
    ASSUME SmInv, procEvtPreviewPicTakingState
    PROVE  StepInv
  <1>1. CASE PreviewPicAcknowledged
    BY <1>1, AcknowledgeInv DEF PreviewPicAcknowledged
  <1>2. CASE PreviewPicRefused \/ PreviewPicRecordRefused
    BY <1>2, RefuseInv DEF PreviewPicRefused, PreviewPicRecordRefused
  <1>3. CASE PreviewPicParamsStop
    BY <1>3, UnprepareOkType, HwType, ApplyOutInv, QuietStates
       DEF PreviewPicParamsStop
  <1>4. CASE PreviewPicParamsRestart
    BY <1>4, PreviewPicParamsRestartInv
  <1>5. CASE PreviewPicSendCommand
    BY <1>5, SendCommandInv, RestSame, QuietStates DEF PreviewPicSendCommand
  <1>6. CASE PreviewPicCancel \/ PreviewPicStopPreview
    BY <1>6, PreviewPicCancelInv
  <1>7. CASE PreviewPicPreStartRecording \/ PreviewPicStartRecording
    BY <1>7, PreviewPicPreStartRecordingInv, PreviewPicStartRecordingInv
  <1>8. CASE PreviewPicPrepareSnapshot \/ PreviewPicDone
    BY <1>8, PreviewPicPrepareSnapshotInv, PreviewPicDoneInv
  <1>9. CASE \/ RetroEvent("PREP_SNAPSHOT_DONE", "PREPARE_SNAPSHOT")
             \/ RetroEvent("READY_FOR_SNAPSHOT", "TAKE_PICTURE")
    BY <1>9, RetroEventInv DEF Evt, ApiEvt
  <1>10. CASE \/ LongshotPreTake("PREVIEW_PIC_TAKING")
              \/ LongshotTake("PREVIEW_PIC_TAKING")
              \/ NotLongshot("PREVIEW_PIC_TAKING")
    BY <1>10, LongshotInv, QuietStates
  <1>11. CASE \/ EnableMsg("PREVIEW_PIC_TAKING")
              \/ DisableMsg("PREVIEW_PIC_TAKING")
              \/ SetParams("PREVIEW_PIC_TAKING")
              \/ CommitParams("PREVIEW_PIC_TAKING")
              \/ DaemonDied("PREVIEW_PIC_TAKING")
    BY <1>11, EnableMsgInv, DisableMsgInv, SetParamsInv, CommitParamsInv,
       DaemonDiedInv
  <1>12. CASE Ignore("PREVIEW_PIC_TAKING", {"STOP_CAPTURE_CHANNEL"})
    BY <1>12, IgnoreInv
  <1> QED
    BY <1>1, <1>2, <1>3, <1>4, <1>5, <1>6, <1>7, <1>8, <1>9, <1>10, <1>11,
       <1>12 DEF procEvtPreviewPicTakingState

-----------------------------------------------------------------------------
(* The threads *)

(* Every handler, and the end of the thread, preserves the invariant.     *)
THEOREM StateMachineInv ==
    ASSUME SmInv, smEvtProcRoutine
    PROVE  StepInv
  <1>1. CASE stateMachine
    BY <1>1, StoppedInv, ReadyInv, PreviewingInv, PrepareSnapshotInv,
       PicTakingInv, RecordingInv, VideoPicInv, PreviewPicInv DEF stateMachine
  <1>2. CASE Exit
    <2>1. api_queue' \in Seq(Cmd) /\ running' \in BOOLEAN
      <3>1. api_queue \in Seq(Cmd) /\ api_queue # <<>>
        BY <1>2 DEF SmInv, SmTypeOK, Exit
      <3> QED
        BY <1>2, <3>1, HeadTailProperties DEF Exit
    <2> QED
      BY <1>2, <2>1 DEF Exit, SmInv, SmTypeOK, RecordingHasVideo, isRecording,
                        DelayedMsgsKept, StepInv, KeepsMsgs, MsgsWanted
  <1> QED
    BY <1>1, <1>2 DEF smEvtProcRoutine

(* The thread of live snapshots works on the SNAPSHOT channel and the     *)
(* post-processor only, whatever state the machine is in meanwhile.       *)
THEOREM LiveThreadInv ==
    ASSUME SmInv, Live_Snapshot_thread
    PROVE  StepInv
  <1>1. hw' \in Hardware /\ hw'.ch["VIDEO"] = hw.ch["VIDEO"]
    <2>1. \A h \in Hardware : \A b \in BOOLEAN :
             /\ [h EXCEPT !.postproc = b] \in Hardware
             /\ [h EXCEPT !.postproc = b].ch = h.ch
      BY DEF Hardware
    <2>2. hw.postproc \in BOOLEAN /\ hw \in Hardware
      BY HwType DEF Hardware
    <2>3. \A o \in MayErr({hw}) : o.hw = hw
      BY <2>2, OutcomeType DEF MayErr
    <2>4. \A v \in ChannelState :
             /\ WithChannels(hw, {"SNAPSHOT"}, v) \in Hardware
             /\ WithChannels(hw, {"SNAPSHOT"}, v).ch["VIDEO"] = hw.ch["VIDEO"]
      BY <2>2, WithChannelsType DEF WithChannels, Hardware, Channel
    <2>5. CASE LiveTakeStarts
      <3>1. PICK o \in startChannel(hw, "SNAPSHOT") :
               o.rc = "OK" /\ hw' = [o.hw EXCEPT !.postproc = TRUE]
        BY <2>5 DEF LiveTakeStarts
      <3>2. o.hw = WithChannels(hw, {"SNAPSHOT"}, "started")
        BY <3>1, <2>2 DEF startChannel, MayErr, Ok, Err
      <3> QED
        BY <2>1, <2>4, <3>1, <3>2 DEF ChannelState
    <2>6. CASE LiveTakeFails \/ LiveTakeAbandoned
      <3>1. \/ hw' = hw
            \/ \E b \in BOOLEAN : hw' = [hw EXCEPT !.postproc = b]
        BY <2>2, <2>3, <2>6 DEF LiveTakeFails, LiveTakeAbandoned
      <3> QED
        BY <2>1, <2>2, <3>1
    <2>7. CASE LiveCancel
      <3>1. hw' = [stopChannel(hw, "SNAPSHOT").hw EXCEPT !.postproc = FALSE]
        BY <2>7 DEF LiveCancel
      <3>2. \/ stopChannel(hw, "SNAPSHOT").hw = hw
            \/ stopChannel(hw, "SNAPSHOT").hw
                   = WithChannels(hw, {"SNAPSHOT"}, "added")
        BY DEF stopChannel, Ok, Err
      <3> QED
        BY <2>1, <2>2, <2>4, <3>1, <3>2 DEF ChannelState
    <2> QED
      BY <2>5, <2>6, <2>7 DEF Live_Snapshot_thread
  <1>2. api_queue' \in Seq(Cmd)
    <2>1. Node("API", "CANCEL_PICTURE", {}, HAL) \in Cmd
      BY DEF Node, Cmd, Evt, ApiEvt
    <2>2. \/ api_queue' = api_queue
          \/ api_queue' = Append(api_queue, Node("API", "CANCEL_PICTURE", {}, HAL))
      BY DEF Live_Snapshot_thread, LiveTakeStarts, LiveTakeFails,
             LiveTakeAbandoned, LiveCancel, procAPI
    <2> QED
      BY <2>1, <2>2 DEF SmInv, SmTypeOK
  <1>3. /\ live' = "none"
        /\ UNCHANGED <<evt_queue, m_state, msgs, m_RestoreZSL, replies, running>>
    BY DEF Live_Snapshot_thread, LiveTakeStarts, LiveTakeFails,
           LiveTakeAbandoned, LiveCancel
  <1> QED
    BY <1>1, <1>2, <1>3 DEF SmInv, SmTypeOK, RecordingHasVideo, isRecording,
                            DelayedMsgsKept, StepInv, KeepsMsgs, MsgsWanted

(* The initial state satisfies it. *)
THEOREM InitInv == SmInit => SmInv
  <1> SUFFICES ASSUME SmInit PROVE SmInv
    OBVIOUS
  <1>1. hw \in Hardware
    BY DEF SmInit, InitHardware, Hardware, Params, ChannelState
  <1>2. SmTypeOK
    BY <1>1 DEF SmInit, SmTypeOK, State, Msgs
  <1> QED
    BY <1>2 DEF SmInv, SmInit, RecordingHasVideo, isRecording, DelayedMsgsKept

(* Outside the two threads: a command that a caller builds has the type of a command. *)
LEMMA NodeType ==
    ASSUME NEW k \in {"API", "EVT", "EXIT"}, NEW e \in Evt,
           NEW a \in SUBSET Flag, NEW f \in Senders \cup {HAL}
    PROVE  Node(k, e, a, f) \in Cmd
  BY DEF Node, Cmd

(* What every action of the callers leaves alone, and what it may change. *)
CallerStep ==
    /\ api_queue' \in Seq(Cmd) /\ evt_queue' \in Seq(Cmd)
    /\ hw' \in Hardware /\ hw'.ch = hw.ch
    /\ replies' \in Seq(Reply)
    /\ UNCHANGED <<m_state, msgs, m_RestoreZSL, live, running>>

(* A step of a caller preserves the invariant: the channels are the same. *)
LEMMA CallerStepInv ==
    ASSUME SmInv, CallerStep
    PROVE  StepInv
  <1>1. SmTypeOK'
    BY DEF SmInv, SmTypeOK, CallerStep
  <1>2. RecordingHasVideo'
    BY DEF SmInv, RecordingHasVideo, isRecording, CallerStep
  <1>3. DelayedMsgsKept' /\ KeepsMsgs
    BY DEF SmInv, DelayedMsgsKept, KeepsMsgs, MsgsWanted, CallerStep
  <1> QED
    BY <1>1, <1>2, <1>3 DEF StepInv, SmInv

-----------------------------------------------------------------------------
(***************************************************************************)
(* The states without preview.  PIC_TAKING is one of them, since its       *)
(* STOP_PREVIEW and CANCEL_PICTURE only cancel the capture: that no        *)
(* channel of preview is left in PREVIEW_STOPPED depends on a regular      *)
(* capture having deleted them all.                                        *)
(***************************************************************************)

(* No channel of preview or recording. *)
Bare(h) == \A c \in PreviewChannels : h.ch[c] = "null"

DarkState == {"PREVIEW_STOPPED", "PIC_TAKING"}

DarkIsBare == m_state \in DarkState => Bare(hw)

(* SET_PARAMS_RESTART finds preview stopped, in the two states in which a  *)
(* failure to prepare it leaves for a state without preview.               *)
RestartsBare ==
    \A s \in {"PREVIEW_READY", "PREVIEW_PIC_TAKING"} :
        On(s, {"SET_PARAMS_RESTART"}) => Bare(hw)

(* Channels that are deleted, or that are not among those of preview. *)
LEMMA BareChannels ==
    ASSUME NEW h \in Hardware, NEW S, NEW v,
           Bare(h), v = "null" \/ S \cap PreviewChannels = {}
    PROVE  Bare(WithChannels(h, S, v))
  BY DEF Bare, WithChannels, PreviewChannels, Channel, Hardware

(* stopPreview leaves none. *)
LEMMA StoppedBare ==
    ASSUME NEW h \in Hardware
    PROVE  Bare(unpreparePreview(h)) /\ Bare(stopPreview(h))
  BY DEF Bare, unpreparePreview, stopPreview, delChannels, WithChannels, PreviewChannels, Channel,
         Hardware

(* An object with the same channels. *)
LEMMA BareSame ==
    ASSUME NEW h, NEW g, g.ch = h.ch, Bare(h)
    PROVE  Bare(g)
  BY DEF Bare

(* A capture that is cancelled. *)
LEMMA BareCancel ==
    ASSUME NEW h \in Hardware, Bare(h)
    PROVE  Bare(cancelPicture(h))
  <1> DEFINE g == [h EXCEPT !.postproc = FALSE]
  <1>1. g \in Hardware /\ g.ch = h.ch
    BY DEF Hardware
  <1>2. cancelPicture(h) = IF h.p.zsl THEN g ELSE WithChannels(g, {"CAPTURE"}, "null")
    BY DEF cancelPicture, delChannels
  <1> HIDE DEF g
  <1>3. Bare(g)
    BY <1>1, BareSame
  <1>4. Bare(WithChannels(g, {"CAPTURE"}, "null"))
    BY <1>1, <1>3, BareChannels
  <1> QED
    BY <1>2, <1>3, <1>4

(* A longshot that is switched off. *)
LEMMA BareLongshotOff ==
    ASSUME NEW h \in Hardware, NEW cap, Bare(h)
    PROVE  Bare(longshotOff(h, cap))
  <1> DEFINE g == IF h.longshot /\ cap
                  THEN [cancelPicture(h) EXCEPT !.raised = TRUE] ELSE h
  <1>1. cancelPicture(h) \in Hardware /\ Bare(cancelPicture(h))
    BY CancelPictureType, BareCancel
  <1>2. \A k \in Hardware :
           /\ [k EXCEPT !.raised = TRUE] \in Hardware
           /\ [k EXCEPT !.raised = TRUE].ch = k.ch
           /\ [k EXCEPT !.prepSnapRun = FALSE, !.longshot = FALSE].ch = k.ch
    BY DEF Hardware
  <1>3. g \in Hardware /\ Bare(g)
    BY <1>1, <1>2, BareSame
  <1>4. longshotOff(h, cap) = [g EXCEPT !.prepSnapRun = FALSE, !.longshot = FALSE]
    BY DEF longshotOff
  <1> HIDE DEF g
  <1> QED
    BY <1>2, <1>3, <1>4, BareSame

(* A command of the application. *)
LEMMA BareCommand ==
    ASSUME NEW h \in Hardware, NEW cmd, NEW cap, Bare(h),
           NEW o \in sendCommand(h, cmd, cap)
    PROVE  Bare(o.hw)
  <1>1. CASE "LONGSHOT_ON" \in cmd
    <2> DEFINE on == [h EXCEPT !.longshot = TRUE, !.prepSnapRun = FALSE]
    <2>1. on.ch = h.ch
      BY DEF Hardware
    <2>2. o \in {Err(h), Ok(on), Err(on)}
      BY <1>1 DEF sendCommand, longshotOn, MayErr
    <2> HIDE DEF on
    <2> QED
      BY <2>1, <2>2, BareSame DEF Ok, Err
  <1>2. CASE "LONGSHOT_ON" \notin cmd
    <2>1. o \in {Ok(longshotOff(h, cap)), Err(longshotOff(h, cap))}
      BY <1>2 DEF sendCommand, MayErr
    <2> QED
      BY <2>1, BareLongshotOff DEF Ok, Err
  <1> QED
    BY <1>1, <1>2

(* The next picture of a longshot changes nothing. *)
LEMMA LongShotSame ==
    ASSUME NEW h, NEW o \in longShot(h)
    PROVE  o.hw = h
  BY DEF longShot, MayErr, Ok, Err

(* A regular capture, every early return included, has stopped preview;    *)
(* a ZSL capture leaves the channels as they are.                          *)
LEMMA BareTake ==
    ASSUME NEW h \in Hardware, NEW o \in takePicture(h), Bare(h) \/ ~ h.p.zsl
    PROVE  Bare(o.hw)
  <1>1. CASE h.p.zsl
    <2>1. \E g \in {h, [h EXCEPT !.postproc = TRUE],
                    [h EXCEPT !.postproc = FALSE]} : o = Ok(g) \/ o = Err(g)
      BY <1>1 DEF takePicture, takeZslPicture, MayErr
    <2>2. o.hw.ch = h.ch
      BY <2>1 DEF Hardware, Ok, Err
    <2> QED
      BY <1>1, <2>2, BareSame
  <1>2. CASE ~ h.p.zsl
    <2> DEFINE g == stopPreview(h)
    <2>1. g \in Hardware /\ Bare(g)
      BY StopPreviewType, StoppedBare
    <2>2. \/ o = Ok(WithCapture(g, "started", TRUE)) \/ o = Err(g)
          \/ \E l \in HalfTaken(h) : o = Err(WithCapture(g, l[1], l[2]))
      BY <1>2 DEF takePicture, takeRegularPicture, MayErr
    <2> HIDE DEF g
    <2>3. \A v, pp : Bare(WithCapture(g, v, pp))
      BY <2>1 DEF Bare, PreviewChannels, WithCapture, WithChannels, Hardware, Channel
    <2>4. CASE o = Ok(WithCapture(g, "started", TRUE)) \/ o = Err(g)
      <3>1. \A x : Ok(x).hw = x /\ Err(x).hw = x
        BY DEF Ok, Err
      <3>2. o.hw = WithCapture(g, "started", TRUE) \/ o.hw = g
        BY <2>4, <3>1
      <3> QED
        BY <2>1, <2>3, <3>2
    <2>5. CASE \E l \in HalfTaken(h) : o = Err(WithCapture(g, l[1], l[2]))
      <3>1. PICK l \in HalfTaken(h) : o = Err(WithCapture(g, l[1], l[2]))
        BY <2>5
      <3>2. o.hw = WithCapture(g, l[1], l[2])
        BY <3>1 DEF Err
      <3> QED
        BY <2>3, <3>2
    <2> QED
      BY <2>2, <2>4, <2>5
  <1> QED
    BY <1>1, <1>2

(* A failure to prepare preview adds no channel. *)
LEMMA BarePrepare ==
    ASSUME NEW h \in Hardware, NEW cap, NEW o \in preparePreview(h, cap),
           Bare(h), o.rc = "ERR"
    PROVE  Bare(o.hw)
  <1> DEFINE g == IF h.longshot THEN longshotOff(h, cap) ELSE h
  <1>1. g \in Hardware /\ Bare(g)
    BY LongshotOffType, BareLongshotOff
  <1>2. o = Err(h) \/ \E k \in {g, h} : \E S : o = Err(WithChannels(k, S, "null"))
    <2>0. \A x : Ok(x).rc # "ERR"
      BY DEF Ok
    <2>1. CASE isZslPreview(h)
      BY <2>0, <2>1 DEF preparePreview, MayErr, delChannels
    <2>2. CASE ~ isZslPreview(h) /\ h.p.hint
      BY <2>0, <2>2 DEF preparePreview, MayErr, delChannels
    <2>3. CASE ~ isZslPreview(h) /\ ~ h.p.hint
      BY <2>0, <2>3 DEF preparePreview, MayErr, delChannels
    <2> QED
      BY <2>1, <2>2, <2>3
  <1> HIDE DEF g
  <1>3. \A k \in {g, h} : \A S : Bare(WithChannels(k, S, "null"))
    BY <1>1, BareChannels
  <1> QED
    BY <1>2, <1>3 DEF Err

(* Nor does a failure to bring it up, where the start is undone. *)
LEMMA BareBringUp ==
    ASSUME NEW h \in Hardware, NEW cap, NEW o \in BringUp(h, cap, TRUE),
           Bare(h) \/ o.prepared, o.rc = "ERR"
    PROVE  Bare(o.hw)
  <1>1. PICK p \in preparePreview(h, cap) :
           IF p.rc = "ERR" THEN o = [rc |-> "ERR", hw |-> p.hw, prepared |-> FALSE]
           ELSE \E s \in startPreview(p.hw) :
                   o = [rc |-> s.rc, prepared |-> TRUE,
                        hw |-> IF s.rc = "ERR" THEN unpreparePreview(s.hw) ELSE s.hw]
    BY DEF BringUp
  <1>2. p.hw \in Hardware
    BY PreparePreviewType DEF Outcome
  <1>3. CASE p.rc = "ERR"
    <2>1. o.hw = p.hw /\ ~ o.prepared
      BY <1>1, <1>3
    <2> QED
      BY <1>3, <2>1, BarePrepare
  <1>4. CASE p.rc # "ERR"
    <2>1. PICK s \in startPreview(p.hw) :
             o = [rc |-> s.rc, prepared |-> TRUE,
                  hw |-> IF s.rc = "ERR" THEN unpreparePreview(s.hw) ELSE s.hw]
      BY <1>1, <1>4
    <2>2. s.hw \in Hardware
      BY <1>2, StartPreviewType DEF Outcome
    <2>3. o.hw = unpreparePreview(s.hw)
      BY <2>1
    <2> QED
      BY <2>2, <2>3, StoppedBare
  <1> QED
    BY <1>3, <1>4

(* prepareStartOrUndo fails. *)
LEMMA BareUndone ==
    ASSUME NEW h \in Hardware, NEW cap, NEW o \in prepareStartOrUndo(h, cap),
           Bare(h), o.rc = "ERR"
    PROVE  Bare(o.hw)
  <1>1. PICK p \in preparePreview(h, cap) :
           IF p.rc = "OK"
           THEN \E s \in startPreview(p.hw) :
                   o = IF s.rc = "OK" THEN s ELSE Err(unpreparePreview(s.hw))
           ELSE o = p
    BY DEF prepareStartOrUndo
  <1>2. p.hw \in Hardware
    BY PreparePreviewType DEF Outcome
  <1>3. CASE p.rc # "OK"
    BY <1>1, <1>3, BarePrepare
  <1>4. CASE p.rc = "OK"
    <2>1. PICK s \in startPreview(p.hw) :
             o = IF s.rc = "OK" THEN s ELSE Err(unpreparePreview(s.hw))
      BY <1>1, <1>4
    <2>2. s.hw \in Hardware
      BY <1>2, StartPreviewType DEF Outcome
    <2>3. o.hw = unpreparePreview(s.hw)
      BY <2>1 DEF Err
    <2> QED
      BY <2>2, <2>3, StoppedBare
  <1> QED
    BY <1>3, <1>4

-----------------------------------------------------------------------------
(* The handlers *)

(* An object that has the channels of preview only if h has some. *)
KeepsBare(h, g) == g \in Hardware /\ (Bare(h) => Bare(g))

(* A state with preview. *)
LEMMA EndsLight ==
    ASSUME NEW s, s \notin DarkState, NEW h, NEW rs, Finish(s, h, rs)
    PROVE  DarkIsBare'
  BY DEF Finish, DarkIsBare

(* A state without, of an object without. *)
LEMMA EndsBare ==
    ASSUME NEW s, NEW h \in Hardware, Bare(h), NEW rs, Finish(s, h, rs)
    PROVE  DarkIsBare'
  <1>1. hw' = [h EXCEPT !.raised = FALSE]
    BY DEF Finish
  <1>2. hw'.ch = h.ch
    BY <1>1 DEF Hardware
  <1>3. \A c \in PreviewChannels : hw'.ch[c] = "null"
    BY <1>2 DEF Bare
  <1> QED
    BY <1>3 DEF DarkIsBare, Bare

(* A handler that keeps its state, or leaves it for one with preview. *)
LEMMA EndsSame ==
    ASSUME DarkIsBare, NEW s, NEW E, On(s, E), NEW t, t = s \/ t \notin DarkState,
           NEW h, KeepsBare(hw, h), NEW rs, Finish(t, h, rs)
    PROVE  DarkIsBare'
  <1>1. CASE t \notin DarkState
    BY <1>1, EndsLight
  <1>2. CASE t \in DarkState
    BY <1>2, OnFacts, EndsBare DEF DarkIsBare, KeepsBare
  <1> QED
    BY <1>1, <1>2

(* Outcomes that are applied. *)
LEMMA ApplyBare ==
    ASSUME DarkIsBare, NEW s, NEW E, NEW S, Apply(s, E, S),
           s \notin DarkState \/ \A o \in S : KeepsBare(hw, o.hw)
    PROVE  DarkIsBare'
  <1>1. PICK o \in S : On(s, E) /\ Finish(s, o.hw, <<Result("API", Next_cmd.evt, o.rc)>>)
    BY DEF Apply, Answer
  <1> QED
    BY <1>1, EndsLight, EndsSame

(* The object as it is, or with the same channels. *)
LEMMA KeepsSame ==
    /\ \A h \in Hardware : KeepsBare(h, h) /\ KeepsBare(h, Ok(h).hw) /\ KeepsBare(h, Err(h).hw)
    /\ \A h, g \in Hardware : g.ch = h.ch => KeepsBare(h, g) /\ KeepsBare(h, Ok(g).hw)
  BY DEF KeepsBare, Ok, Err, Bare

(* Requests that are refused or acknowledged, and events that are ignored. *)
LEMMA SimpleBare ==
    ASSUME SmInv, DarkIsBare, NEW s, NEW E,
           Refuse(s, E) \/ Acknowledge(s, E) \/ Ignore(s, E)
    PROVE  DarkIsBare'
  <1>1. KeepsBare(hw, hw) /\ Ok(hw).hw = hw
    BY KeepsSame, HwType DEF Ok
  <1> QED
    BY <1>1, EndsSame DEF Refuse, Acknowledge, Ignore, Answer

(* The handlers shared by several states change no channel. *)
LEMMA SharedBare ==
    ASSUME SmInv, DarkIsBare, NEW s,
           \/ EnableMsg(s) \/ DisableMsg(s) \/ SetParams(s) \/ CommitParams(s)
           \/ ForgetRestart(s) \/ EvtDone(s) \/ DaemonDied(s)
    PROVE  DarkIsBare'
  <1>1. KeepsBare(hw, hw) /\ Ok(hw).hw = hw /\ hw \in Hardware
    BY KeepsSame, HwType DEF Ok
  <1>2. CASE EnableMsg(s) \/ DisableMsg(s)
    BY <1>1, <1>2, EndsSame DEF EnableMsg, DisableMsg, Answer
  <1>3. CASE SetParams(s)
    <2>1. \A o \in updateParameters(hw, Next_cmd.arg) : o.hw \in Hardware /\ o.hw.ch = hw.ch
      BY <1>1, UpdateParametersType DEF Outcome
    <2> QED
      BY <1>1, <1>3, <2>1, KeepsSame, ApplyBare DEF SetParams
  <1>4. CASE CommitParams(s)
    <2>1. \A o \in commitParameterChanges(hw) : o.hw \in Hardware /\ o.hw.ch = hw.ch
      BY <1>1, CommitType DEF Outcome
    <2> QED
      BY <1>1, <1>4, <2>1, KeepsSame, ApplyBare DEF CommitParams
  <1>5. CASE ForgetRestart(s)
    <2> DEFINE h == [hw EXCEPT !.needRestart = FALSE]
    <2>1. h \in Hardware /\ h.ch = hw.ch
      BY <1>1 DEF Hardware
    <2>2. Apply(s, {"SET_PARAMS_RESTART"}, {Ok(h)})
      BY <1>5 DEF ForgetRestart
    <2> HIDE DEF h
    <2> QED
      BY <1>1, <2>1, <2>2, KeepsSame, ApplyBare
  <1>6. CASE EvtDone(s) \/ DaemonDied(s)
    BY <1>1, <1>6, EndsSame DEF EvtDone, DaemonDied
  <1> QED
    BY <1>2, <1>3, <1>4, <1>5, <1>6

(* Every handler of QCAMERA_SM_STATE_PREVIEW_STOPPED. *)
LEMMA StoppedIsBare ==
    ASSUME SmInv, DarkIsBare, procEvtPreviewStoppedState
    PROVE  DarkIsBare'
  <1>0. hw \in Hardware
    BY HwType
  <1>1. CASE StoppedInitFailed
    <2>1. \A o \in MayErr({hw}) : KeepsBare(hw, o.hw)
      BY <1>0, KeepsSame DEF MayErr
    <2> QED
      BY <1>1, <2>1, ApplyBare DEF StoppedInitFailed
  <1>2. CASE StoppedAcknowledged \/ StoppedRefused
             \/ Ignore("PREVIEW_STOPPED",
                       {"STOP_CAPTURE_CHANNEL", "PREP_SNAPSHOT_DONE",
                        "READY_FOR_SNAPSHOT", "DAEMON_DIED"})
    BY <1>2, SimpleBare DEF StoppedAcknowledged, StoppedRefused
  <1>3. CASE StoppedSetWindow
    <2> DEFINE w == "window" \in Next_cmd.arg
               h == [hw EXCEPT !.window = w]
    <2>1. w \in BOOLEAN
      OBVIOUS
    <2>2. h \in Hardware /\ h.ch = hw.ch
      <3> HIDE DEF w
      <3> QED
        BY <1>0, <2>1 DEF Hardware
    <2>3. Apply("PREVIEW_STOPPED", {"SET_PREVIEW_WINDOW"}, {Ok(h)})
      BY <1>3 DEF StoppedSetWindow
    <2> HIDE DEF w, h
    <2> QED
      BY <1>0, <2>2, <2>3, KeepsSame, ApplyBare
  <1>4. CASE StoppedPrepare
    <2>1. PICK o \in preparePreview(hw, FALSE) :
             Answer(IF o.rc = "OK" THEN "PREVIEW_READY" ELSE m_state, o)
      BY <1>4 DEF StoppedPrepare
    <2>2. o \in Outcome /\ m_state = "PREVIEW_STOPPED"
      BY <1>0, <1>4, PreparePreviewType, OnFacts DEF StoppedPrepare
    <2>3. CASE o.rc = "OK"
      BY <2>1, <2>3, EndsLight DEF Answer, DarkState
    <2>4. CASE o.rc # "OK"
      <3>1. o.hw \in Hardware /\ o.rc = "ERR"
        BY <2>2, <2>4 DEF Outcome
      <3>2. Bare(hw)
        BY <2>2 DEF DarkIsBare, DarkState
      <3>3. Bare(o.hw)
        BY <1>0, <3>1, <3>2, BarePrepare
      <3> QED
        BY <2>1, <3>1, <3>3, EndsBare DEF Answer
    <2> QED
      BY <2>3, <2>4
  <1>5. CASE StoppedStart
    <2>1. PICK o \in BringUp(hw, FALSE, TRUE) :
             Answer(IF o.rc = "OK" THEN "PREVIEWING" ELSE m_state, o)
      BY <1>5 DEF StoppedStart
    <2>2. o \in BroughtUp /\ m_state = "PREVIEW_STOPPED"
      BY <1>0, <1>5, BringUpType, OnFacts DEF StoppedStart
    <2>3. CASE o.rc = "OK"
      BY <2>1, <2>3, EndsLight DEF Answer, DarkState
    <2>4. CASE o.rc # "OK"
      <3>1. o.hw \in Hardware /\ o.rc = "ERR"
        BY <2>2, <2>4 DEF BroughtUp
      <3>2. Bare(hw)
        BY <2>2 DEF DarkIsBare, DarkState
      <3>3. Bare(o.hw)
        BY <1>0, <3>1, <3>2, BareBringUp
      <3> QED
        BY <2>1, <3>1, <3>3, EndsBare DEF Answer
    <2> QED
      BY <2>3, <2>4
  <1>6. CASE StoppedRelease
    <2>1. KeepsBare(hw, releaseChannels(hw)) /\ Ok(releaseChannels(hw)).hw = releaseChannels(hw)
      BY <1>0, DelChannelsType, BareChannels DEF KeepsBare, releaseChannels, delChannels, Ok
    <2> QED
      BY <1>6, <2>1, ApplyBare DEF StoppedRelease
  <1>7. CASE StoppedSendCommand
    <2>1. \A o \in sendCommand(hw, Next_cmd.arg, isCaptureRunning) : KeepsBare(hw, o.hw)
      BY <1>0, SendCommandType, BareCommand DEF KeepsBare, Outcome
    <2> QED
      BY <1>7, <2>1, ApplyBare DEF StoppedSendCommand
  <1>8. CASE \/ EnableMsg("PREVIEW_STOPPED") \/ DisableMsg("PREVIEW_STOPPED")
             \/ SetParams("PREVIEW_STOPPED") \/ CommitParams("PREVIEW_STOPPED")
             \/ ForgetRestart("PREVIEW_STOPPED") \/ EvtDone("PREVIEW_STOPPED")
    BY <1>8, SharedBare
  <1> QED
    BY <1>1, <1>2, <1>3, <1>4, <1>5, <1>6, <1>7, <1>8
       DEF procEvtPreviewStoppedState

(* A start that is undone when it fails. *)
LEMMA ReadyStartedBare ==
    ASSUME NEW h \in Hardware, NEW o \in ReadyStarted(h), o.rc # "OK"
    PROVE  o.hw \in Hardware /\ Bare(o.hw)
  <1>1. PICK s \in startPreview(h) :
           o = IF s.rc = "OK" THEN s ELSE Err(unpreparePreview(s.hw))
    BY DEF ReadyStarted
  <1>2. s.hw \in Hardware
    BY StartPreviewType DEF Outcome
  <1>3. o.hw = unpreparePreview(s.hw)
    BY <1>1 DEF Err
  <1> QED
    BY <1>2, <1>3, StopPreviewType, StoppedBare

(* Every handler of QCAMERA_SM_STATE_PREVIEW_READY. *)
LEMMA ReadyIsBare ==
    ASSUME SmInv, DarkIsBare, RestartsBare, procEvtPreviewReadyState
    PROVE  DarkIsBare'
  <1>0. hw \in Hardware /\ "PREVIEW_READY" \notin DarkState /\ "PREVIEWING" \notin DarkState
    BY HwType DEF DarkState
  <1>1. CASE ReadyAcknowledged \/ ReadyRefused
             \/ Ignore("PREVIEW_READY",
                       {"STOP_CAPTURE_CHANNEL", "PREP_SNAPSHOT_DONE",
                        "READY_FOR_SNAPSHOT", "DAEMON_DIED"})
    BY <1>1, SimpleBare DEF ReadyAcknowledged, ReadyRefused
  <1>2. CASE ReadySetWindow
    <2> DEFINE w == "window" \in Next_cmd.arg
               h == [hw EXCEPT !.window = w]
    <2>1. w \in BOOLEAN
      OBVIOUS
    <2>2. h \in Hardware
      <3> HIDE DEF w
      <3> QED
        BY <1>0, <2>1 DEF Hardware
    <2>3. \/ \E o \in ReadyStarted(h) : Answer(AfterStart(o.rc), o)
          \/ Answer("PREVIEW_READY", Ok(h))
      BY <1>2 DEF ReadySetWindow
    <2> HIDE DEF w, h
    <2> QED
      BY <1>0, <2>2, <2>3, ReadyStartedBare, EndsLight, EndsBare DEF Answer, AfterStart
  <1>3. CASE ReadyStart
    <2>1. PICK o \in ReadyStarted(hw) : Answer(AfterStart(o.rc), Ok(o.hw))
      BY <1>3 DEF ReadyStart
    <2>2. Ok(o.hw).hw = o.hw
      BY DEF Ok
    <2> QED
      BY <1>0, <2>1, <2>2, ReadyStartedBare, EndsLight, EndsBare DEF Answer, AfterStart
  <1>4. CASE ReadyStartWithoutWindow
    BY <1>0, <1>4, EndsLight DEF ReadyStartWithoutWindow, Answer
  <1>5. CASE ReadyStop
    <2>1. Ok(unpreparePreview(hw)).hw = unpreparePreview(hw)
      BY DEF Ok
    <2> QED
      BY <1>0, <1>5, <2>1, StopPreviewType, StoppedBare, EndsBare DEF ReadyStop, Answer
  <1>6. CASE ReadyParamsStop \/ ReadySendCommand
    BY <1>0, <1>6, ApplyBare DEF ReadyParamsStop, ReadySendCommand
  <1>7. CASE ReadyParamsRestart
    <2>1. PICK o \in preparePreview(hw, FALSE) :
             Answer(IF o.rc = "OK" THEN "PREVIEW_READY" ELSE "PREVIEW_STOPPED",
                    [o EXCEPT !.hw.needRestart = FALSE])
      BY <1>7 DEF ReadyParamsRestart
    <2>2. o \in Outcome /\ Bare(hw)
      BY <1>0, <1>7, PreparePreviewType DEF ReadyParamsRestart, RestartsBare
    <2>3. CASE o.rc = "OK"
      BY <1>0, <2>1, <2>3, EndsLight DEF Answer
    <2>4. CASE o.rc # "OK"
      <3>1. o.hw \in Hardware /\ o.rc = "ERR"
        BY <2>2, <2>4 DEF Outcome
      <3>2. Bare(o.hw)
        BY <1>0, <2>2, <3>1, BarePrepare
      <3>3. /\ [o EXCEPT !.hw.needRestart = FALSE].hw \in Hardware
            /\ Bare([o EXCEPT !.hw.needRestart = FALSE].hw)
        BY <2>2, <3>2, NeedRestartType, BareSame
      <3> QED
        BY <2>1, <3>3, EndsBare DEF Answer
    <2> QED
      BY <2>3, <2>4
  <1>8. CASE \/ EnableMsg("PREVIEW_READY") \/ DisableMsg("PREVIEW_READY")
             \/ SetParams("PREVIEW_READY") \/ CommitParams("PREVIEW_READY")
             \/ EvtDone("PREVIEW_READY")
    BY <1>8, SharedBare
  <1> QED
    BY <1>1, <1>2, <1>3, <1>4, <1>5, <1>6, <1>7, <1>8
       DEF procEvtPreviewReadyState

(* A regular capture: done, preview is gone; refused, it comes back or is  *)
(* gone as well.                                                           *)
LEMMA PreviewingTakeRegularBare ==
    ASSUME SmInv, PreviewingTakeRegular
    PROVE  DarkIsBare'
  <1> DEFINE Taken(o) ==
               IF o.rc = "OK" THEN Answer("PIC_TAKING", o)
               ELSE \E b \in prepareStartOrUndo(stopPreview(o.hw), TRUE) :
                       Answer(AfterStart(b.rc), Err(b.hw))
  <1>0. PICK h \in WithoutHint(hw) : ~ ZslOrLongshot(h) /\ \E o \in takePicture(h) : Taken(o)
    BY DEF PreviewingTakeRegular
  <1>1. PICK o \in takePicture(h) : Taken(o)
    BY <1>0
  <1>2. h \in Hardware /\ ~ h.p.zsl
    BY <1>0, WithoutHintType, HwType DEF ZslOrLongshot
  <1>3. o \in Outcome /\ o.hw \in Hardware
    BY <1>2, TakePictureType DEF Outcome
  <1>4. CASE o.rc = "OK"
    BY <1>1, <1>2, <1>3, <1>4, BareTake, EndsBare DEF Answer
  <1>5. CASE o.rc # "OK"
    <2>1. PICK b \in prepareStartOrUndo(stopPreview(o.hw), TRUE) :
             Answer(AfterStart(b.rc), Err(b.hw))
      BY <1>1, <1>5
    <2>2. stopPreview(o.hw) \in Hardware /\ Bare(stopPreview(o.hw))
      BY <1>3, StopPreviewType, StoppedBare
    <2>3. b \in Outcome /\ Err(b.hw).hw = b.hw
      BY <2>2, PrepareStartOrUndoType DEF Err
    <2>4. CASE b.rc = "OK"
      BY <2>1, <2>4, EndsLight DEF Answer, AfterStart, DarkState
    <2>5. CASE b.rc # "OK"
      <3>1. b.hw \in Hardware /\ b.rc = "ERR"
        BY <2>3, <2>5 DEF Outcome
      <3>2. Bare(b.hw)
        BY <2>2, <3>1, BareUndone
      <3> QED
        BY <2>1, <2>3, <3>1, <3>2, EndsBare DEF Answer
    <2> QED
      BY <2>4, <2>5
  <1> QED
    BY <1>4, <1>5

(* Every handler of QCAMERA_SM_STATE_PREVIEWING. *)
LEMMA PreviewingIsBare ==
    ASSUME ~ RestartEnabled, SmInv, DarkIsBare, procEvtPreviewingState
    PROVE  DarkIsBare'
  <1>0. /\ hw \in Hardware
        /\ {"PREVIEWING", "RECORDING", "PREPARE_SNAPSHOT", "PREVIEW_PIC_TAKING"}
              \cap DarkState = {}
    BY HwType DEF DarkState
  <1>1. CASE PreviewingAcknowledged \/ PreviewingRefused
             \/ Ignore("PREVIEWING",
                       {"STOP_CAPTURE_CHANNEL", "PREP_SNAPSHOT_DONE",
                        "READY_FOR_SNAPSHOT", "DAEMON_DIED"})
    BY <1>1, SimpleBare DEF PreviewingAcknowledged, PreviewingRefused
  <1>2. CASE PreviewingEnableMsg \/ PreviewingDisableMsg \/ PreviewingStartAgain
    BY <1>0, <1>2, EndsLight DEF PreviewingEnableMsg, PreviewingDisableMsg,
       PreviewingStartAgain, Answer
  <1>3. CASE \/ PreviewingParamsStop \/ PreviewingPreStartRecording
             \/ PreviewingPreTakePicture
    BY <1>0, <1>3, ApplyBare DEF PreviewingParamsStop,
       PreviewingPreStartRecording, PreviewingPreTakePicture
  <1>4. CASE PreviewingParamsRestart
    <2>1. PICK o \in BringUp(hw, FALSE, TRUE) :
             Answer(IF o.prepared THEN AfterStart(o.rc) ELSE "PREVIEWING",
                    [o EXCEPT !.hw.needRestart = FALSE])
      BY <1>4 DEF PreviewingParamsRestart
    <2>2. o \in BroughtUp
      BY <1>0, BringUpType
    <2>3. CASE ~ o.prepared \/ o.rc = "OK"
      BY <1>0, <2>1, <2>3, EndsLight DEF Answer, AfterStart
    <2>4. CASE o.prepared /\ o.rc # "OK"
      <3>1. o.hw \in Hardware /\ o.rc = "ERR"
        BY <2>2, <2>4 DEF BroughtUp
      <3>2. Bare(o.hw)
        BY <1>0, <2>4, <3>1, BareBringUp
      <3>3. /\ [o EXCEPT !.hw.needRestart = FALSE].hw \in Hardware
            /\ [o EXCEPT !.hw.needRestart = FALSE].hw.ch = o.hw.ch
        BY <2>2 DEF BroughtUp, Hardware
      <3>4. Bare([o EXCEPT !.hw.needRestart = FALSE].hw)
        BY <3>2, <3>3, BareSame
      <3> QED
        BY <2>1, <3>3, <3>4, EndsBare DEF Answer
    <2> QED
      BY <2>3, <2>4
  <1>5. CASE PreviewingStop
    <2>1. Ok(stopPreview(hw)).hw = stopPreview(hw)
      BY DEF Ok
    <2> QED
      BY <1>0, <1>5, <2>1, StopPreviewType, StoppedBare, EndsBare
         DEF PreviewingStop, Answer
  <1>6. CASE PreviewingStartRecording \/ PreviewingPrepareSnapshot
    BY <1>0, <1>6, EndsLight
       DEF PreviewingStartRecording, PreviewingPrepareSnapshot, Answer
  <1>7. CASE PreviewingTakeZsl
    BY <1>0, <1>7, EndsLight DEF PreviewingTakeZsl, Answer
  <1>8. CASE PreviewingTakeRestart
    BY <1>8 DEF PreviewingTakeRestart, EarlyRestart
  <1>9. CASE PreviewingTakeRegular
    BY <1>9, PreviewingTakeRegularBare
  <1>10. CASE PreviewingSendCommand
    BY <1>0, <1>10, EndsLight DEF PreviewingSendCommand, Answer
  <1>11. CASE \/ SetParams("PREVIEWING") \/ CommitParams("PREVIEWING")
              \/ EvtDone("PREVIEWING")
    BY <1>11, SharedBare
  <1> QED
    BY <1>1, <1>2, <1>3, <1>4, <1>5, <1>6, <1>7, <1>8, <1>9, <1>10, <1>11
       DEF procEvtPreviewingState

(* Every handler of QCAMERA_SM_STATE_PREPARE_SNAPSHOT. *)
LEMMA PrepareSnapshotIsBare ==
    ASSUME SmInv, DarkIsBare, procEvtPrepareSnapshotState
    PROVE  DarkIsBare'
  <1>1. CASE PrepareSnapshotRefused
             \/ Ignore("PREPARE_SNAPSHOT",
                       {"STOP_CAPTURE_CHANNEL", "READY_FOR_SNAPSHOT"})
    BY <1>1, SimpleBare DEF PrepareSnapshotRefused
  <1>2. CASE PrepareSnapshotDone
    BY <1>2, EndsLight DEF PrepareSnapshotDone, DarkState
  <1>3. CASE DaemonDied("PREPARE_SNAPSHOT") \/ EvtDone("PREPARE_SNAPSHOT")
    BY <1>3, SharedBare
  <1> QED
    BY <1>1, <1>2, <1>3 DEF procEvtPrepareSnapshotState

(* The requests of a running longshot change no channel. *)
LEMMA LongshotBare ==
    ASSUME SmInv, DarkIsBare, NEW s,
           LongshotPreTake(s) \/ LongshotTake(s) \/ NotLongshot(s)
    PROVE  DarkIsBare'
  <1>0. KeepsBare(hw, hw) /\ Ok(hw).hw = hw
    BY KeepsSame, HwType DEF Ok
  <1>1. \A o \in longShot(hw) : KeepsBare(hw, o.hw)
    BY <1>0, LongShotSame
  <1>2. CASE LongshotPreTake(s)
    BY <1>0, <1>2, ApplyBare DEF LongshotPreTake
  <1>3. CASE LongshotTake(s)
    BY <1>1, <1>3, ApplyBare DEF LongshotTake
  <1>4. CASE NotLongshot(s)
    BY <1>4, SimpleBare DEF NotLongshot
  <1> QED
    BY <1>2, <1>3, <1>4

(* Every handler of QCAMERA_SM_STATE_PIC_TAKING: none of them adds a       *)
(* channel of preview, unless it restarts preview.                         *)
LEMMA PicTakingIsBare ==
    ASSUME ~ RestartEnabled, SmInv, DarkIsBare, procEvtPicTakingState
    PROVE  DarkIsBare'
  <1>0. hw \in Hardware /\ cancelPicture(hw) \in Hardware
    BY HwType, CancelPictureType
  <1>00. m_state = "PIC_TAKING" => Bare(hw) /\ Bare(cancelPicture(hw))
    BY <1>0, BareCancel DEF DarkIsBare, DarkState
  <1>1. CASE PicTakingAcknowledged \/ PicTakingRefused
             \/ Ignore("PIC_TAKING", {"PREP_SNAPSHOT_DONE", "READY_FOR_SNAPSHOT"})
    BY <1>1, SimpleBare DEF PicTakingAcknowledged, PicTakingRefused
  <1>2. CASE PicTakingCancel
    <2>1. Ok(cancelPicture(hw)).hw = cancelPicture(hw)
      BY DEF Ok
    <2> QED
      BY <1>0, <1>00, <1>2, <2>1, EndsBare, OnFacts DEF PicTakingCancel, Answer
  <1>3. CASE PicTakingSendCommand
    <2>1. PICK o \in sendCommand(hw, Next_cmd.arg, TRUE) :
             Answer(AfterCommand("PIC_TAKING"), o)
      BY <1>3 DEF PicTakingSendCommand
    <2>2. o.hw \in Hardware
      <3>1. o \in Outcome
        BY <1>0, SendCommandType
      <3> QED
        BY <3>1 DEF Outcome
    <2>3. Bare(o.hw)
      <3>1. Bare(hw)
        BY <1>00, <1>3, OnFacts DEF PicTakingSendCommand
      <3> QED
        BY <1>0, <3>1, BareCommand
    <2> QED
      BY <2>1, <2>2, <2>3, EndsBare DEF Answer
  <1>4. CASE PicTakingStopCaptureChannel
    <2> DEFINE o == stopCaptureChannel(hw)
    <2>1. Answer("PIC_TAKING", o) /\ Bare(hw)
      BY <1>00, <1>4, OnFacts DEF PicTakingStopCaptureChannel
    <2>2. o.hw \in Hardware
      BY <1>0, StopChannelType DEF stopCaptureChannel, Channel, Outcome
    <2>3. o.hw = hw \/ o.hw = WithChannels(hw, {"CAPTURE"}, "added")
      BY DEF stopCaptureChannel, stopChannel, Ok, Err
    <2>4. Bare(WithChannels(hw, {"CAPTURE"}, "added"))
      <3>1. {"CAPTURE"} \cap PreviewChannels = {}
        BY DEF PreviewChannels
      <3> QED
        BY <1>0, <2>1, <3>1, BareChannels
    <2> HIDE DEF o
    <2> QED
      BY <2>1, <2>2, <2>3, <2>4, EndsBare DEF Answer
  <1>5. CASE PicTakingDone
    BY <1>0, <1>00, <1>5, EndsBare, OnFacts DEF PicTakingDone
  <1>6. CASE PicTakingDoneRestart
    BY <1>6 DEF PicTakingDoneRestart, EarlyRestart
  <1>7. CASE \/ LongshotPreTake("PIC_TAKING") \/ LongshotTake("PIC_TAKING")
             \/ NotLongshot("PIC_TAKING")
    BY <1>7, LongshotBare
  <1>8. CASE \/ EnableMsg("PIC_TAKING") \/ DisableMsg("PIC_TAKING")
             \/ SetParams("PIC_TAKING") \/ CommitParams("PIC_TAKING")
             \/ ForgetRestart("PIC_TAKING") \/ DaemonDied("PIC_TAKING")
    BY <1>8, SharedBare
  <1> QED
    BY <1>1, <1>2, <1>3, <1>4, <1>5, <1>6, <1>7, <1>8
       DEF procEvtPicTakingState

(* stopRecording may fail; preview is gone all the same. *)
LEMMA RecordingStoppedBare ==
    ASSUME NEW h \in Hardware
    PROVE  LET g == stopPreview(stopRecording(h).hw)
           IN  g \in Hardware /\ Bare(g) /\ Ok(g).hw = g
  <1>1. stopRecording(h).hw \in Hardware
    BY StopRecordingType DEF Outcome
  <1> QED
    BY <1>1, StopPreviewType, StoppedBare DEF Ok

(* The handlers of the two recording states. *)
LEMMA RecordingIsBare ==
    ASSUME SmInv, DarkIsBare,
           procEvtRecordingState \/ procEvtVideoPicTakingState
    PROVE  DarkIsBare'
  <1>0. /\ hw \in Hardware
        /\ {"PREVIEWING", "RECORDING", "VIDEO_PIC_TAKING"} \cap DarkState = {}
    BY HwType DEF DarkState
  <1>1. CASE \/ RecordingAcknowledged \/ RecordingRefused
             \/ VideoPicAcknowledged \/ VideoPicRefused
             \/ \E s, E : Ignore(s, E)
    BY <1>1, SimpleBare DEF RecordingAcknowledged, RecordingRefused,
       VideoPicAcknowledged, VideoPicRefused
  <1>2. CASE RecordingSendCommand \/ VideoPicSendCommand
    BY <1>0, <1>2, ApplyBare DEF RecordingSendCommand, VideoPicSendCommand
  <1>3. CASE \/ RecordingTakePicture \/ RecordingStop \/ VideoPicCancel
             \/ VideoPicDone \/ VideoPicStopRecording
             \/ RecordingSetParams("RECORDING") \/ RecordingSetParams("VIDEO_PIC_TAKING")
    BY <1>0, <1>3, EndsLight DEF RecordingTakePicture, RecordingStop,
       VideoPicCancel, VideoPicDone, VideoPicStopRecording, RecordingSetParams, Answer
  <1>4. CASE RecordingStopPreview \/ VideoPicStopPreview
    BY <1>0, <1>4, RecordingStoppedBare, EndsBare
       DEF RecordingStopPreview, VideoPicStopPreview, Answer
  <1>5. CASE \E s : CommitParams(s) \/ EnableMsg(s) \/ DisableMsg(s) \/ EvtDone(s)
    BY <1>5, SharedBare
  <1> QED
    BY <1>1, <1>2, <1>3, <1>4, <1>5
       DEF procEvtRecordingState, procEvtVideoPicTakingState

(* Every handler of QCAMERA_SM_STATE_PREVIEW_PIC_TAKING: a restart that    *)
(* finds preview stopped and fails leaves a capture without it.            *)
LEMMA PreviewPicIsBare ==
    ASSUME SmInv, DarkIsBare, RestartsBare, procEvtPreviewPicTakingState
    PROVE  DarkIsBare'
  <1>0. /\ hw \in Hardware
        /\ {"PREVIEWING", "VIDEO_PIC_TAKING", "PREVIEW_PIC_TAKING"} \cap DarkState = {}
    BY HwType DEF DarkState
  <1>1. CASE PreviewPicAcknowledged \/ PreviewPicRefused
             \/ PreviewPicRecordRefused
             \/ Ignore("PREVIEW_PIC_TAKING", {"STOP_CAPTURE_CHANNEL"})
    BY <1>1, SimpleBare DEF PreviewPicAcknowledged, PreviewPicRefused,
       PreviewPicRecordRefused
  <1>2. CASE PreviewPicParamsStop \/ PreviewPicPreStartRecording
    BY <1>0, <1>2, ApplyBare DEF PreviewPicParamsStop, PreviewPicPreStartRecording
  <1>3. CASE PreviewPicParamsRestart
    <2>1. PICK o \in BringUp(hw, TRUE, TRUE) :
             Answer(IF o.rc = "OK" THEN "PREVIEW_PIC_TAKING" ELSE "PIC_TAKING",
                    [o EXCEPT !.hw.needRestart = FALSE])
      BY <1>3 DEF PreviewPicParamsRestart
    <2>2. o \in BroughtUp /\ Bare(hw)
      BY <1>0, <1>3, BringUpType DEF PreviewPicParamsRestart, RestartsBare
    <2>3. CASE o.rc = "OK"
      BY <1>0, <2>1, <2>3, EndsLight DEF Answer
    <2>4. CASE o.rc # "OK"
      <3>1. o.hw \in Hardware /\ o.rc = "ERR"
        BY <2>2, <2>4 DEF BroughtUp
      <3>2. Bare(o.hw)
        BY <1>0, <2>2, <3>1, BareBringUp
      <3>3. /\ [o EXCEPT !.hw.needRestart = FALSE].hw \in Hardware
            /\ [o EXCEPT !.hw.needRestart = FALSE].hw.ch = o.hw.ch
        BY <2>2 DEF BroughtUp, Hardware
      <3>4. Bare([o EXCEPT !.hw.needRestart = FALSE].hw)
        BY <3>2, <3>3, BareSame
      <3> QED
        BY <2>1, <3>3, <3>4, EndsBare DEF Answer
    <2> QED
      BY <2>3, <2>4
  <1>4. CASE PreviewPicSendCommand
    BY <1>0, <1>4, EndsLight DEF PreviewPicSendCommand, AfterCommand, Answer
  <1>5. CASE PreviewPicCancel \/ PreviewPicDone \/ PreviewPicPrepareSnapshot
    BY <1>0, <1>5, EndsLight DEF PreviewPicCancel, PreviewPicDone,
       PreviewPicPrepareSnapshot, Answer
  <1>6. CASE PreviewPicStopPreview
    <2>0. \A x : Ok(x).hw = x
      BY DEF Ok
    <2>1. \E g \in {cancelPicture(hw), hw} : \E rs :
             Finish("PREVIEW_STOPPED", unpreparePreview(g), rs)
      BY <1>6, <2>0, Zenon DEF PreviewPicStopPreview, Answer
    <2>2. cancelPicture(hw) \in Hardware
      BY <1>0, CancelPictureType
    <2> QED
      BY <1>0, <2>1, <2>2, StopPreviewType, StoppedBare, EndsBare
  <1>7. CASE PreviewPicStartRecording
    BY <1>0, <1>7, EndsLight, OnFacts DEF PreviewPicStartRecording, Answer
  <1>8. CASE \/ RetroEvent("PREP_SNAPSHOT_DONE", "PREPARE_SNAPSHOT")
             \/ RetroEvent("READY_FOR_SNAPSHOT", "TAKE_PICTURE")
    BY <1>0, <1>8, EndsLight DEF RetroEvent
  <1>9. CASE \/ LongshotPreTake("PREVIEW_PIC_TAKING")
             \/ LongshotTake("PREVIEW_PIC_TAKING")
             \/ NotLongshot("PREVIEW_PIC_TAKING")
    BY <1>9, LongshotBare
  <1>10. CASE \/ EnableMsg("PREVIEW_PIC_TAKING")
              \/ DisableMsg("PREVIEW_PIC_TAKING")
              \/ SetParams("PREVIEW_PIC_TAKING")
              \/ CommitParams("PREVIEW_PIC_TAKING")
              \/ DaemonDied("PREVIEW_PIC_TAKING")
    BY <1>10, SharedBare
  <1> QED
    BY <1>1, <1>2, <1>3, <1>4, <1>5, <1>6, <1>7, <1>8, <1>9, <1>10
       DEF procEvtPreviewPicTakingState

(* The state machine thread, while preview is not restarted by a capture   *)
(* and every restart of set_parameters finds it stopped.                   *)
LEMMA MachineKeepsDark ==
    ASSUME ~ RestartEnabled, SmInv, DarkIsBare, RestartsBare, smEvtProcRoutine
    PROVE  DarkIsBare'
  <1>1. CASE stateMachine
    BY <1>1, StoppedIsBare, ReadyIsBare, PreviewingIsBare, PrepareSnapshotIsBare,
       PicTakingIsBare, RecordingIsBare, PreviewPicIsBare DEF stateMachine
  <1>2. CASE Exit
    BY <1>2 DEF Exit, DarkIsBare, Bare
  <1> QED
    BY <1>1, <1>2 DEF smEvtProcRoutine

(* The live snapshot thread adds no channel: it starts one that exists.    *)
LEMMA ThreadKeepsBare ==
    ASSUME SmInv, Bare(hw), Live_Snapshot_thread
    PROVE  Bare(hw')
  <1> SUFFICES hw'.ch = hw.ch
    BY BareSame
  <1>0. hw \in Hardware
    BY HwType
  <1>1. hw.ch["SNAPSHOT"] = "null"
    BY DEF Bare, PreviewChannels
  <1>2. \A pp : [hw EXCEPT !.postproc = pp].ch = hw.ch
    BY <1>0 DEF Hardware
  <1>3. CASE LiveTakeStarts
    BY <1>1, <1>3 DEF LiveTakeStarts, startChannel, Err
  <1>4. CASE LiveTakeFails \/ LiveTakeAbandoned
    <2>1. \A o \in MayErr({hw}) : o.hw = hw
      BY DEF MayErr, Err
    <2> QED
      BY <1>2, <1>4, <2>1 DEF LiveTakeFails, LiveTakeAbandoned
  <1>5. CASE LiveCancel
    <2>1. stopChannel(hw, "SNAPSHOT").hw = hw
      BY <1>1 DEF stopChannel, Err
    <2> QED
      BY <1>2, <1>5, <2>1 DEF LiveCancel
  <1> QED
    BY <1>3, <1>4, <1>5 DEF Live_Snapshot_thread

LEMMA ThreadKeepsDark ==
    ASSUME SmInv, DarkIsBare, Live_Snapshot_thread
    PROVE  DarkIsBare'
  <1>1. m_state' = m_state
    BY DEF Live_Snapshot_thread, LiveTakeStarts, LiveTakeFails, LiveTakeAbandoned, LiveCancel
  <1> QED
    BY <1>1, ThreadKeepsBare DEF DarkIsBare

(* The callers touch no channel. *)
LEMMA CallerKeepsDark ==
    ASSUME DarkIsBare, CallerStep
    PROVE  DarkIsBare'
  BY DEF DarkIsBare, Bare, CallerStep

=============================================================================
