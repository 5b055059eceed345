----------------------- MODULE QCamera2Hardware_proofs -----------------------
(***************************************************************************)
(* What the methods of QCamera2HardwareInterface return: every outcome is  *)
(* a return code and an object of the right type, and each method changes  *)
(* only the channels that are its own.                                     *)
(***************************************************************************)
EXTENDS QCamera2Hardware, TLAPS

(* Giving some channels a state keeps the object an object. *)
LEMMA WithChannelsType ==
    ASSUME NEW h \in Hardware, NEW S, NEW v \in ChannelState
    PROVE  WithChannels(h, S, v) \in Hardware
  BY DEF WithChannels, Hardware

(* Deleting channels yields an object again. *)
LEMMA DelChannelsType ==
    ASSUME NEW h \in Hardware, NEW S
    PROVE  delChannels(h, S) \in Hardware
  BY WithChannelsType DEF delChannels, ChannelState

(* The two kinds of outcome, and what each is made of. *)
LEMMA OutcomeType ==
    ASSUME NEW h \in Hardware
    PROVE  /\ Ok(h) \in Outcome /\ Ok(h).rc = "OK" /\ Ok(h).hw = h
           /\ Err(h) \in Outcome /\ Err(h).rc = "ERR" /\ Err(h).hw = h
  BY DEF Ok, Err, Outcome

(* Failures outside this code are outcomes like any other. *)
LEMMA MayErrType ==
    ASSUME NEW S, S \subseteq Hardware
    PROVE  MayErr(S) \subseteq Outcome
  BY OutcomeType DEF MayErr

(* stopChannel returns an outcome, whether the channel exists or not. *)
LEMMA StopChannelType ==
    ASSUME NEW h \in Hardware, NEW c \in Channel
    PROVE  stopChannel(h, c) \in Outcome
  BY WithChannelsType, OutcomeType DEF stopChannel, ChannelState

(* So does startChannel. *)
LEMMA StartChannelType ==
    ASSUME NEW h \in Hardware, NEW c \in Channel
    PROVE  startChannel(h, c) \subseteq Outcome
  <1>1. WithChannels(h, {c}, "started") \in Hardware
    BY WithChannelsType DEF ChannelState
  <1>2. MayErr({h}) \subseteq Outcome
    BY MayErrType
  <1> QED
    BY <1>1, <1>2, OutcomeType DEF startChannel

(* Stopping or unpreparing preview cannot fail. *)
LEMMA StopPreviewType ==
    ASSUME NEW h \in Hardware
    PROVE  stopPreview(h) \in Hardware /\ unpreparePreview(h) \in Hardware
  BY DelChannelsType DEF stopPreview, unpreparePreview

(* Neither can cancelPicture, in either mode. *)
LEMMA CancelPictureType ==
    ASSUME NEW h \in Hardware
    PROVE  cancelPicture(h) \in Hardware
  <1>1. [h EXCEPT !.postproc = FALSE] \in Hardware
    BY DEF Hardware
  <1> QED
    BY <1>1, DelChannelsType DEF cancelPicture

-----------------------------------------------------------------------------
(* Longshot and capture *)

(* LONGSHOT_OFF returns an object and disturbs the CAPTURE channel only. *)
LEMMA LongshotOffType ==
    ASSUME NEW h \in Hardware, NEW cap
    PROVE  /\ longshotOff(h, cap) \in Hardware
           /\ longshotOff(h, cap).ch["VIDEO"] = h.ch["VIDEO"]
  <1> DEFINE g == IF h.longshot /\ cap
                  THEN [cancelPicture(h) EXCEPT !.raised = TRUE] ELSE h
  <1>1. cancelPicture(h) \in Hardware
    BY CancelPictureType
  <1>2. cancelPicture(h).ch["VIDEO"] = h.ch["VIDEO"]
    BY DEF cancelPicture, delChannels, WithChannels, Hardware, Channel
  <1>3. g \in Hardware /\ g.ch["VIDEO"] = h.ch["VIDEO"]
    BY <1>1, <1>2 DEF Hardware
  <1>4. longshotOff(h, cap) = [g EXCEPT !.prepSnapRun = FALSE,
                                        !.longshot = FALSE]
    BY DEF longshotOff
  <1> HIDE DEF g
  <1> QED
    BY <1>3, <1>4 DEF Hardware

(* A command of the application leaves the recording alone. *)
LEMMA SendCommandType ==
    ASSUME NEW h \in Hardware, NEW cmd, NEW cap, NEW o \in sendCommand(h, cmd, cap)
    PROVE  o \in Outcome /\ o.hw.ch["VIDEO"] = h.ch["VIDEO"]
  <1>1. CASE "LONGSHOT_ON" \in cmd
    <2> DEFINE on == [h EXCEPT !.longshot = TRUE, !.prepSnapRun = FALSE]
    <2>1. on \in Hardware /\ on.ch["VIDEO"] = h.ch["VIDEO"]
      BY DEF Hardware
    <2>2. o \in {Err(h), Ok(on), Err(on)}
      BY <1>1 DEF sendCommand, longshotOn, MayErr
    <2> HIDE DEF on
    <2> QED
      BY <2>1, <2>2, OutcomeType
  <1>2. CASE "LONGSHOT_ON" \notin cmd
    <2>1. o \in {Ok(longshotOff(h, cap)), Err(longshotOff(h, cap))}
      BY <1>2 DEF sendCommand, MayErr
    <2> QED
      BY <2>1, LongshotOffType, OutcomeType
  <1> QED
    BY <1>1, <1>2

(* The CAPTURE channel and the post-processor in any combination. *)
LEMMA WithCaptureType ==
    ASSUME NEW h \in Hardware, NEW v \in ChannelState, NEW pp \in BOOLEAN
    PROVE  WithCapture(h, v, pp) \in Hardware
  <1>1. WithChannels(h, {"CAPTURE"}, v) \in Hardware
    BY WithChannelsType
  <1> QED
    BY <1>1 DEF WithCapture, Hardware

(* takePicture, every early return included. *)
LEMMA TakePictureType ==
    ASSUME NEW h \in Hardware
    PROVE  takePicture(h) \subseteq Outcome
  <1>1. takeZslPicture(h) \subseteq Outcome
    <2> DEFINE shot == [h EXCEPT !.postproc = TRUE]
               not == [h EXCEPT !.postproc = FALSE]
    <2>1. shot \in Hardware /\ not \in Hardware
      BY DEF Hardware
    <2>2. takeZslPicture(h) \subseteq
             {Err(h), Ok(shot), Err(shot), Err(not)}
      BY DEF takeZslPicture, MayErr
    <2> HIDE DEF shot, not
    <2> QED
      BY <2>1, <2>2, OutcomeType
  <1>2. takeRegularPicture(h) \subseteq Outcome
    <2> DEFINE g == stopPreview(h)
               S == {g} \cup {WithCapture(g, l[1], l[2]) : l \in HalfTaken(h)}
    <2>1. g \in Hardware
      BY StopPreviewType
    <2>2. S \subseteq {g} \cup {WithCapture(g, v, pp) :
                                   v \in ChannelState, pp \in BOOLEAN}
      <3>1. h.postproc \in BOOLEAN
        BY DEF Hardware
      <3>2. HalfTaken(h) \subseteq ChannelState \X BOOLEAN
        <4>1. \A v \in ChannelState, b \in BOOLEAN :
                 <<v, b>> \in ChannelState \X BOOLEAN
          OBVIOUS
        <4>2. {"null", "added", "started"} \subseteq ChannelState
          BY DEF ChannelState
        <4>3. \A l \in HalfTaken(h) :
                 \E v \in ChannelState, b \in BOOLEAN : l = <<v, b>>
          BY <3>1, <4>2, Zenon DEF HalfTaken
        <4> QED
          BY <4>1, <4>3, Zenon
      <3>3. \A l \in ChannelState \X BOOLEAN :
               l[1] \in ChannelState /\ l[2] \in BOOLEAN
        OBVIOUS
      <3>4. \A l \in HalfTaken(h) : l[1] \in ChannelState /\ l[2] \in BOOLEAN
        BY <3>2, <3>3
      <3> HIDE DEF g
      <3> QED
        BY <3>4
    <2>3. S \subseteq Hardware
      BY <2>1, <2>2, WithCaptureType
    <2>4. MayErr(S) \subseteq Outcome
      BY <2>3, MayErrType
    <2>5. WithCapture(g, "started", TRUE) \in Hardware
      BY <2>1, WithCaptureType DEF ChannelState
    <2>6. takeRegularPicture(h) = {Ok(WithCapture(g, "started", TRUE))}
                                     \cup MayErr(S)
      BY DEF takeRegularPicture
    <2> HIDE DEF g, S
    <2> QED
      BY <2>4, <2>5, <2>6, OutcomeType
  <1> QED
    BY <1>1, <1>2 DEF takePicture

(* longShot finds its channel or fails. *)
LEMMA LongShotType ==
    ASSUME NEW h \in Hardware
    PROVE  longShot(h) \subseteq Outcome
  BY OutcomeType, MayErrType DEF longShot

-----------------------------------------------------------------------------
(* Preview *)

(* startPreview starts one of two channels. *)
LEMMA StartPreviewType ==
    ASSUME NEW h \in Hardware
    PROVE  startPreview(h) \subseteq Outcome
  BY StartChannelType DEF startPreview, Channel

(* preparePreview in all three modes, failing at any channel. *)
LEMMA PreparePreviewType ==
    ASSUME NEW h \in Hardware, NEW cap
    PROVE  preparePreview(h, cap) \subseteq Outcome
  <1> DEFINE g == IF h.longshot THEN longshotOff(h, cap) ELSE h
  <1>1. g \in Hardware
    BY LongshotOffType
  <1>2. \A k \in {g, h} : \A S :
           /\ WithChannels(k, S, "added") \in Hardware
           /\ delChannels(k, S) \in Hardware
    BY <1>1, WithChannelsType, DelChannelsType DEF ChannelState
  <1>3. \A k \in {g, h} : \A S :
           /\ Ok(WithChannels(k, S, "added")) \in Outcome
           /\ Err(delChannels(k, S)) \in Outcome
    BY <1>2, OutcomeType
  <1>4. Err(h) \in Outcome
    BY OutcomeType
  <1>5. ASSUME NEW o \in preparePreview(h, cap)
        PROVE  \/ o = Err(h)
               \/ \E k \in {g, h} : \E S : \/ o = Ok(WithChannels(k, S, "added"))
                                          \/ o = Err(delChannels(k, S))
    <2>1. CASE isZslPreview(h)
      BY <2>1 DEF preparePreview, MayErr
    <2>2. CASE ~ isZslPreview(h) /\ h.p.hint
      BY <2>2 DEF preparePreview, MayErr
    <2>3. CASE ~ isZslPreview(h) /\ ~ h.p.hint
      BY <2>3 DEF preparePreview, MayErr
    <2> QED
      BY <2>1, <2>2, <2>3
  <1> HIDE DEF g
  <1> QED
    BY <1>3, <1>4, <1>5

(* Its sequence with startPreview. *)
LEMMA PrepareAndStartType ==
    ASSUME NEW h \in Hardware, NEW cap
    PROVE  prepareAndStart(h, cap) \subseteq Outcome
  BY PreparePreviewType, StartPreviewType DEF prepareAndStart, Outcome

(* The sequence that is undone when the start fails. *)
LEMMA PrepareStartOrUndoType ==
    ASSUME NEW h \in Hardware, NEW cap
    PROVE  prepareStartOrUndo(h, cap) \subseteq Outcome
  <1> SUFFICES ASSUME NEW x \in prepareStartOrUndo(h, cap)
               PROVE  x \in Outcome
    OBVIOUS
  <1>1. PICK o \in preparePreview(h, cap) :
           x \in IF o.rc = "OK"
                 THEN {IF s.rc = "OK" THEN s ELSE Err(unpreparePreview(s.hw)) :
                          s \in startPreview(o.hw)}
                 ELSE {o}
    BY DEF prepareStartOrUndo
  <1>2. o \in Outcome /\ o.hw \in Hardware
    BY PreparePreviewType DEF Outcome
  <1>3. \A s \in startPreview(o.hw) : s \in Outcome /\ s.hw \in Hardware
    BY <1>2, StartPreviewType DEF Outcome
  <1>4. \A s \in startPreview(o.hw) : Err(unpreparePreview(s.hw)) \in Outcome
    BY <1>3, StopPreviewType, OutcomeType
  <1> QED
    BY <1>1, <1>2, <1>3, <1>4

-----------------------------------------------------------------------------
(* Parameters *)

(* Pending values in force are parameters again. *)
LEMMA CommittedType ==
    ASSUME NEW p \in Params
    PROVE  Committed(p) \in Params
  BY DEF Committed, Params

(* A commit changes parameters, never channels. *)
LEMMA CommitType ==
    ASSUME NEW h \in Hardware, NEW o \in commitParameterChanges(h)
    PROVE  o \in Outcome /\ o.hw.ch = h.ch
  <1> DEFINE g == [h EXCEPT !.p = Committed(h.p)]
  <1>1. g \in Hardware /\ g.ch = h.ch
    BY CommittedType DEF Hardware
  <1>2. o \in {Ok(g), Err(h)}
    BY DEF commitParameterChanges, MayErr
  <1> HIDE DEF g
  <1> QED
    BY <1>1, <1>2, OutcomeType

(* So are the values read from the string of the application. *)
LEMMA UpdatedParamsType ==
    ASSUME NEW p \in Params, NEW v
    PROVE  updatedParams(p, v) \in Params
  <1> DEFINE zv == "zsl" \in v
             hv == "hint" \in v
             z == IF zv = p.zslKey THEN p
                  ELSE [p EXCEPT !.zslKey = zv, !.zslNew = zv]
  <1>1. zv \in BOOLEAN /\ hv \in BOOLEAN
    OBVIOUS
  <1>2. z \in Params
    <2> HIDE DEF zv
    <2> QED
      BY <1>1 DEF Params
  <1>3. updatedParams(p, v) = IF hv = p.hintKey THEN z
                              ELSE [z EXCEPT !.hintTmp = hv, !.hintNew = hv]
    BY DEF updatedParams
  <1> HIDE DEF zv, hv, z
  <1> QED
    BY <1>1, <1>2, <1>3 DEF Params

(* Nor does an update. *)
LEMMA UpdateParametersType ==
    ASSUME NEW h \in Hardware, NEW v, NEW o \in updateParameters(h, v)
    PROVE  o \in Outcome /\ o.hw.ch = h.ch
  <1> DEFINE g == [h EXCEPT !.p = updatedParams(h.p, v),
                            !.needRestart = restartNeeded(h.p, v)]
  <1>1. updatedParams(h.p, v) \in Params
    BY UpdatedParamsType DEF Hardware
  <1>2. restartNeeded(h.p, v) \in BOOLEAN
    BY DEF restartNeeded
  <1>3. g \in Hardware /\ g.ch = h.ch
    BY <1>1, <1>2 DEF Hardware
  <1>4. o \in {Ok(g), Err(g)}
    BY DEF updateParameters, MayErr
  <1> HIDE DEF g
  <1> QED
    BY <1>3, <1>4, OutcomeType

(* A value the HAL commits itself, refused or not. *)
LEMMA CommitOrKeepType ==
    ASSUME NEW h \in Hardware, NEW p \in Params
    PROVE  CommitOrKeep(h, p) \subseteq Hardware
  BY CommittedType DEF CommitOrKeep, Hardware

(* The two values it commits. *)
LEMMA UpdateValueType ==
    ASSUME NEW h \in Hardware, NEW v \in BOOLEAN
    PROVE  /\ updateRecordingHintValue(h, v) \subseteq Hardware
           /\ updateZSLModeValue(h, v) \subseteq Hardware
  <1>1. /\ [h.p EXCEPT !.hintNew = v] \in Params
        /\ [h.p EXCEPT !.zslNew = v] \in Params
    BY DEF Hardware, Params
  <1> QED
    BY <1>1, CommitOrKeepType DEF updateRecordingHintValue, updateZSLModeValue

-----------------------------------------------------------------------------
(* Recording *)

(* preStartRecording, which may rebuild preview. *)
LEMMA PreStartRecordingType ==
    ASSUME NEW h \in Hardware, NEW cap
    PROVE  preStartRecording(h, cap) \subseteq Outcome
  <1>1. CASE h.p.hint
    BY <1>1, OutcomeType DEF preStartRecording
  <1>2. CASE ~ (h.p.hint)
    <2>1. updateRecordingHintValue(stopPreview(h), TRUE) \subseteq Hardware
      BY StopPreviewType, UpdateValueType
    <2>2. \A g \in updateRecordingHintValue(stopPreview(h), TRUE) :
             prepareAndStart(g, cap) \subseteq Outcome
      BY <2>1, PrepareAndStartType
    <2> QED
      BY <1>2, <2>2 DEF preStartRecording
  <1> QED
    BY <1>1, <1>2

(* preTakePicture, which may rebuild it for pictures. *)
LEMMA PreTakePictureType ==
    ASSUME NEW h \in Hardware, NEW cap
    PROVE  preTakePicture(h, cap) \subseteq Outcome
  <1>1. CASE ~ h.p.hint
    BY <1>1, OutcomeType DEF preTakePicture
  <1>2. CASE ~ (~ h.p.hint)
    <2>1. updateRecordingHintValue(stopPreview(h), FALSE) \subseteq Hardware
      BY StopPreviewType, UpdateValueType
    <2>2. \A g \in updateRecordingHintValue(stopPreview(h), FALSE) :
             prepareStartOrUndo(g, cap) \subseteq Outcome
      BY <2>1, PrepareStartOrUndoType
    <2> QED
      BY <1>2, <2>2 DEF preTakePicture
  <1> QED
    BY <1>1, <1>2

(* startRecording succeeds exactly with a streaming VIDEO channel. *)
LEMMA StartRecordingType ==
    ASSUME NEW h \in Hardware, NEW o \in startRecording(h)
    PROVE  /\ o \in Outcome
           /\ o.rc = "OK" => o.hw.ch["VIDEO"] = "started"
  <1>1. o \in Outcome
    BY StartChannelType DEF startRecording, Channel
  <1>2. o \in {Err(h), Ok(WithChannels(h, {"VIDEO"}, "started"))}
    BY DEF startRecording, startChannel, MayErr
  <1>3. WithChannels(h, {"VIDEO"}, "started").ch["VIDEO"] = "started"
    BY DEF WithChannels, Hardware, Channel
  <1> QED
    BY <1>1, <1>2, <1>3 DEF Ok, Err

(* stopRecording stops VIDEO or finds none. *)
LEMMA StopRecordingType ==
    ASSUME NEW h \in Hardware
    PROVE  stopRecording(h) \in Outcome
  BY StopChannelType DEF stopRecording, Channel

=============================================================================
