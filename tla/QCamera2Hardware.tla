-------------------------- MODULE QCamera2Hardware --------------------------
(***************************************************************************)
(* The part of QCamera2HardwareInterface (src/camera/QCamera2/HAL/         *)
(* QCamera2HWI.cpp) that the handlers of the camera state machine call:    *)
(* the channels of the session, the parameters that decide which of them   *)
(* exist, and the methods that add, start, stop and delete them.           *)
(*                                                                         *)
(* The object is one record, hw.  A method is an operator that returns the *)
(* set of its possible outcomes, each a record of the return code and the  *)
(* object the method leaves behind: a method that can fail for a reason    *)
(* outside this code (the camera daemon refuses a stream, an allocation    *)
(* fails) has a failing outcome for every point where it returns early,    *)
(* and these outcomes exist only when MayFail is TRUE.                     *)
(*                                                                         *)
(* Single-camera mode (the related-camera sync is off), JPEG picture       *)
(* format, no low-power, RDI, UBWC, TNR or offline-RAW mode: the CALLBACK, *)
(* RAW, METADATA and REPROCESS channels do not exist.                      *)
(***************************************************************************)
EXTENDS Naturals, FiniteSets

CONSTANT
    MayFail     \* TRUE: calls into the camera daemon may fail

ASSUME MayFailAssumption == MayFail \in BOOLEAN

Channel == {"ZSL", "PREVIEW", "VIDEO", "SNAPSHOT", "CAPTURE"}

(* NULL pointer in m_channels, a channel that is not streaming, streaming. *)
ChannelState == {"null", "added", "started"}

(***************************************************************************)
(* The parameters that matter here.  zslKey and hintKey are the strings    *)
(* kept in the parameter map, hintTmp the string waiting in m_tempMap, the *)
(* "New" fields the decoded values waiting for a commit, zsl and hint the  *)
(* values in force (m_bZslMode, m_bRecordingHint).                         *)
(***************************************************************************)
Params == [zslKey : BOOLEAN, zslNew : BOOLEAN, zsl : BOOLEAN,
           hintKey : BOOLEAN, hintTmp : BOOLEAN, hintNew : BOOLEAN,
           hint : BOOLEAN]

Hardware == [ch : [Channel -> ChannelState],   \* m_channels
             p : Params,                       \* mParameters
             needRestart : BOOLEAN,            \* m_bNeedRestart
             longshot : BOOLEAN,               \* mLongshotEnabled
             prepSnapRun : BOOLEAN,            \* mPrepSnapRun
             retro : BOOLEAN,                  \* bRetroPicture
             window : BOOLEAN,                 \* mPreviewWindow # NULL
             postproc : BOOLEAN,               \* post-processor started
             raised : BOOLEAN]                 \* SNAPSHOT_DONE posted by
                                               \* the running handler

InitHardware ==
    [ch |-> [c \in Channel |-> "null"],
     p |-> [zslKey |-> FALSE, zslNew |-> FALSE, zsl |-> FALSE,
            hintKey |-> FALSE, hintTmp |-> FALSE, hintNew |-> FALSE,
            hint |-> FALSE],
     needRestart |-> FALSE, longshot |-> FALSE, prepSnapRun |-> FALSE,
     retro |-> FALSE, window |-> FALSE, postproc |-> FALSE,
     raised |-> FALSE]

Status == {"OK", "ERR", "INVALID"}

Outcome == [rc : {"OK", "ERR"}, hw : Hardware]

Ok(h) == [rc |-> "OK", hw |-> h]
Err(h) == [rc |-> "ERR", hw |-> h]

(* The outcomes of calls that fail for reasons outside this code. *)
MayErr(S) == IF MayFail THEN {Err(h) : h \in S} ELSE {}

-----------------------------------------------------------------------------
(* Channels *)

WithChannels(h, S, v) ==
    [h EXCEPT !.ch = [c \in Channel |-> IF c \in S THEN v ELSE h.ch[c]]]

delChannels(h, S) == WithChannels(h, S, "null")

(* A channel that exists goes back to "added"; a missing one is an error. *)
stopChannel(h, c) ==
    IF h.ch[c] = "null" THEN Err(h)
    ELSE Ok(WithChannels(h, {c}, "added"))

startChannel(h, c) ==
    IF h.ch[c] = "null" THEN {Err(h)}
    ELSE {Ok(WithChannels(h, {c}, "started"))} \cup MayErr({h})

(* Channels of preview: a ZSL channel unless the application records. *)
isZslPreview(h) == h.p.zsl /\ ~ h.p.hint

PreviewChannels == {"ZSL", "PREVIEW", "VIDEO", "SNAPSHOT"}

unpreparePreview(h) == delChannels(h, PreviewChannels)

stopPreview(h) == unpreparePreview(h)

-----------------------------------------------------------------------------
(* Capture *)

(* Mutation: in ZSL mode there is no channel to stop, and nothing is. *)
cancelPicture_SkipsZsl(h) ==
    IF h.p.zsl THEN h
    ELSE delChannels([h EXCEPT !.postproc = FALSE], {"CAPTURE"})

(***************************************************************************)
(* cancelPicture stops the post-processor, then the channel that the       *)
(* CURRENT mode captures with: the ZSL channel keeps streaming, the        *)
(* CAPTURE channel is deleted.                                             *)
(***************************************************************************)
cancelPicture(h) ==
    LET stopped == [h EXCEPT !.postproc = FALSE]
    IN  IF h.p.zsl THEN stopped ELSE delChannels(stopped, {"CAPTURE"})

(* CAMERA_CMD_LONGSHOT_OFF; cap says that a capture is running. *)
longshotOff(h, cap) ==
    LET cancelled == IF h.longshot /\ cap
                     THEN [cancelPicture(h) EXCEPT !.raised = TRUE] ELSE h
    IN  [cancelled EXCEPT !.prepSnapRun = FALSE, !.longshot = FALSE]

(* CAMERA_CMD_LONGSHOT_ON is refused while a capture is running. *)
longshotOn(h, cap) ==
    IF cap THEN {Err(h)}
    ELSE LET on == [h EXCEPT !.longshot = TRUE, !.prepSnapRun = FALSE]
         IN  {Ok(on)} \cup MayErr({on})

sendCommand(h, cmd, cap) ==
    IF "LONGSHOT_ON" \in cmd THEN longshotOn(h, cap)
    ELSE LET off == longshotOff(h, cap) IN {Ok(off)} \cup MayErr({off})

(***************************************************************************)
(* takePicture.  In ZSL mode it asks the running ZSL channel for frames;   *)
(* otherwise it replaces the preview channels by a CAPTURE channel.  The   *)
(* post-processor is started by a deferred job, and the error paths leave  *)
(* that job's work and the CAPTURE channel in different states of undoing. *)
(***************************************************************************)
takeZslPicture(h) ==
    IF h.ch["ZSL"] = "null" THEN {Err(h)}
    ELSE LET shot == [h EXCEPT !.postproc = TRUE]
         IN  {Ok(shot)} \cup MayErr({h, shot, [h EXCEPT !.postproc = FALSE]})

(* What an early return leaves: the CAPTURE channel and the post-processor. *)
HalfTaken(h) ==
    {<<"null", h.postproc>>, <<"null", TRUE>>, <<"added", h.postproc>>,
     <<"added", FALSE>>, <<"added", TRUE>>, <<"started", TRUE>>}

WithCapture(h, v, pp) == [WithChannels(h, {"CAPTURE"}, v) EXCEPT !.postproc = pp]

(* Mutation: preview is not stopped first. *)
takeRegularPicture_KeepsPreview(h) ==
    {Ok(WithCapture(h, "started", TRUE))} \cup
    MayErr({h} \cup {WithCapture(h, l[1], l[2]) : l \in HalfTaken(h)})

takeRegularPicture(h) ==
    LET stopped == stopPreview(h)
    IN  {Ok(WithCapture(stopped, "started", TRUE))} \cup
        MayErr({stopped} \cup
               {WithCapture(stopped, l[1], l[2]) : l \in HalfTaken(h)})

takePicture(h) == IF h.p.zsl THEN takeZslPicture(h) ELSE takeRegularPicture(h)

longShot(h) ==
    IF h.ch[IF h.p.zsl THEN "ZSL" ELSE "CAPTURE"] = "null" THEN {Err(h)}
    ELSE {Ok(h)} \cup MayErr({h})

(***************************************************************************)
(* stopCaptureChannel(destroy): deleteChannel() releases the channel of    *)
(* the daemon but the pointer in m_channels stays.                         *)
(***************************************************************************)
stopCaptureChannel(h) == stopChannel(h, "CAPTURE")

-----------------------------------------------------------------------------
(* Preview *)

(***************************************************************************)
(* preparePreview.  Adding a channel first deletes the one that is there,  *)
(* so a failure to add leaves it deleted; the failure of the first call,   *)
(* setStreamConfigure, and of the first channel while recording is hinted  *)
(* change less.  With the recording hint a longshot is switched off.       *)
(***************************************************************************)
preparePreview(h, cap) ==
    IF isZslPreview(h)
    THEN {Ok(WithChannels(h, {"ZSL"}, "added"))} \cup
         MayErr({h, delChannels(h, {"ZSL"})})
    ELSE IF h.p.hint
    THEN LET g == IF h.longshot THEN longshotOff(h, cap) ELSE h
         IN  {Ok(WithChannels(g, {"SNAPSHOT", "VIDEO", "PREVIEW"}, "added"))}
             \cup MayErr({h, delChannels(g, {"SNAPSHOT"}),
                          delChannels(g, {"SNAPSHOT", "VIDEO"}),
                          delChannels(g, {"SNAPSHOT", "VIDEO", "PREVIEW"})})
    ELSE {Ok(WithChannels(h, {"PREVIEW"}, "added"))} \cup
         MayErr({h, delChannels(h, {"PREVIEW"})})

startPreview(h) ==
    startChannel(h, IF isZslPreview(h) THEN "ZSL" ELSE "PREVIEW")

(* preparePreview, then startPreview when it succeeded. *)
prepareAndStart(h, cap) ==
    UNION {IF o.rc = "OK" THEN startPreview(o.hw) ELSE {o} :
              o \in preparePreview(h, cap)}

(* The same, with the channels deleted again when the start fails. *)
prepareStartOrUndo(h, cap) ==
    UNION {IF o.rc = "OK"
           THEN {IF s.rc = "OK" THEN s ELSE Err(unpreparePreview(s.hw)) :
                    s \in startPreview(o.hw)}
           ELSE {o} : o \in preparePreview(h, cap)}

-----------------------------------------------------------------------------
(* Parameters *)

(* commitParamChanges: every pending value comes into force. *)
Committed(p) == [p EXCEPT !.zsl = p.zslNew, !.hint = p.hintNew,
                          !.hintKey = p.hintTmp]

commitParameterChanges(h) ==
    {Ok([h EXCEPT !.p = Committed(h.p)])} \cup MayErr({h})

(***************************************************************************)
(* QCameraParameters::updateParameters with the application's parameter    *)
(* string v: a key is looked at only when its string differs from the one  *)
(* in the map.  "other" stands for the keys that need a restart and touch  *)
(* nothing that is modelled.                                               *)
(***************************************************************************)
updatedParams(p, v) ==
    LET zv == "zsl" \in v
        hv == "hint" \in v
        z == IF zv = p.zslKey THEN p
             ELSE [p EXCEPT !.zslKey = zv, !.zslNew = zv]
    IN  IF hv = p.hintKey THEN z
        ELSE [z EXCEPT !.hintTmp = hv, !.hintNew = hv]

restartNeeded(p, v) == \/ ("zsl" \in v) # p.zslKey
                       \/ ("hint" \in v) # p.hintKey /\ ("hint" \in v) # p.hint
                       \/ "other" \in v

updateParameters(h, v) ==
    LET g == [h EXCEPT !.p = updatedParams(h.p, v),
                       !.needRestart = restartNeeded(h.p, v)]
    IN  {Ok(g)} \cup MayErr({g})

(***************************************************************************)
(* A value the HAL sets itself: it is committed at once, with all that was *)
(* pending, unless the daemon refuses the batch.  No caller looks at the   *)
(* return code, so these operators give the possible objects only.         *)
(***************************************************************************)
CommitOrKeep(h, p) ==
    {[h EXCEPT !.p = q] : q \in {Committed(p)} \cup IF MayFail THEN {p} ELSE {}}

updateRecordingHintValue(h, v) ==
    CommitOrKeep(h, [h.p EXCEPT !.hintNew = v])

updateZSLModeValue(h, v) ==
    CommitOrKeep(h, [h.p EXCEPT !.zslNew = v])

-----------------------------------------------------------------------------
(* Recording *)

preStartRecording(h, cap) ==
    IF h.p.hint THEN {Ok(h)}
    ELSE UNION {prepareAndStart(g, cap) :
                   g \in updateRecordingHintValue(stopPreview(h), TRUE)}

startRecording(h) == startChannel(h, "VIDEO")

stopRecording(h) == stopChannel(h, "VIDEO")

(* Mutation: preview is prepared but not started again. *)
preTakePicture_PreparesOnly(h, cap) ==
    IF ~ h.p.hint THEN {Ok(h)}
    ELSE UNION {preparePreview(g, cap) :
                   g \in updateRecordingHintValue(stopPreview(h), FALSE)}

preTakePicture(h, cap) ==
    IF ~ h.p.hint THEN {Ok(h)}
    ELSE UNION {prepareStartOrUndo(g, cap) :
                   g \in updateRecordingHintValue(stopPreview(h), FALSE)}

releaseChannels(h) == delChannels(h, Channel)

=============================================================================
