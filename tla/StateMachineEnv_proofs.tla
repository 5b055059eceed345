------------------------ MODULE StateMachineEnv_proofs ------------------------
(***************************************************************************)
(* What the two threads keep whatever their callers do.  The induction is  *)
(* the one of QCameraStateMachine_proofs: SmInv is inductive, StepInv is   *)
(* what every step does, and the callers disturb neither.                  *)
(***************************************************************************)
EXTENDS StateMachineEnv, QCameraStateMachine_proofs

(* The payloads are sets of flags. *)
LEMMA PayloadsType ==
    ASSUME NEW e
    PROVE  Payloads(e) \subseteq SUBSET Flag
  BY EnvAssumption DEF Payloads, Flag

(* Requests, from any caller. *)
LEMMA RequestStep ==
    ASSUME SmInv, Request
    PROVE  CallerStep
  <1>1. PICK e \in Requests : \E f \in Posters(e) : \E a \in Payloads(e) :
           procAPI(e, a, f)
    BY DEF Request
  <1>2. PICK f \in Posters(e) : \E a \in Payloads(e) : procAPI(e, a, f)
    BY <1>1
  <1>3. PICK a \in Payloads(e) : procAPI(e, a, f)
    BY <1>2
  <1>4. e \in Evt /\ f \in Senders \cup {HAL} /\ a \in SUBSET Flag
    BY EnvAssumption, PayloadsType DEF Evt, Posters
  <1>5. Node("API", e, a, f) \in Cmd
    BY <1>4, NodeType
  <1>6. api_queue' \in Seq(Cmd)
    BY <1>3, <1>5 DEF procAPI, SmInv, SmTypeOK
  <1> QED
    BY <1>6 DEF Request, SmInv, SmTypeOK, CallerStep

(* Events, from the daemon's thread and the post-processor. *)
LEMMA RaiseStep ==
    ASSUME SmInv, Raise
    PROVE  CallerStep
  <1>1. PICK e \in Events : procEvt(e)
    BY DEF Raise
  <1>2. Node("EVT", e, {}, HAL) \in Cmd
    BY EnvAssumption, NodeType DEF Evt
  <1>3. evt_queue' \in Seq(Cmd)
    BY <1>1, <1>2 DEF procEvt, SmInv, SmTypeOK
  <1> QED
    BY <1>3 DEF Raise, SmInv, SmTypeOK, CallerStep

(* The two fields of the object that callers write without a request. *)
LEMMA FlagStep ==
    ASSUME SmInv, SetRetroPicture \/ SetPrepSnapRun
    PROVE  CallerStep
  <1>1. /\ hw' \in Hardware /\ hw'.ch = hw.ch
    <2>1. hw \in Hardware
      BY DEF SmInv, SmTypeOK
    <2>2. \/ \E b \in BOOLEAN : hw' = [hw EXCEPT !.retro = b]
          \/ \E b \in BOOLEAN : hw' = [hw EXCEPT !.prepSnapRun = b]
      BY DEF SetRetroPicture, SetPrepSnapRun
    <2> QED
      BY <2>1, <2>2 DEF Hardware
  <1>2. UNCHANGED <<api_queue, evt_queue, m_state, msgs, m_RestoreZSL, live,
                    replies, running>>
    BY DEF SetRetroPicture, SetPrepSnapRun
  <1> QED
    BY <1>1, <1>2 DEF SmInv, SmTypeOK, CallerStep

(* A result is taken by its caller. *)
LEMMA SignalStep ==
    ASSUME SmInv, Signal
    PROVE  CallerStep
  <1>1. replies \in Seq(Reply) /\ replies # <<>>
    BY DEF SmInv, SmTypeOK, Signal
  <1>2. Tail(replies) \in Seq(Reply)
    BY <1>1, HeadTailProperties
  <1> QED
    BY <1>2 DEF Signal, SmInv, SmTypeOK, CallerStep

(* The thread is told to exit. *)
LEMMA ReleaseThreadStep ==
    ASSUME SmInv, releaseThread
    PROVE  CallerStep
  <1>1. Node("EXIT", "NONE", {}, HAL) \in Cmd
    BY NodeType DEF Evt
  <1>2. api_queue' \in Seq(Cmd)
    BY <1>1 DEF releaseThread, SmInv, SmTypeOK
  <1> QED
    BY <1>2 DEF releaseThread, SmInv, SmTypeOK, CallerStep

(* Every step does what StepInv says. *)
LEMMA NextInv ==
    ASSUME SmInv, [Next]_smVars
    PROVE  StepInv
  <1>1. CASE smEvtProcRoutine
    BY <1>1, StateMachineInv
  <1>2. CASE Live_Snapshot_thread
    BY <1>2, LiveThreadInv
  <1>3. CASE Request \/ Raise \/ SetRetroPicture \/ SetPrepSnapRun \/ Signal
             \/ releaseThread
    BY <1>3, RequestStep, RaiseStep, FlagStep, SignalStep, ReleaseThreadStep,
       CallerStepInv
  <1>4. CASE UNCHANGED smVars
    BY <1>4, CallerStepInv DEF smVars, CallerStep, SmInv, SmTypeOK
  <1> QED
    BY <1>1, <1>2, <1>3, <1>4 DEF Next

(* The inductive invariant holds in every reachable state. *)
LEMMA Invariance == Spec => []SmInv
  <1>1. SmInit => SmInv
    BY InitInv
  <1>2. SmInv /\ [Next]_smVars => SmInv'
    BY NextInv DEF StepInv
  <1> QED
    BY <1>1, <1>2, PTL DEF Spec

(***************************************************************************)
(* Every variable keeps its type: in particular the object that the        *)
(* methods of the HWI hand back, whichever of them failed half way.        *)
(***************************************************************************)
THEOREM TypeCorrect == Spec => []SmTypeOK
  <1>1. SmInv => SmTypeOK
    BY DEF SmInv
  <1> QED
    BY <1>1, Invariance, PTL

(***************************************************************************)
(* For all senders, settings and numbers of pending commands: a state that *)
(* records has a streaming VIDEO channel.  No request that a recording     *)
(* state serves or refuses touches the channel, and every way into such a  *)
(* state starts it.                                                        *)
(***************************************************************************)
THEOREM RecordingStreams == Spec => []RecordingHasVideo
  <1>1. SmInv => RecordingHasVideo
    BY DEF SmInv
  <1> QED
    BY <1>1, Invariance, PTL

(***************************************************************************)
(* A frame message that was kept aside is always going to be looked at:    *)
(* nothing ends the delay without delivering it.                           *)
(***************************************************************************)
THEOREM DelayedMsgsAreKept == Spec => []DelayedMsgsKept
  <1>1. SmInv => DelayedMsgsKept
    BY DEF SmInv
  <1> QED
    BY <1>1, Invariance, PTL

(***************************************************************************)
(* What the application asked for is taken back by DISABLE_MSG_TYPE only,  *)
(* through every start, restart and failure of preview.                    *)
(***************************************************************************)
THEOREM MsgsAreKept == Spec => MsgsKept
  <1>1. SmInv /\ [Next]_smVars
           => [MsgsWanted /\ ~ MsgsWanted'
                   => Next_cmd.evt = "DISABLE_MSG_TYPE"]_smVars
    BY NextInv DEF StepInv, KeepsMsgs
  <1> QED
    BY <1>1, Invariance, PTL DEF Spec, MsgsKept

-----------------------------------------------------------------------------
(***************************************************************************)
(* A live snapshot never outlives its state (LiveSnapshotContained), for   *)
(* all callers, provided its thread can be created.                        *)
(*                                                                         *)
(* No method of the HWI that a handler calls starts the SNAPSHOT channel:  *)
(* only the live snapshot thread does.  Quiet says so of two objects, one  *)
(* lemma per method shows it, and what is left is the bookkeeping of the   *)
(* thread (LiveStep).                                                      *)
(***************************************************************************)

(* g is an object whose SNAPSHOT channel streams only if that of h does. *)
Quiet(h, g) ==
    /\ g \in Hardware
    /\ g.ch["SNAPSHOT"] = "started" => h.ch["SNAPSHOT"] = "started"

(* The same of every outcome of a method. *)
QuietAll(h, S) == \A o \in S : Quiet(h, o.hw)

-----------------------------------------------------------------------------
(* The methods of the HWI *)

(* Two calls, one after the other. *)
LEMMA QuietTrans ==
    ASSUME NEW f, NEW g, NEW h, Quiet(f, g), Quiet(g, h)
    PROVE  Quiet(f, h)
  BY DEF Quiet

(* An object with the same channels. *)
LEMMA QuietSame ==
    ASSUME NEW h \in Hardware, NEW g \in Hardware, g.ch = h.ch
    PROVE  Quiet(h, g)
  BY DEF Quiet

(* Channels that are added, deleted or, other than SNAPSHOT, started. *)
LEMMA QuietChannels ==
    ASSUME NEW h \in Hardware, NEW S, NEW v \in ChannelState,
           "SNAPSHOT" \in S => v # "started"
    PROVE  Quiet(h, WithChannels(h, S, v))
  <1>1. WithChannels(h, S, v) \in Hardware
    BY WithChannelsType
  <1>2. WithChannels(h, S, v).ch["SNAPSHOT"]
           = IF "SNAPSHOT" \in S THEN v ELSE h.ch["SNAPSHOT"]
    BY DEF WithChannels, Hardware, Channel
  <1> QED
    BY <1>1, <1>2 DEF Quiet

(* Channels that are deleted, preview's among them. *)
LEMMA QuietDelete ==
    ASSUME NEW h \in Hardware
    PROVE  /\ \A S : Quiet(h, delChannels(h, S))
           /\ Quiet(h, unpreparePreview(h)) /\ Quiet(h, stopPreview(h))
           /\ Quiet(h, releaseChannels(h))
  <1>1. \A S : Quiet(h, delChannels(h, S))
    BY QuietChannels DEF delChannels, ChannelState
  <1> QED
    BY <1>1 DEF unpreparePreview, stopPreview, releaseChannels

(* The outcomes of the usual two forms. *)
LEMMA QuietOutcome ==
    ASSUME NEW h, NEW g, Quiet(h, g)
    PROVE  Quiet(h, Ok(g).hw) /\ Quiet(h, Err(g).hw)
  BY DEF Ok, Err

(* Channels that are stopped. *)
LEMMA QuietStop ==
    ASSUME NEW h \in Hardware, NEW c \in Channel
    PROVE  Quiet(h, stopChannel(h, c).hw)
  <1>1. Quiet(h, WithChannels(h, {c}, "added")) /\ Quiet(h, h)
    BY QuietChannels, QuietSame DEF ChannelState
  <1> QED
    BY <1>1 DEF stopChannel, Ok, Err

(* A capture that is cancelled. *)
LEMMA QuietCancel ==
    ASSUME NEW h \in Hardware
    PROVE  /\ Quiet(h, cancelPicture(h))
           /\ Quiet(h, unpreparePreview(cancelPicture(h)))
  <1> DEFINE g == [h EXCEPT !.postproc = FALSE]
  <1>1. g \in Hardware /\ g.ch = h.ch
    BY DEF Hardware
  <1>2. cancelPicture(h) = IF h.p.zsl THEN g ELSE delChannels(g, {"CAPTURE"})
    BY DEF cancelPicture
  <1> HIDE DEF g
  <1>3. Quiet(h, g) /\ Quiet(g, delChannels(g, {"CAPTURE"}))
    BY <1>1, QuietSame, QuietDelete
  <1>4. Quiet(h, cancelPicture(h))
    BY <1>2, <1>3, QuietTrans
  <1>5. Quiet(cancelPicture(h), unpreparePreview(cancelPicture(h)))
    BY CancelPictureType, QuietDelete
  <1> QED
    BY <1>4, <1>5, QuietTrans

(* A longshot that is switched off. *)
LEMMA QuietLongshotOff ==
    ASSUME NEW h \in Hardware, NEW cap
    PROVE  Quiet(h, longshotOff(h, cap))
  <1> DEFINE g == IF h.longshot /\ cap
                  THEN [cancelPicture(h) EXCEPT !.raised = TRUE] ELSE h
  <1>1. cancelPicture(h) \in Hardware /\ Quiet(h, cancelPicture(h))
    BY CancelPictureType, QuietCancel
  <1>2. \A k \in Hardware :
           /\ [k EXCEPT !.raised = TRUE] \in Hardware
           /\ [k EXCEPT !.raised = TRUE].ch = k.ch
           /\ [k EXCEPT !.prepSnapRun = FALSE, !.longshot = FALSE] \in Hardware
           /\ [k EXCEPT !.prepSnapRun = FALSE, !.longshot = FALSE].ch = k.ch
    BY DEF Hardware
  <1>3. g \in Hardware /\ Quiet(h, g)
    BY <1>1, <1>2, QuietSame DEF Quiet
  <1>4. longshotOff(h, cap) = [g EXCEPT !.prepSnapRun = FALSE,
                                        !.longshot = FALSE]
    BY DEF longshotOff
  <1> HIDE DEF g
  <1> QED
    BY <1>2, <1>3, <1>4 DEF Quiet

(* A command of the application. *)
LEMMA QuietCommand ==
    ASSUME NEW h \in Hardware, NEW cmd, NEW cap
    PROVE  QuietAll(h, sendCommand(h, cmd, cap))
  <1> SUFFICES ASSUME NEW o \in sendCommand(h, cmd, cap)
               PROVE  Quiet(h, o.hw)
    BY DEF QuietAll
  <1>1. CASE "LONGSHOT_ON" \in cmd
    <2> DEFINE on == [h EXCEPT !.longshot = TRUE, !.prepSnapRun = FALSE]
    <2>1. on \in Hardware /\ on.ch = h.ch
      BY DEF Hardware
    <2>2. o \in {Err(h), Ok(on), Err(on)}
      BY <1>1 DEF sendCommand, longshotOn, MayErr
    <2> HIDE DEF on
    <2> QED
      BY <2>1, <2>2, QuietSame, QuietOutcome
  <1>2. CASE "LONGSHOT_ON" \notin cmd
    <2>1. o \in {Ok(longshotOff(h, cap)), Err(longshotOff(h, cap))}
      BY <1>2 DEF sendCommand, MayErr
    <2> QED
      BY <2>1, QuietLongshotOff, QuietOutcome
  <1> QED
    BY <1>1, <1>2

(* A capture, every early return included. *)
LEMMA QuietTake ==
    ASSUME NEW h \in Hardware
    PROVE  QuietAll(h, takePicture(h))
  <1>0. takePicture(h) \subseteq Outcome
    BY TakePictureType
  <1> SUFFICES ASSUME NEW o \in takePicture(h)
               PROVE  Quiet(h, o.hw)
    BY DEF QuietAll
  <1>1. o.hw \in Hardware
    BY <1>0 DEF Outcome
  <1>2. CASE h.p.zsl
    <2>1. \E g \in {h, [h EXCEPT !.postproc = TRUE],
                    [h EXCEPT !.postproc = FALSE]} : o = Ok(g) \/ o = Err(g)
      BY <1>2 DEF takePicture, takeZslPicture, MayErr
    <2>2. o.hw.ch = h.ch
      BY <2>1 DEF Hardware, Ok, Err
    <2> QED
      BY <1>1, <2>2, QuietSame
  <1>3. CASE ~ h.p.zsl
    <2> DEFINE g == stopPreview(h)
    <2>1. g \in Hardware /\ g.ch["SNAPSHOT"] # "started"
      <3>1. g.ch["SNAPSHOT"] = "null"
        BY DEF stopPreview, unpreparePreview, delChannels, WithChannels,
               PreviewChannels, Hardware, Channel
      <3> QED
        BY <3>1, StopPreviewType
    <2>2. \A v, pp : WithCapture(g, v, pp).ch["SNAPSHOT"] = g.ch["SNAPSHOT"]
      <3> HIDE DEF g
      <3> QED
        BY <2>1 DEF WithCapture, WithChannels, Hardware, Channel
    <2>3. \/ o = Ok(WithCapture(g, "started", TRUE)) \/ o = Err(g)
          \/ \E l \in HalfTaken(h) : o = Err(WithCapture(g, l[1], l[2]))
      BY <1>3 DEF takePicture, takeRegularPicture, MayErr
    <2> HIDE DEF g
    <2>4. CASE o = Err(g)
      BY <1>1, <2>1, <2>4 DEF Quiet, Err
    <2>5. CASE o = Ok(WithCapture(g, "started", TRUE))
      <3>1. o.hw = WithCapture(g, "started", TRUE)
        BY <2>5 DEF Ok
      <3> QED
        BY <1>1, <2>1, <2>2, <3>1 DEF Quiet
    <2>6. CASE \E l \in HalfTaken(h) : o = Err(WithCapture(g, l[1], l[2]))
      <3>1. PICK l \in HalfTaken(h) : o = Err(WithCapture(g, l[1], l[2]))
        BY <2>6
      <3>2. o.hw = WithCapture(g, l[1], l[2])
        BY <3>1 DEF Err
      <3>3. o.hw.ch["SNAPSHOT"] = g.ch["SNAPSHOT"]
        BY <2>2, <3>2
      <3> QED
        BY <1>1, <2>1, <3>3 DEF Quiet
    <2> QED
      BY <2>3, <2>4, <2>5, <2>6
  <1> QED
    BY <1>2, <1>3

(* The next picture of a longshot. *)
LEMMA QuietLongShot ==
    ASSUME NEW h \in Hardware
    PROVE  QuietAll(h, longShot(h))
  <1>1. \A o \in longShot(h) : o.hw = h
    BY DEF longShot, MayErr, Ok, Err
  <1> QED
    BY <1>1, QuietSame DEF QuietAll

(* Preview is started: its own channel or ZSL. *)
LEMMA QuietStart ==
    ASSUME NEW h \in Hardware, NEW c \in Channel \ {"SNAPSHOT"}
    PROVE  QuietAll(h, startChannel(h, c))
  <1>1. Quiet(h, WithChannels(h, {c}, "started")) /\ Quiet(h, h)
    BY QuietChannels, QuietSame DEF ChannelState
  <1>2. \A o \in startChannel(h, c) :
           o \in {Ok(WithChannels(h, {c}, "started")), Err(h)}
    BY DEF startChannel, MayErr
  <1> QED
    BY <1>1, <1>2, QuietOutcome DEF QuietAll

(* startPreview, undone or not. *)
LEMMA QuietStartPreview ==
    ASSUME NEW h \in Hardware
    PROVE  QuietAll(h, startPreview(h)) /\ QuietAll(h, ReadyStarted(h))
  <1>1. QuietAll(h, startPreview(h))
    BY QuietStart DEF startPreview, Channel
  <1>2. ASSUME NEW q \in startPreview(h)
        PROVE  Quiet(h, Err(unpreparePreview(q.hw)).hw)
    <2>1. q.hw \in Hardware /\ Quiet(h, q.hw)
      BY <1>1 DEF QuietAll, Quiet
    <2> QED
      BY <2>1, QuietDelete, QuietTrans, QuietOutcome
  <1> QED
    BY <1>1, <1>2 DEF QuietAll, ReadyStarted

(* preparePreview adds channels and starts none. *)
LEMMA QuietPrepare ==
    ASSUME NEW h \in Hardware, NEW cap
    PROVE  QuietAll(h, preparePreview(h, cap))
  <1> DEFINE g == IF h.longshot THEN longshotOff(h, cap) ELSE h
  <1>1. g \in Hardware /\ Quiet(h, g) /\ Quiet(h, h)
    BY LongshotOffType, QuietLongshotOff, QuietSame
  <1>2. \A k \in {g, h} : \A S : /\ Quiet(k, WithChannels(k, S, "added"))
                                 /\ Quiet(k, delChannels(k, S))
    BY <1>1, QuietChannels, QuietDelete DEF ChannelState
  <1>3. \A k \in {g, h} : \A S : /\ Quiet(h, Ok(WithChannels(k, S, "added")).hw)
                                 /\ Quiet(h, Err(delChannels(k, S)).hw)
    BY <1>1, <1>2, QuietTrans, QuietOutcome
  <1>4. ASSUME NEW o \in preparePreview(h, cap)
        PROVE  \/ o = Err(h)
               \/ \E k \in {g, h} : \E S : \/ o = Ok(WithChannels(k, S, "added"))
                                          \/ o = Err(delChannels(k, S))
    <2>1. CASE isZslPreview(h)
      BY <2>1 DEF preparePreview, MayErr
    <2>2. CASE ~ isZslPreview(h) /\ h.p.hint
      BY <2>2 DEF preparePreview, MayErr
    <2>3. CASE ~ isZslPreview(h) /\ ~ h.p.hint
      BY <2>3 DEF preparePreview, MayErr
    <2> QED
      BY <2>1, <2>2, <2>3
  <1>5. Quiet(h, Err(h).hw)
    BY <1>1, QuietOutcome
  <1> HIDE DEF g
  <1> QED
    BY <1>3, <1>4, <1>5 DEF QuietAll

(* Its sequence with startPreview. *)
LEMMA QuietPrepareStart ==
    ASSUME NEW h \in Hardware, NEW cap
    PROVE  QuietAll(h, prepareAndStart(h, cap))
  <1> SUFFICES ASSUME NEW x \in prepareAndStart(h, cap)
               PROVE  Quiet(h, x.hw)
    BY DEF QuietAll
  <1>1. PICK o \in preparePreview(h, cap) :
           x \in IF o.rc = "OK" THEN startPreview(o.hw) ELSE {o}
    BY DEF prepareAndStart
  <1>2. o.hw \in Hardware /\ Quiet(h, o.hw)
    BY QuietPrepare DEF QuietAll, Quiet
  <1>3. QuietAll(o.hw, startPreview(o.hw))
    BY <1>2, QuietStartPreview
  <1>4. CASE o.rc = "OK"
    <2>1. Quiet(o.hw, x.hw)
      BY <1>1, <1>3, <1>4 DEF QuietAll
    <2> QED
      BY <1>2, <2>1, QuietTrans
  <1>5. CASE o.rc # "OK"
    BY <1>1, <1>2, <1>5
  <1> QED
    BY <1>4, <1>5

(* The sequence that is undone when the start fails. *)
LEMMA QuietPrepareStartOrUndo ==
    ASSUME NEW h \in Hardware, NEW cap
    PROVE  QuietAll(h, prepareStartOrUndo(h, cap))
  <1> SUFFICES ASSUME NEW x \in prepareStartOrUndo(h, cap)
               PROVE  Quiet(h, x.hw)
    BY DEF QuietAll
  <1>1. PICK o \in preparePreview(h, cap) :
           x \in IF o.rc = "OK"
                 THEN {IF s.rc = "OK" THEN s ELSE Err(unpreparePreview(s.hw)) :
                          s \in startPreview(o.hw)}
                 ELSE {o}
    BY DEF prepareStartOrUndo
  <1>2. o.hw \in Hardware /\ Quiet(h, o.hw)
    BY QuietPrepare DEF QuietAll, Quiet
  <1>3. QuietAll(o.hw, ReadyStarted(o.hw))
    BY <1>2, QuietStartPreview
  <1>4. CASE o.rc = "OK"
    <2>1. x \in ReadyStarted(o.hw)
      BY <1>1, <1>4 DEF ReadyStarted
    <2>2. Quiet(o.hw, x.hw)
      BY <1>3, <2>1 DEF QuietAll
    <2> QED
      BY <1>2, <2>2, QuietTrans
  <1>5. CASE o.rc # "OK"
    BY <1>1, <1>2, <1>5
  <1> QED
    BY <1>4, <1>5

(* The same, as the handlers write it. *)
LEMMA QuietBringUp ==
    ASSUME NEW h \in Hardware, NEW cap, NEW undo
    PROVE  QuietAll(h, BringUp(h, cap, undo))
  <1> SUFFICES ASSUME NEW o \in BringUp(h, cap, undo)
               PROVE  Quiet(h, o.hw)
    BY DEF QuietAll
  <1>1. PICK q \in preparePreview(h, cap) :
           o \in IF q.rc = "ERR"
                 THEN {[rc |-> "ERR", hw |-> q.hw, prepared |-> FALSE]}
                 ELSE {[rc |-> s.rc, prepared |-> TRUE,
                        hw |-> IF s.rc = "ERR" /\ undo
                               THEN unpreparePreview(s.hw) ELSE s.hw] :
                          s \in startPreview(q.hw)}
    BY DEF BringUp
  <1>2. q.hw \in Hardware /\ Quiet(h, q.hw)
    BY QuietPrepare DEF QuietAll, Quiet
  <1>3. CASE q.rc = "ERR"
    BY <1>1, <1>2, <1>3
  <1>4. CASE q.rc # "ERR"
    <2>1. PICK s \in startPreview(q.hw) :
             o.hw = IF s.rc = "ERR" /\ undo THEN unpreparePreview(s.hw)
                    ELSE s.hw
      BY <1>1, <1>4
    <2>2. s.hw \in Hardware /\ Quiet(q.hw, s.hw)
      BY <1>2, QuietStartPreview DEF QuietAll, Quiet
    <2>3. Quiet(s.hw, o.hw)
      BY <2>1, <2>2, QuietDelete, QuietSame
    <2> QED
      BY <1>2, <2>2, <2>3, QuietTrans
  <1> QED
    BY <1>3, <1>4

(* Values that the HAL commits itself. *)
LEMMA QuietValues ==
    ASSUME NEW h \in Hardware, NEW v \in BOOLEAN
    PROVE  /\ \A g \in updateRecordingHintValue(h, v) : Quiet(h, g)
           /\ \A g \in updateZSLModeValue(h, v) : Quiet(h, g)
  <1>1. /\ updateRecordingHintValue(h, v) \subseteq Hardware
        /\ updateZSLModeValue(h, v) \subseteq Hardware
    BY UpdateValueType
  <1>2. /\ \A g \in updateRecordingHintValue(h, v) : g.ch = h.ch
        /\ \A g \in updateZSLModeValue(h, v) : g.ch = h.ch
    BY DEF updateRecordingHintValue, updateZSLModeValue, CommitOrKeep, Hardware
  <1> QED
    BY <1>1, <1>2, QuietSame

(* Values that the application sets. *)
LEMMA QuietParameters ==
    ASSUME NEW h \in Hardware
    PROVE  /\ QuietAll(h, commitParameterChanges(h))
           /\ \A v : QuietAll(h, updateParameters(h, v))
  <1>1. \A o \in commitParameterChanges(h) : o \in Outcome /\ o.hw.ch = h.ch
    BY CommitType
  <1>2. \A v : \A o \in updateParameters(h, v) : o \in Outcome /\ o.hw.ch = h.ch
    BY UpdateParametersType
  <1>3. \A o \in Outcome : o.hw \in Hardware
    BY DEF Outcome
  <1> QED
    BY <1>1, <1>2, <1>3, QuietSame DEF QuietAll

(* Preview rebuilt around a change of the recording hint. *)
LEMMA QuietHint ==
    ASSUME NEW h \in Hardware, NEW v \in BOOLEAN, NEW cap,
           NEW g \in updateRecordingHintValue(stopPreview(h), v)
    PROVE  /\ QuietAll(h, prepareAndStart(g, cap))
           /\ QuietAll(h, prepareStartOrUndo(g, cap))
  <1>1. stopPreview(h) \in Hardware /\ Quiet(h, stopPreview(h))
    BY StopPreviewType, QuietDelete
  <1>2. Quiet(stopPreview(h), g) /\ g \in Hardware
    BY <1>1, QuietValues DEF Quiet
  <1>3. Quiet(h, g)
    BY <1>1, <1>2, QuietTrans
  <1>4. /\ QuietAll(g, prepareAndStart(g, cap))
        /\ QuietAll(g, prepareStartOrUndo(g, cap))
    BY <1>2, QuietPrepareStart, QuietPrepareStartOrUndo
  <1> QED
    BY <1>3, <1>4, QuietTrans DEF QuietAll

(* The requests that prepare a recording or a picture. *)
LEMMA QuietModes ==
    ASSUME NEW h \in Hardware, NEW cap
    PROVE  /\ QuietAll(h, preStartRecording(h, cap))
           /\ QuietAll(h, preTakePicture(h, cap))
           /\ \A g \in WithoutHint(h) : Quiet(h, g)
  <1>1. Quiet(h, h) /\ Quiet(h, Ok(h).hw)
    BY QuietSame, QuietOutcome
  <1>2. QuietAll(h, preStartRecording(h, cap))
    BY <1>1, QuietHint DEF QuietAll, preStartRecording
  <1>3. QuietAll(h, preTakePicture(h, cap))
    BY <1>1, QuietHint DEF QuietAll, preTakePicture
  <1>4. \A g \in WithoutHint(h) : Quiet(h, g)
    BY <1>1, QuietHint DEF QuietAll, WithoutHint
  <1> QED
    BY <1>2, <1>3, <1>4

(* Recording starts and stops VIDEO. *)
LEMMA QuietRecording ==
    ASSUME NEW h \in Hardware
    PROVE  /\ QuietAll(h, startRecording(h))
           /\ Quiet(h, stopRecording(h).hw)
           /\ Quiet(h, stopPreview(stopRecording(h).hw))
  <1>1. QuietAll(h, startRecording(h)) /\ Quiet(h, stopRecording(h).hw)
    BY QuietStart, QuietStop DEF startRecording, stopRecording, Channel
  <1>2. Quiet(stopRecording(h).hw, stopPreview(stopRecording(h).hw))
    BY <1>1, QuietDelete DEF Quiet
  <1> QED
    BY <1>1, <1>2, QuietTrans

-----------------------------------------------------------------------------
(* The handlers *)

(* The SNAPSHOT channel is not started. *)
SnapKept == hw'.ch["SNAPSHOT"] = "started" => hw.ch["SNAPSHOT"] = "started"

(* The thread goes on in its state, or is told to cancel, or starts in it. *)
LiveStep ==
    /\ SnapKept
    /\ \/ /\ UNCHANGED live
          /\ m_state = "VIDEO_PIC_TAKING" => m_state' = "VIDEO_PIC_TAKING"
       \/ live = "none" /\ live' = "cancel"
       \/ live = "none" /\ live' = "take" /\ m_state' = "VIDEO_PIC_TAKING"

(* The end of a handler whose object is quiet. *)
LEMMA FinishQuiet ==
    ASSUME SmInv, NEW s, NEW h, Quiet(hw, h), NEW rs, Finish(s, h, rs)
    PROVE  SnapKept /\ m_state' = s
  <1>1. hw' = [h EXCEPT !.raised = FALSE] /\ m_state' = s /\ h \in Hardware
    BY DEF Finish, Quiet
  <1>2. hw'.ch = h.ch
    BY <1>1 DEF Hardware
  <1> QED
    BY <1>1, <1>2 DEF SnapKept, Quiet

(* The same of an answer. *)
LEMMA AnswerQuiet ==
    ASSUME SmInv, NEW s, NEW o, Quiet(hw, o.hw), Answer(s, o)
    PROVE  SnapKept /\ m_state' = s
  BY FinishQuiet DEF Answer

(* The object as it is. *)
LEMMA QuietHw ==
    ASSUME SmInv
    PROVE  /\ Quiet(hw, hw) /\ Quiet(hw, Ok(hw).hw) /\ Quiet(hw, Err(hw).hw)
           /\ hw \in Hardware
  BY HwType, QuietSame, QuietOutcome

(* A handler outside VIDEO_PIC_TAKING that leaves the thread alone. *)
LEMMA AnswerLive ==
    ASSUME SmInv, NEW s, s # "VIDEO_PIC_TAKING", NEW E, On(s, E), NEW t,
           NEW o, Quiet(hw, o.hw), Answer(t, o), UNCHANGED live
    PROVE  LiveStep
  BY AnswerQuiet, OnFacts DEF LiveStep

(* The same for an end with any results. *)
LEMMA FinishLive ==
    ASSUME SmInv, NEW s, s # "VIDEO_PIC_TAKING", NEW E, On(s, E), NEW t,
           NEW h, Quiet(hw, h), NEW rs, Finish(t, h, rs), UNCHANGED live
    PROVE  LiveStep
  BY FinishQuiet, OnFacts DEF LiveStep

(* Any handler that keeps its state and leaves the thread alone. *)
LEMMA StayLive ==
    ASSUME SmInv, NEW s, NEW E, On(s, E), NEW h, Quiet(hw, h), NEW rs,
           Finish(s, h, rs), UNCHANGED live
    PROVE  LiveStep
  BY FinishQuiet, OnFacts DEF LiveStep

(* Outcomes that are applied. *)
LEMMA ApplyLive ==
    ASSUME SmInv, NEW s, NEW E, NEW S, QuietAll(hw, S), Apply(s, E, S)
    PROVE  LiveStep
  <1>1. PICK o \in S : Answer(s, o)
    BY DEF Apply
  <1> QED
    BY <1>1, StayLive DEF Apply, QuietAll, Answer

(* Requests that are refused or acknowledged, and events that are ignored. *)
LEMMA SimpleLive ==
    ASSUME SmInv, NEW s, NEW E, Refuse(s, E) \/ Acknowledge(s, E) \/ Ignore(s, E)
    PROVE  LiveStep
  <1>1. Quiet(hw, hw) /\ Ok(hw).hw = hw
    BY QuietHw DEF Ok
  <1> QED
    BY <1>1, StayLive DEF Refuse, Acknowledge, Ignore, Answer

(* The handlers shared by several states. *)
LEMMA SharedLive ==
    ASSUME SmInv, NEW s,
           \/ EnableMsg(s) \/ DisableMsg(s) \/ SetParams(s) \/ CommitParams(s)
           \/ ForgetRestart(s) \/ EvtDone(s) \/ DaemonDied(s)
    PROVE  LiveStep
  <1>1. Quiet(hw, hw) /\ Ok(hw).hw = hw /\ hw \in Hardware
    BY QuietHw DEF Ok
  <1>2. CASE EnableMsg(s) \/ DisableMsg(s)
    BY <1>1, <1>2, StayLive DEF EnableMsg, DisableMsg, Answer
  <1>3. CASE SetParams(s) \/ CommitParams(s)
    BY <1>1, <1>3, ApplyLive, QuietParameters DEF SetParams, CommitParams
  <1>4. CASE ForgetRestart(s)
    <2> DEFINE h == [hw EXCEPT !.needRestart = FALSE]
    <2>1. h \in Hardware /\ h.ch = hw.ch
      BY <1>1 DEF Hardware
    <2>2. Apply(s, {"SET_PARAMS_RESTART"}, {Ok(h)})
      BY <1>4 DEF ForgetRestart
    <2> HIDE DEF h
    <2>3. QuietAll(hw, {Ok(h)})
      BY <1>1, <2>1, QuietSame, QuietOutcome DEF QuietAll
    <2> QED
      BY <2>2, <2>3, ApplyLive
  <1>5. CASE EvtDone(s) \/ DaemonDied(s)
    BY <1>1, <1>5, StayLive DEF EvtDone, DaemonDied
  <1> QED
    BY <1>2, <1>3, <1>4, <1>5

(* m_bNeedRestart is cleared whatever the outcome. *)
LEMMA QuietNeedRestart ==
    ASSUME NEW h, NEW o \in Outcome \cup BroughtUp, Quiet(h, o.hw)
    PROVE  Quiet(h, [o EXCEPT !.hw.needRestart = FALSE].hw)
  <1>1. /\ [o EXCEPT !.hw.needRestart = FALSE].hw \in Hardware
        /\ [o EXCEPT !.hw.needRestart = FALSE].hw.ch = o.hw.ch
    BY DEF Outcome, BroughtUp, Hardware
  <1> QED
    BY <1>1 DEF Quiet

(* Every handler of QCAMERA_SM_STATE_PREVIEW_STOPPED. *)
LEMMA StoppedLive ==
    ASSUME SmInv, procEvtPreviewStoppedState
    PROVE  LiveStep
  <1>0. Quiet(hw, hw) /\ hw \in Hardware
    BY QuietHw
  <1>1. CASE StoppedInitFailed
    <2>1. QuietAll(hw, MayErr({hw}))
      BY QuietHw DEF QuietAll, MayErr
    <2> QED
      BY <1>1, <2>1, ApplyLive DEF StoppedInitFailed
  <1>2. CASE StoppedAcknowledged \/ StoppedRefused
             \/ Ignore("PREVIEW_STOPPED",
                       {"STOP_CAPTURE_CHANNEL", "PREP_SNAPSHOT_DONE",
                        "READY_FOR_SNAPSHOT", "DAEMON_DIED"})
    BY <1>2, SimpleLive DEF StoppedAcknowledged, StoppedRefused
  <1>3. CASE StoppedSetWindow
    <2> DEFINE w == "window" \in Next_cmd.arg
               h == [hw EXCEPT !.window = w]
    <2>1. w \in BOOLEAN
      OBVIOUS
    <2>2. h \in Hardware /\ h.ch = hw.ch
      <3> HIDE DEF w
      <3> QED
        BY <1>0, <2>1 DEF Hardware
    <2>3. Apply("PREVIEW_STOPPED", {"SET_PREVIEW_WINDOW"}, {Ok(h)})
      BY <1>3 DEF StoppedSetWindow
    <2> HIDE DEF w, h
    <2>4. QuietAll(hw, {Ok(h)})
      BY <1>0, <2>2, QuietSame, QuietOutcome DEF QuietAll
    <2> QED
      BY <2>3, <2>4, ApplyLive
  <1>4. CASE StoppedPrepare
    <2>1. QuietAll(hw, preparePreview(hw, FALSE))
      BY <1>0, QuietPrepare
    <2>2. \E E : On("PREVIEW_STOPPED", E)
      BY <1>4 DEF StoppedPrepare
    <2> QED
      BY <1>4, <2>1, <2>2, AnswerLive DEF StoppedPrepare, QuietAll
  <1>5. CASE StoppedStart
    <2>1. QuietAll(hw, BringUp(hw, FALSE, TRUE))
      BY <1>0, QuietBringUp
    <2>2. \E E : On("PREVIEW_STOPPED", E)
      BY <1>5 DEF StoppedStart
    <2> QED
      BY <1>5, <2>1, <2>2, AnswerLive DEF StoppedStart, QuietAll
  <1>6. CASE StoppedRelease
    <2>1. QuietAll(hw, {Ok(releaseChannels(hw))})
      BY <1>0, QuietDelete, QuietOutcome DEF QuietAll
    <2> QED
      BY <1>6, <2>1, ApplyLive DEF StoppedRelease
  <1>7. CASE StoppedSendCommand
    BY <1>0, <1>7, QuietCommand, ApplyLive DEF StoppedSendCommand
  <1>8. CASE \/ EnableMsg("PREVIEW_STOPPED") \/ DisableMsg("PREVIEW_STOPPED")
             \/ SetParams("PREVIEW_STOPPED") \/ CommitParams("PREVIEW_STOPPED")
             \/ ForgetRestart("PREVIEW_STOPPED") \/ EvtDone("PREVIEW_STOPPED")
    BY <1>8, SharedLive
  <1> QED
    BY <1>1, <1>2, <1>3, <1>4, <1>5, <1>6, <1>7, <1>8
       DEF procEvtPreviewStoppedState

(* Every handler of QCAMERA_SM_STATE_PREVIEW_READY. *)
LEMMA ReadyLive ==
    ASSUME SmInv, procEvtPreviewReadyState
    PROVE  LiveStep
  <1>0. Quiet(hw, hw) /\ hw \in Hardware
    BY QuietHw
  <1>1. CASE ReadyAcknowledged \/ ReadyRefused
             \/ Ignore("PREVIEW_READY",
                       {"STOP_CAPTURE_CHANNEL", "PREP_SNAPSHOT_DONE",
                        "READY_FOR_SNAPSHOT", "DAEMON_DIED"})
    BY <1>1, SimpleLive DEF ReadyAcknowledged, ReadyRefused
  <1>2. CASE ReadySetWindow
    <2> DEFINE w == "window" \in Next_cmd.arg
               h == [hw EXCEPT !.window = w]
    <2>1. w \in BOOLEAN
      OBVIOUS
    <2>2. h \in Hardware /\ h.ch = hw.ch
      <3> HIDE DEF w
      <3> QED
        BY <1>0, <2>1 DEF Hardware
    <2>3. /\ On("PREVIEW_READY", {"SET_PREVIEW_WINDOW"}) /\ UNCHANGED live
          /\ \/ \E o \in ReadyStarted(h) : Answer(AfterStart(o.rc), o)
             \/ Answer("PREVIEW_READY", Ok(h))
      BY <1>2 DEF ReadySetWindow
    <2> HIDE DEF w, h
    <2>4. Quiet(hw, h) /\ Quiet(hw, Ok(h).hw)
      BY <1>0, <2>2, QuietSame, QuietOutcome
    <2>5. QuietAll(h, ReadyStarted(h))
      BY <2>2, QuietStartPreview
    <2>6. \A o \in ReadyStarted(h) : Quiet(hw, o.hw)
      BY <2>4, <2>5, QuietTrans DEF QuietAll
    <2> QED
      BY <2>3, <2>4, <2>6, AnswerLive
  <1>3. CASE ReadyStart
    <2>1. PICK o \in ReadyStarted(hw) : Answer(AfterStart(o.rc), Ok(o.hw))
      BY <1>3 DEF ReadyStart
    <2>2. Quiet(hw, Ok(o.hw).hw)
      BY <1>0, QuietStartPreview, QuietOutcome DEF QuietAll
    <2>3. UNCHANGED live /\ \E E : On("PREVIEW_READY", E)
      BY <1>3 DEF ReadyStart
    <2> QED
      BY <2>1, <2>2, <2>3, AnswerLive
  <1>4. CASE ReadyStartWithoutWindow
    BY <1>4, QuietHw, AnswerLive DEF ReadyStartWithoutWindow
  <1>5. CASE ReadyStop
    BY <1>0, <1>5, QuietDelete, QuietOutcome, AnswerLive DEF ReadyStop
  <1>6. CASE ReadyParamsStop
    <2>1. QuietAll(hw, {Ok(unpreparePreview(hw))})
      BY <1>0, QuietDelete, QuietOutcome DEF QuietAll
    <2> QED
      BY <1>6, <2>1, ApplyLive DEF ReadyParamsStop
  <1>7. CASE ReadyParamsRestart
    <2>1. PICK o \in preparePreview(hw, FALSE) :
             Answer(IF o.rc = "OK" THEN "PREVIEW_READY" ELSE "PREVIEW_STOPPED",
                    [o EXCEPT !.hw.needRestart = FALSE])
      BY <1>7 DEF ReadyParamsRestart
    <2>2. o \in Outcome /\ Quiet(hw, o.hw)
      BY <1>0, PreparePreviewType, QuietPrepare DEF QuietAll
    <2>3. Quiet(hw, [o EXCEPT !.hw.needRestart = FALSE].hw)
      BY <2>2, QuietNeedRestart
    <2>4. UNCHANGED live /\ On("PREVIEW_READY", {"SET_PARAMS_RESTART"})
      BY <1>7 DEF ReadyParamsRestart
    <2> QED
      BY <2>1, <2>3, <2>4, AnswerLive
  <1>8. CASE ReadySendCommand
    BY <1>0, <1>8, QuietCommand, ApplyLive DEF ReadySendCommand
  <1>9. CASE \/ EnableMsg("PREVIEW_READY") \/ DisableMsg("PREVIEW_READY")
             \/ SetParams("PREVIEW_READY") \/ CommitParams("PREVIEW_READY")
             \/ EvtDone("PREVIEW_READY")
    BY <1>9, SharedLive
  <1> QED
    BY <1>1, <1>2, <1>3, <1>4, <1>5, <1>6, <1>7, <1>8, <1>9
       DEF procEvtPreviewReadyState

(* A capture that starts, in any mode, or fails. *)
LEMMA PreviewingTakeLive ==
    ASSUME SmInv,
           PreviewingTakeZsl \/ PreviewingTakeRestart \/ PreviewingTakeRegular
    PROVE  LiveStep
  <1>0. Quiet(hw, hw) /\ hw \in Hardware
    BY QuietHw
  <1>1. On("PREVIEWING", {"TAKE_PICTURE"}) /\ UNCHANGED live
    BY DEF PreviewingTakeZsl, PreviewingTakeRestart, PreviewingTakeRegular
  <1>2. \A h \in WithoutHint(hw) : h \in Hardware /\ Quiet(hw, h)
    BY <1>0, QuietModes DEF Quiet
  <1>3. CASE PreviewingTakeZsl
    <2>1. PICK h \in WithoutHint(hw) : \E o \in takePicture(h) :
             \E t : \/ Finish(t, o.hw, <<>>)
                    \/ Answer(t, o)
      BY <1>3 DEF PreviewingTakeZsl
    <2>2. \A o \in takePicture(h) : Quiet(hw, o.hw)
      BY <1>2, QuietTake, QuietTrans DEF QuietAll
    <2> QED
      BY <1>1, <2>1, <2>2, FinishLive, AnswerLive
  <1>4. CASE PreviewingTakeRestart
    <2>1. PICK h \in WithoutHint(hw) :
             \E g \in updateZSLModeValue(stopPreview(h), FALSE) :
             \E o \in takePicture(g) :
             \E t : Finish(t, o.hw, <<>>) \/ Answer(t, o)
      BY <1>4 DEF PreviewingTakeRestart
    <2>2. PICK g \in updateZSLModeValue(stopPreview(h), FALSE) :
             \E o \in takePicture(g) :
             \E t : Finish(t, o.hw, <<>>) \/ Answer(t, o)
      BY <2>1
    <2>3. stopPreview(h) \in Hardware /\ Quiet(hw, stopPreview(h))
      BY <1>2, StopPreviewType, QuietDelete, QuietTrans
    <2>4. g \in Hardware /\ Quiet(hw, g)
      BY <2>3, QuietValues, QuietTrans DEF Quiet
    <2>5. \A o \in takePicture(g) : Quiet(hw, o.hw)
      BY <2>4, QuietTake, QuietTrans DEF QuietAll
    <2> QED
      BY <1>1, <2>2, <2>5, FinishLive, AnswerLive
  <1>5. CASE PreviewingTakeRegular
    <2>1. PICK h \in WithoutHint(hw) : \E o \in takePicture(h) :
             \/ Answer("PIC_TAKING", o)
             \/ \E b \in prepareStartOrUndo(stopPreview(o.hw), TRUE) :
                   Answer(AfterStart(b.rc), Err(b.hw))
      BY <1>5 DEF PreviewingTakeRegular
    <2>2. PICK o \in takePicture(h) :
             \/ Answer("PIC_TAKING", o)
             \/ \E b \in prepareStartOrUndo(stopPreview(o.hw), TRUE) :
                   Answer(AfterStart(b.rc), Err(b.hw))
      BY <2>1
    <2>3. o.hw \in Hardware /\ Quiet(hw, o.hw)
      BY <1>2, QuietTake, QuietTrans DEF QuietAll, Quiet
    <2>4. stopPreview(o.hw) \in Hardware /\ Quiet(hw, stopPreview(o.hw))
      BY <2>3, StopPreviewType, QuietDelete, QuietTrans
    <2>5. \A b \in prepareStartOrUndo(stopPreview(o.hw), TRUE) :
             Quiet(hw, Err(b.hw).hw)
      BY <2>4, QuietPrepareStartOrUndo, QuietTrans, QuietOutcome DEF QuietAll
    <2> QED
      BY <1>1, <2>2, <2>3, <2>5, AnswerLive
  <1> QED
    BY <1>3, <1>4, <1>5

(* Every handler of QCAMERA_SM_STATE_PREVIEWING. *)
LEMMA PreviewingLive ==
    ASSUME SmInv, procEvtPreviewingState
    PROVE  LiveStep
  <1>0. Quiet(hw, hw) /\ hw \in Hardware
    BY QuietHw
  <1>1. CASE PreviewingAcknowledged \/ PreviewingRefused
             \/ Ignore("PREVIEWING",
                       {"STOP_CAPTURE_CHANNEL", "PREP_SNAPSHOT_DONE",
                        "READY_FOR_SNAPSHOT", "DAEMON_DIED"})
    BY <1>1, SimpleLive DEF PreviewingAcknowledged, PreviewingRefused
  <1>2. CASE PreviewingEnableMsg \/ PreviewingDisableMsg \/ PreviewingStartAgain
    BY <1>2, QuietHw, AnswerLive DEF PreviewingEnableMsg, PreviewingDisableMsg,
       PreviewingStartAgain
  <1>3. CASE PreviewingParamsStop
    <2>1. QuietAll(hw, {Ok(stopPreview(hw))})
      BY <1>0, QuietDelete, QuietOutcome DEF QuietAll
    <2> QED
      BY <1>3, <2>1, ApplyLive DEF PreviewingParamsStop
  <1>4. CASE PreviewingParamsRestart
    <2>1. PICK o \in BringUp(hw, FALSE, TRUE) :
             \E t : Answer(t, [o EXCEPT !.hw.needRestart = FALSE])
      BY <1>4 DEF PreviewingParamsRestart
    <2>2. o \in BroughtUp /\ Quiet(hw, o.hw)
      BY <1>0, BringUpType, QuietBringUp DEF QuietAll
    <2>3. Quiet(hw, [o EXCEPT !.hw.needRestart = FALSE].hw)
      BY <2>2, QuietNeedRestart
    <2>4. UNCHANGED live /\ On("PREVIEWING", {"SET_PARAMS_RESTART"})
      BY <1>4 DEF PreviewingParamsRestart
    <2> QED
      BY <2>1, <2>3, <2>4, AnswerLive
  <1>5. CASE PreviewingStop
    BY <1>0, <1>5, QuietDelete, QuietOutcome, AnswerLive DEF PreviewingStop
  <1>6. CASE PreviewingPreStartRecording \/ PreviewingPreTakePicture
    BY <1>0, <1>6, QuietModes, ApplyLive
       DEF PreviewingPreStartRecording, PreviewingPreTakePicture
  <1>7. CASE PreviewingStartRecording
    <2>1. QuietAll(hw, startRecording(hw))
      BY <1>0, QuietRecording
    <2> QED
      BY <1>7, <2>1, AnswerLive DEF PreviewingStartRecording, QuietAll
  <1>8. CASE PreviewingPrepareSnapshot
    <2>1. \A o \in MayErr({hw}) : Quiet(hw, o.hw)
      BY QuietHw DEF MayErr
    <2> QED
      BY <1>0, <1>8, <2>1, FinishLive, AnswerLive DEF PreviewingPrepareSnapshot
  <1>9. CASE PreviewingTakeZsl \/ PreviewingTakeRestart \/ PreviewingTakeRegular
    BY <1>9, PreviewingTakeLive
  <1>10. CASE PreviewingSendCommand
    <2>1. PICK o \in sendCommand(hw, Next_cmd.arg, FALSE) :
             \/ Answer("PREVIEWING", o)
             \/ \E b \in BringUp(stopPreview(o.hw), FALSE, TRUE) :
                   Answer("PREVIEWING", b)
      BY <1>10 DEF PreviewingSendCommand
    <2>2. o.hw \in Hardware /\ Quiet(hw, o.hw)
      BY <1>0, QuietCommand DEF QuietAll, Quiet
    <2>3. stopPreview(o.hw) \in Hardware /\ Quiet(hw, stopPreview(o.hw))
      BY <2>2, StopPreviewType, QuietDelete, QuietTrans
    <2>4. \A b \in BringUp(stopPreview(o.hw), FALSE, TRUE) : Quiet(hw, b.hw)
      BY <2>3, QuietBringUp, QuietTrans DEF QuietAll
    <2>5. UNCHANGED live /\ On("PREVIEWING", {"SEND_COMMAND"})
      BY <1>10 DEF PreviewingSendCommand
    <2> QED
      BY <2>1, <2>2, <2>4, <2>5, AnswerLive
  <1>11. CASE \/ SetParams("PREVIEWING") \/ CommitParams("PREVIEWING")
              \/ EvtDone("PREVIEWING")
    BY <1>11, SharedLive
  <1> QED
    BY <1>1, <1>2, <1>3, <1>4, <1>5, <1>6, <1>7, <1>8, <1>9, <1>10, <1>11
       DEF procEvtPreviewingState

(* Every handler of QCAMERA_SM_STATE_PREPARE_SNAPSHOT. *)
LEMMA PrepareSnapshotLive ==
    ASSUME SmInv, procEvtPrepareSnapshotState
    PROVE  LiveStep
  <1>1. CASE PrepareSnapshotRefused
             \/ Ignore("PREPARE_SNAPSHOT",
                       {"STOP_CAPTURE_CHANNEL", "READY_FOR_SNAPSHOT"})
    BY <1>1, SimpleLive DEF PrepareSnapshotRefused
  <1>2. CASE PrepareSnapshotDone
    BY <1>2, QuietHw, FinishLive DEF PrepareSnapshotDone
  <1>3. CASE DaemonDied("PREPARE_SNAPSHOT") \/ EvtDone("PREPARE_SNAPSHOT")
    BY <1>3, SharedLive
  <1> QED
    BY <1>1, <1>2, <1>3 DEF procEvtPrepareSnapshotState

(* The requests of a running longshot. *)
LEMMA LongshotLive ==
    ASSUME SmInv, NEW s, LongshotPreTake(s) \/ LongshotTake(s) \/ NotLongshot(s)
    PROVE  LiveStep
  <1>1. /\ QuietAll(hw, IF hw.longshot THEN {Ok(hw)} ELSE {})
        /\ QuietAll(hw, IF hw.longshot THEN longShot(hw) ELSE {})
    BY QuietHw, QuietLongShot DEF QuietAll
  <1>2. CASE LongshotPreTake(s) \/ LongshotTake(s)
    BY <1>1, <1>2, ApplyLive DEF LongshotPreTake, LongshotTake
  <1>3. CASE NotLongshot(s)
    BY <1>3, SimpleLive DEF NotLongshot
  <1> QED
    BY <1>2, <1>3

(* Every handler of QCAMERA_SM_STATE_PIC_TAKING. *)
LEMMA PicTakingLive ==
    ASSUME SmInv, procEvtPicTakingState
    PROVE  LiveStep
  <1>0. Quiet(hw, hw) /\ hw \in Hardware /\ m_RestoreZSL \in BOOLEAN
    BY QuietHw DEF SmInv, SmTypeOK
  <1>1. CASE PicTakingAcknowledged \/ PicTakingRefused
             \/ Ignore("PIC_TAKING", {"PREP_SNAPSHOT_DONE", "READY_FOR_SNAPSHOT"})
    BY <1>1, SimpleLive DEF PicTakingAcknowledged, PicTakingRefused
  <1>2. CASE PicTakingCancel
    BY <1>0, <1>2, QuietCancel, QuietOutcome, AnswerLive DEF PicTakingCancel
  <1>3. CASE PicTakingSendCommand
    <2>1. QuietAll(hw, sendCommand(hw, Next_cmd.arg, TRUE))
      BY <1>0, QuietCommand
    <2> QED
      BY <1>3, <2>1, AnswerLive DEF PicTakingSendCommand, QuietAll
  <1>4. CASE PicTakingStopCaptureChannel
    <2> DEFINE o == stopCaptureChannel(hw)
    <2>1. Quiet(hw, o.hw)
      BY <1>0, QuietStop DEF stopCaptureChannel, Channel
    <2>2. /\ On("PIC_TAKING", {"STOP_CAPTURE_CHANNEL"}) /\ UNCHANGED live
          /\ \/ \E b \in BringUp(o.hw, TRUE, FALSE) : Answer("PIC_TAKING", b)
             \/ Answer("PIC_TAKING", o)
      BY <1>4 DEF PicTakingStopCaptureChannel
    <2> HIDE DEF o
    <2>3. \A b \in BringUp(o.hw, TRUE, FALSE) : Quiet(hw, b.hw)
      <3>1. o.hw \in Hardware
        BY <2>1 DEF Quiet
      <3>2. QuietAll(o.hw, BringUp(o.hw, TRUE, FALSE))
        BY <3>1, QuietBringUp
      <3> QED
        BY <2>1, <3>2, QuietTrans DEF QuietAll
    <2> QED
      BY <2>1, <2>2, <2>3, AnswerLive
  <1>5. CASE PicTakingDone
    BY <1>0, <1>5, QuietCancel, FinishLive DEF PicTakingDone
  <1>6. CASE PicTakingDoneRestart
    <2>1. PICK g \in updateZSLModeValue(cancelPicture(hw), m_RestoreZSL) :
             \E b \in BringUp(g, TRUE, FALSE) :
                Finish("PREVIEWING", b.hw,
                       <<Result("EVT", "SNAPSHOT_DONE", b.rc)>>)
      BY <1>6 DEF PicTakingDoneRestart
    <2>2. cancelPicture(hw) \in Hardware /\ Quiet(hw, cancelPicture(hw))
      BY <1>0, CancelPictureType, QuietCancel
    <2>3. g \in Hardware /\ Quiet(hw, g)
      BY <1>0, <2>2, QuietValues, QuietTrans DEF Quiet
    <2>4. \A b \in BringUp(g, TRUE, FALSE) : Quiet(hw, b.hw)
      BY <2>3, QuietBringUp, QuietTrans DEF QuietAll
    <2>5. UNCHANGED live /\ On("PIC_TAKING", {"SNAPSHOT_DONE"})
      BY <1>6 DEF PicTakingDoneRestart
    <2> QED
      BY <2>1, <2>4, <2>5, FinishLive
  <1>7. CASE \/ LongshotPreTake("PIC_TAKING") \/ LongshotTake("PIC_TAKING")
             \/ NotLongshot("PIC_TAKING")
    BY <1>7, LongshotLive
  <1>8. CASE \/ EnableMsg("PIC_TAKING") \/ DisableMsg("PIC_TAKING")
             \/ SetParams("PIC_TAKING") \/ CommitParams("PIC_TAKING")
             \/ ForgetRestart("PIC_TAKING") \/ DaemonDied("PIC_TAKING")
    BY <1>8, SharedLive
  <1> QED
    BY <1>1, <1>2, <1>3, <1>4, <1>5, <1>6, <1>7, <1>8
       DEF procEvtPicTakingState

(* Parameters of a recording, refused or not. *)
LEMMA RecordingSetParamsLive ==
    ASSUME SmInv, NEW s, RecordingSetParams(s)
    PROVE  LiveStep
  <1>1. PICK o \in updateParameters(hw, Next_cmd.arg) :
           \/ Answer(s, o)
           \/ Answer(s, Err([o.hw EXCEPT !.needRestart = FALSE]))
    BY DEF RecordingSetParams
  <1>2. o.hw \in Hardware /\ Quiet(hw, o.hw)
    BY QuietHw, QuietParameters DEF QuietAll, Quiet
  <1> DEFINE h == [o.hw EXCEPT !.needRestart = FALSE]
  <1>3. h \in Hardware /\ h.ch = o.hw.ch
    BY <1>2 DEF Hardware
  <1>4. Answer(s, o) \/ Answer(s, Err(h))
    BY <1>1
  <1> HIDE DEF h
  <1>5. Quiet(hw, Err(h).hw)
    BY <1>2, <1>3, QuietSame, QuietTrans, QuietOutcome
  <1>6. On(s, {"SET_PARAMS"}) /\ UNCHANGED live
    BY DEF RecordingSetParams
  <1> QED
    BY <1>2, <1>4, <1>5, <1>6, StayLive DEF Answer

(* Every handler of QCAMERA_SM_STATE_RECORDING: TAKE_PICTURE starts the    *)
(* thread, in the state that is made for it.                               *)
LEMMA RecordingLive ==
    ASSUME SmInv, procEvtRecordingState
    PROVE  LiveStep
  <1>0. Quiet(hw, hw) /\ hw \in Hardware
    BY QuietHw
  <1>1. CASE RecordingAcknowledged \/ RecordingRefused
             \/ Ignore("RECORDING",
                       {"STOP_CAPTURE_CHANNEL", "PREP_SNAPSHOT_DONE",
                        "READY_FOR_SNAPSHOT", "DAEMON_DIED"})
    BY <1>1, SimpleLive DEF RecordingAcknowledged, RecordingRefused
  <1>2. CASE RecordingSendCommand
    BY <1>0, <1>2, QuietCommand, ApplyLive DEF RecordingSendCommand
  <1>3. CASE RecordingTakePicture
    <2>1. CASE Answer("VIDEO_PIC_TAKING", Ok(hw)) /\ live' = "take"
      BY <1>3, <2>1, QuietHw, AnswerQuiet
         DEF RecordingTakePicture, Joined, LiveStep
    <2>2. CASE Answer("RECORDING", Err(hw)) /\ UNCHANGED live
      BY <1>3, <2>2, QuietHw, AnswerLive DEF RecordingTakePicture
    <2> QED
      BY <1>3, <2>1, <2>2 DEF RecordingTakePicture
  <1>4. CASE RecordingStop
    BY <1>0, <1>4, QuietRecording, AnswerLive DEF RecordingStop
  <1>5. CASE RecordingStopPreview
    BY <1>0, <1>5, QuietRecording, QuietOutcome, AnswerLive
       DEF RecordingStopPreview
  <1>6. CASE \/ RecordingSetParams("RECORDING") \/ CommitParams("RECORDING")
             \/ EnableMsg("RECORDING") \/ DisableMsg("RECORDING")
             \/ EvtDone("RECORDING")
    BY <1>6, RecordingSetParamsLive, SharedLive
  <1> QED
    BY <1>1, <1>2, <1>3, <1>4, <1>5, <1>6 DEF procEvtRecordingState

(* A cancellation that gets its thread. *)
LEMMA CancelStarts ==
    ASSUME ~ NoThread, cancelLiveSnapshot
    PROVE  live = "none" /\ live' = "cancel"
  BY DEF cancelLiveSnapshot, Joined

(* Every handler of QCAMERA_SM_STATE_VIDEO_PIC_TAKING: whoever leaves the  *)
(* state tells the thread to cancel.                                       *)
LEMMA VideoPicLive ==
    ASSUME ~ NoThread, SmInv, procEvtVideoPicTakingState
    PROVE  LiveStep
  <1>0. Quiet(hw, hw) /\ hw \in Hardware
    BY QuietHw
  <1>1. CASE VideoPicAcknowledged \/ VideoPicRefused
             \/ Ignore("VIDEO_PIC_TAKING",
                       {"STOP_CAPTURE_CHANNEL", "PREP_SNAPSHOT_DONE",
                        "READY_FOR_SNAPSHOT", "DAEMON_DIED"})
    BY <1>1, SimpleLive DEF VideoPicAcknowledged, VideoPicRefused
  <1>2. CASE VideoPicSendCommand
    BY <1>0, <1>2, QuietCommand, ApplyLive DEF VideoPicSendCommand
  <1>3. CASE VideoPicCancel \/ VideoPicDone
    <2>1. live = "none" /\ live' = "cancel"
      BY <1>3, CancelStarts DEF VideoPicCancel, VideoPicDone
    <2>2. SnapKept
      BY <1>0, <1>3, FinishQuiet DEF VideoPicCancel, VideoPicDone, Answer
    <2> QED
      BY <2>1, <2>2 DEF LiveStep
  <1>4. CASE VideoPicStopRecording \/ VideoPicStopPreview
    <2>1. live = "none" /\ live' = "cancel"
      BY <1>4, CancelStarts DEF VideoPicStopRecording, VideoPicStopPreview
    <2>2. SnapKept
      BY <1>0, <1>4, QuietRecording, QuietOutcome, AnswerQuiet
         DEF VideoPicStopRecording, VideoPicStopPreview
    <2> QED
      BY <2>1, <2>2 DEF LiveStep
  <1>5. CASE \/ RecordingSetParams("VIDEO_PIC_TAKING")
             \/ CommitParams("VIDEO_PIC_TAKING")
             \/ EnableMsg("VIDEO_PIC_TAKING") \/ DisableMsg("VIDEO_PIC_TAKING")
    BY <1>5, RecordingSetParamsLive, SharedLive
  <1> QED
    BY <1>1, <1>2, <1>3, <1>4, <1>5 DEF procEvtVideoPicTakingState

(* A live snapshot in this state, a longshot or ZSL picture: the end.      *)
LEMMA PreviewPicEndLive ==
    ASSUME ~ NoThread, SmInv,
           PreviewPicCancel \/ PreviewPicStopPreview \/ PreviewPicDone
    PROVE  LiveStep
  <1>0. Quiet(hw, hw) /\ hw \in Hardware
    BY QuietHw
  <1>1. PICK h \in {cancelPicture(hw), unpreparePreview(cancelPicture(hw)),
                    hw, unpreparePreview(hw)} :
           /\ \E t, rs : Finish(t, h, rs)
           /\ UNCHANGED live \/ cancelLiveSnapshot
    BY DEF PreviewPicCancel, PreviewPicStopPreview, PreviewPicDone, Answer, Ok
  <1>2. Quiet(hw, h)
    BY <1>0, QuietCancel, QuietDelete
  <1>3. \E E : On("PREVIEW_PIC_TAKING", E)
    BY DEF PreviewPicCancel, PreviewPicStopPreview, PreviewPicDone
  <1>4. CASE UNCHANGED live
    BY <1>1, <1>2, <1>3, <1>4, FinishLive
  <1>5. CASE cancelLiveSnapshot
    BY <1>1, <1>2, <1>5, CancelStarts, FinishQuiet DEF LiveStep
  <1> QED
    BY <1>1, <1>4, <1>5

(* Every handler of QCAMERA_SM_STATE_PREVIEW_PIC_TAKING. *)
LEMMA PreviewPicLive ==
    ASSUME ~ NoThread, SmInv, procEvtPreviewPicTakingState
    PROVE  LiveStep
  <1>0. Quiet(hw, hw) /\ hw \in Hardware
    BY QuietHw
  <1>1. CASE PreviewPicAcknowledged \/ PreviewPicRefused
             \/ PreviewPicRecordRefused
             \/ Ignore("PREVIEW_PIC_TAKING", {"STOP_CAPTURE_CHANNEL"})
    BY <1>1, SimpleLive DEF PreviewPicAcknowledged, PreviewPicRefused,
       PreviewPicRecordRefused
  <1>2. CASE PreviewPicParamsStop
    <2>1. QuietAll(hw, {Ok(stopPreview(hw))})
      BY <1>0, QuietDelete, QuietOutcome DEF QuietAll
    <2> QED
      BY <1>2, <2>1, ApplyLive DEF PreviewPicParamsStop
  <1>3. CASE PreviewPicParamsRestart
    <2>1. PICK o \in BringUp(hw, TRUE, TRUE) :
             \E t : Answer(t, [o EXCEPT !.hw.needRestart = FALSE])
      BY <1>3 DEF PreviewPicParamsRestart
    <2>2. o \in BroughtUp /\ Quiet(hw, o.hw)
      BY <1>0, BringUpType, QuietBringUp DEF QuietAll
    <2>3. Quiet(hw, [o EXCEPT !.hw.needRestart = FALSE].hw)
      BY <2>2, QuietNeedRestart
    <2>4. UNCHANGED live /\ On("PREVIEW_PIC_TAKING", {"SET_PARAMS_RESTART"})
      BY <1>3 DEF PreviewPicParamsRestart
    <2> QED
      BY <2>1, <2>3, <2>4, AnswerLive
  <1>4. CASE PreviewPicSendCommand
    <2>1. QuietAll(hw, sendCommand(hw, Next_cmd.arg, TRUE))
      BY <1>0, QuietCommand
    <2> QED
      BY <1>4, <2>1, AnswerLive DEF PreviewPicSendCommand, QuietAll
  <1>5. CASE PreviewPicCancel \/ PreviewPicStopPreview \/ PreviewPicDone
    BY <1>5, PreviewPicEndLive
  <1>6. CASE PreviewPicPreStartRecording
    <2> DEFINE S == IF ZslOrLongshot(hw) THEN {} ELSE preStartRecording(hw, TRUE)
    <2>1. QuietAll(hw, S)
      BY <1>0, QuietModes DEF QuietAll
    <2>2. Apply("PREVIEW_PIC_TAKING", {"PRE_START_RECORDING"}, S)
      BY <1>6 DEF PreviewPicPreStartRecording
    <2> HIDE DEF S
    <2> QED
      BY <2>1, <2>2, ApplyLive
  <1>7. CASE PreviewPicStartRecording
    <2>1. QuietAll(hw, startRecording(hw))
      BY <1>0, QuietRecording
    <2> QED
      BY <1>7, <2>1, AnswerLive DEF PreviewPicStartRecording, QuietAll
  <1>8. CASE PreviewPicPrepareSnapshot
    <2>1. \A o \in MayErr({hw}) : Quiet(hw, o.hw)
      BY QuietHw DEF MayErr
    <2> QED
      BY <1>0, <1>8, <2>1, FinishLive, AnswerLive DEF PreviewPicPrepareSnapshot
  <1>9. CASE \/ RetroEvent("PREP_SNAPSHOT_DONE", "PREPARE_SNAPSHOT")
             \/ RetroEvent("READY_FOR_SNAPSHOT", "TAKE_PICTURE")
    BY <1>0, <1>9, FinishLive DEF RetroEvent
  <1>10. CASE \/ LongshotPreTake("PREVIEW_PIC_TAKING")
              \/ LongshotTake("PREVIEW_PIC_TAKING")
              \/ NotLongshot("PREVIEW_PIC_TAKING")
    BY <1>10, LongshotLive
  <1>11. CASE \/ EnableMsg("PREVIEW_PIC_TAKING")
              \/ DisableMsg("PREVIEW_PIC_TAKING")
              \/ SetParams("PREVIEW_PIC_TAKING")
              \/ CommitParams("PREVIEW_PIC_TAKING")
              \/ DaemonDied("PREVIEW_PIC_TAKING")
    BY <1>11, SharedLive
  <1> QED
    BY <1>1, <1>2, <1>3, <1>4, <1>5, <1>6, <1>7, <1>8, <1>9, <1>10, <1>11
       DEF procEvtPreviewPicTakingState

-----------------------------------------------------------------------------
(* The live snapshot thread, and the theorem *)

(* A LiveStep keeps the snapshot contained. *)
LEMMA LiveStepInv ==
    ASSUME LiveSnapshotContained, LiveStep
    PROVE  LiveSnapshotContained'
  BY DEF LiveSnapshotContained, LiveStep, SnapKept

(* The handlers of the state machine. *)
LEMMA MachineContains ==
    ASSUME ~ NoThread, SmInv, LiveSnapshotContained, smEvtProcRoutine
    PROVE  LiveSnapshotContained'
  <1>1. CASE stateMachine
    BY <1>1, StoppedLive, ReadyLive, PreviewingLive, PrepareSnapshotLive,
       PicTakingLive, RecordingLive, VideoPicLive, PreviewPicLive, LiveStepInv
       DEF stateMachine
  <1>2. CASE Exit
    BY <1>2 DEF Exit, LiveSnapshotContained
  <1> QED
    BY <1>1, <1>2 DEF smEvtProcRoutine

(* The thread itself: it starts the channel only in the state in which it  *)
(* was started, which it still is in; and a cancellation stops it.         *)
LEMMA ThreadContains ==
    ASSUME SmInv, LiveSnapshotContained, Live_Snapshot_thread
    PROVE  LiveSnapshotContained'
  <1>0. hw \in Hardware
    BY HwType
  <1>1. live' = "none" /\ m_state' = m_state
    BY DEF Live_Snapshot_thread, LiveTakeStarts, LiveTakeFails,
           LiveTakeAbandoned, LiveCancel
  <1>2. CASE LiveTakeStarts \/ LiveTakeFails \/ LiveTakeAbandoned
    <2>1. m_state = "VIDEO_PIC_TAKING"
      BY <1>2 DEF LiveTakeStarts, LiveTakeFails, LiveTakeAbandoned,
                  LiveSnapshotContained
    <2> QED
      BY <1>1, <2>1 DEF LiveSnapshotContained
  <1>3. CASE LiveCancel
    <2>1. hw' = [stopChannel(hw, "SNAPSHOT").hw EXCEPT !.postproc = FALSE]
      BY <1>3 DEF LiveCancel
    <2>2. stopChannel(hw, "SNAPSHOT").hw
             = IF hw.ch["SNAPSHOT"] = "null" THEN hw
               ELSE WithChannels(hw, {"SNAPSHOT"}, "added")
      BY DEF stopChannel, Ok, Err
    <2>3. /\ WithChannels(hw, {"SNAPSHOT"}, "added") \in Hardware
          /\ WithChannels(hw, {"SNAPSHOT"}, "added").ch["SNAPSHOT"] = "added"
      <3>1. WithChannels(hw, {"SNAPSHOT"}, "added") \in Hardware
        BY <1>0, WithChannelsType DEF ChannelState
      <3> QED
        BY <1>0, <3>1 DEF WithChannels, Hardware, Channel
    <2>4. \A h \in Hardware : [h EXCEPT !.postproc = FALSE].ch = h.ch
      BY DEF Hardware
    <2>5. hw'.ch["SNAPSHOT"] # "started"
      BY <1>0, <2>1, <2>2, <2>3, <2>4
    <2> QED
      BY <1>1, <2>5 DEF LiveSnapshotContained
  <1> QED
    BY <1>2, <1>3 DEF Live_Snapshot_thread

(* The callers touch neither the channels nor the thread. *)
LEMMA CallerContains ==
    ASSUME LiveSnapshotContained, CallerStep
    PROVE  LiveSnapshotContained'
  BY DEF LiveSnapshotContained, CallerStep

(***************************************************************************)
(* For all callers and settings, whichever calls into the daemon fail: the *)
(* SNAPSHOT channel streams only in VIDEO_PIC_TAKING or until the thread   *)
(* that cancels it has run, and the thread that starts it never starts it  *)
(* after the state was left.  That the thread can be created is necessary: *)
(* cancelLiveSnapshot leaves the state whether it can or not.              *)
(***************************************************************************)
THEOREM LiveSnapshotIsContained ==
    ASSUME ~ NoThread
    PROVE  Spec => []LiveSnapshotContained
  <1>1. SmInit => LiveSnapshotContained
    BY DEF SmInit, InitHardware, LiveSnapshotContained, Channel
  <1>2. SmInv /\ LiveSnapshotContained /\ [Next]_smVars
           => LiveSnapshotContained'
    <2> SUFFICES ASSUME SmInv, LiveSnapshotContained, [Next]_smVars
                 PROVE  LiveSnapshotContained'
      OBVIOUS
    <2>1. CASE smEvtProcRoutine \/ Live_Snapshot_thread
      BY <2>1, MachineContains, ThreadContains
    <2>2. CASE Request \/ Raise \/ SetRetroPicture \/ SetPrepSnapRun \/ Signal
               \/ releaseThread
      BY <2>2, RequestStep, RaiseStep, FlagStep, SignalStep, ReleaseThreadStep,
         CallerContains
    <2>3. CASE UNCHANGED smVars
      BY <2>3 DEF smVars, LiveSnapshotContained
    <2> QED
      BY <2>1, <2>2, <2>3 DEF Next
  <1> QED
    BY <1>1, <1>2, Invariance, PTL DEF Spec

-----------------------------------------------------------------------------
(***************************************************************************)
(* PREVIEW_STOPPED means that no channel of preview or recording is left,  *)
(* for all callers and settings, whichever calls into the daemon fail, as  *)
(* long as no capture brings preview up again by itself and no restart of  *)
(* set_parameters comes while preview is still there.  Without either the  *)
(* claim is false: PIC_TAKING takes preview for stopped, and a failure to  *)
(* prepare preview deletes no channel but the ones it was adding.          *)
(***************************************************************************)
THEOREM StoppedIsStopped ==
    ASSUME ~ RestartEnabled
    PROVE  Spec /\ []RestartsBare => []StoppedHasNoPreview
  <1>1. SmInit => DarkIsBare
    BY DEF SmInit, InitHardware, DarkIsBare, Bare, PreviewChannels, Channel
  <1>2. SmInv /\ RestartsBare /\ DarkIsBare /\ [Next]_smVars => DarkIsBare'
    <2> SUFFICES ASSUME SmInv, RestartsBare, DarkIsBare, [Next]_smVars
                 PROVE  DarkIsBare'
      OBVIOUS
    <2>1. CASE smEvtProcRoutine \/ Live_Snapshot_thread
      BY <2>1, MachineKeepsDark, ThreadKeepsDark
    <2>2. CASE Request \/ Raise \/ SetRetroPicture \/ SetPrepSnapRun \/ Signal
               \/ releaseThread
      BY <2>2, RequestStep, RaiseStep, FlagStep, SignalStep, ReleaseThreadStep,
         CallerKeepsDark
    <2>3. CASE UNCHANGED smVars
      BY <2>3 DEF smVars, DarkIsBare, Bare
    <2> QED
      BY <2>1, <2>2, <2>3 DEF Next
  <1>3. DarkIsBare => StoppedHasNoPreview
    BY DEF DarkIsBare, DarkState, Bare, StoppedHasNoPreview
  <1> QED
    BY <1>1, <1>2, <1>3, Invariance, PTL DEF Spec

=============================================================================
