------------------------------ MODULE QCamera2HWI ------------------------------
(***************************************************************************)
(* The camera_device methods of QCamera2HardwareInterface                  *)
(* (src/camera/QCamera2/HAL/QCamera2HWI.cpp) around the state machine.  A  *)
(* thread of the application takes m_lock, posts a request with            *)
(* processAPI, waits on m_cond until a result of that kind is in           *)
(* m_apiResultList, and takes it.  Some methods post several requests, one *)
(* after the other, some of them without letting go of m_lock.             *)
(*                                                                         *)
(* m_lock is free except while a thread waits for it to be its turn, so a  *)
(* critical section, up to the wait that releases the lock, is one action. *)
(* The application's threads are Senders.  The camera daemon answers       *)
(* PREPARE_SNAPSHOT and the retro-active part of a capture with an event.  *)
(*                                                                         *)
(* Nothing ever takes the results of STOP_CAPTURE_CHANNEL, and of a retro  *)
(* picture's SNAPSHOT_DONE, from m_apiResultList; these nodes, which only  *)
(* pile up there, are left out of the variable.                            *)
(***************************************************************************)
EXTENDS QCameraStateMachine, SequencesExt

CONSTANTS
    Methods,    \* the methods the application calls, a subset of Method
    Settings,   \* the parameter strings of set_parameters, sets of flags
    NoDisplay,  \* isNoDisplayMode(): preview needs no window
    Retro,      \* getNumOfRetroSnapshots() > 0
    AllRetro,   \* every frame of a retro picture is a retro-active one
    CanDie,     \* TRUE: the daemon may die
    MaxResults  \* bound on m_apiResultList, for model checking only

VARIABLES
    call,             \* what each thread of the application is doing
    m_apiResultList,
    owed              \* what the daemon still has to deliver

hwiVars == <<call, m_apiResultList, owed>>
vars == <<smVars, hwiVars>>

(* The methods that post one request and wait for it. *)
RequestOf ==
    [set_preview_window |-> "SET_PREVIEW_WINDOW",
     prepare_preview |-> "PREPARE_PREVIEW",
     start_preview |-> IF NoDisplay THEN "START_NODISPLAY_PREVIEW"
                       ELSE "START_PREVIEW",
     stop_preview |-> "STOP_PREVIEW",
     preview_enabled |-> "PREVIEW_ENABLED",
     enable_msg_type |-> "ENABLE_MSG_TYPE",
     disable_msg_type |-> "DISABLE_MSG_TYPE",
     stop_recording |-> "STOP_RECORDING",
     cancel_picture |-> "CANCEL_PICTURE",
     send_command |-> "SEND_COMMAND",
     release |-> "RELEASE"]

Simple == DOMAIN RequestOf

Method == Simple \cup {"set_parameters", "start_recording", "take_picture"}

ASSUME HwiAssumption ==
    /\ Methods \subseteq Method
    /\ Settings \subseteq SUBSET Flag
    /\ NoDisplay \in BOOLEAN
    /\ Retro \in BOOLEAN /\ AllRetro \in BOOLEAN /\ CanDie \in BOOLEAN
    /\ MaxResults \in Nat

(***************************************************************************)
(* A call: the method, with take_picture split by the kind of picture it   *)
(* chose, the request it is at and that request's payload, and where it    *)
(* stands: outside the HAL, about to post, waiting on m_cond, or woken.    *)
(***************************************************************************)
Call == [method : (Method \ {"take_picture"})
                    \cup {"none", "take_normal", "take_retro"},
         evt : Evt, arg : SUBSET Flag,
         at : {"out", "next", "wait", "woken"}]

NoCall == [method |-> "none", evt |-> "NONE", arg |-> {}, at |-> "out"]

Init ==
    /\ SmInit
    /\ call = [t \in Senders |-> NoCall]
    /\ m_apiResultList = <<>>
    /\ owed = {}

-----------------------------------------------------------------------------
(* Entering a method *)

ArgsOf(m) ==
    CASE m = "set_preview_window" -> {{}, {"window"}}
      [] m = "set_parameters" -> Settings
      [] m = "send_command" -> {{"LONGSHOT_ON"}, {"LONGSHOT_OFF"}}
      [] OTHER -> {{}}

At(m, e, a, where) == [method |-> m, evt |-> e, arg |-> a, at |-> where]

EnterSimple(t) ==
    /\ call[t].at = "out"
    /\ \E m \in Methods \cap Simple : \E a \in ArgsOf(m) :
          call' = [call EXCEPT ![t] = At(m, RequestOf[m], a, "next")]
    /\ UNCHANGED <<smVars, m_apiResultList, owed>>

set_parameters(t) ==
    /\ call[t].at = "out" /\ "set_parameters" \in Methods
    /\ \E a \in Settings :
          call' = [call EXCEPT ![t] =
                      At("set_parameters", "SET_PARAMS", a, "next")]
    /\ UNCHANGED <<smVars, m_apiResultList, owed>>

start_recording(t) ==
    /\ call[t].at = "out" /\ "start_recording" \in Methods
    /\ call' = [call EXCEPT ![t] =
                   At("start_recording", "PRE_START_RECORDING", {}, "next")]
    /\ UNCHANGED <<smVars, m_apiResultList, owed>>

(* take_picture looks at the mode without the lock and sets bRetroPicture. *)
TakesRetro == Retro /\ ~ isRecording /\ hw.p.zsl /\ ~ hw.longshot

take_picture(t) ==
    /\ call[t].at = "out" /\ "take_picture" \in Methods
    /\ hw' = [hw EXCEPT !.retro = TakesRetro]
    /\ call' = [call EXCEPT ![t] =
          IF TakesRetro
          THEN At("take_retro", "PRE_TAKE_PICTURE", {}, "next")
          ELSE At("take_normal", IF hw.prepSnapRun THEN "PRE_TAKE_PICTURE"
                                 ELSE "PREPARE_SNAPSHOT", {}, "next")]
    /\ UNCHANGED <<api_queue, evt_queue, m_state, msgs, m_RestoreZSL, live,
                   replies, running, m_apiResultList, owed>>

Enter(t) ==
    EnterSimple(t) \/ set_parameters(t) \/ start_recording(t) \/ take_picture(t)

-----------------------------------------------------------------------------
(* Posting a request *)

(* lockAPI, processAPI and the first wait. *)
Issue(t) ==
    /\ call[t].at = "next"
    /\ call[t].evt # "PREPARE_SNAPSHOT"
    /\ procAPI(call[t].evt, call[t].arg, t)
    /\ call' = [call EXCEPT ![t].at = "wait"]
    /\ UNCHANGED <<evt_queue, m_state, hw, msgs, m_RestoreZSL, live, replies,
                   running, m_apiResultList, owed>>

OnlyOnce == hw.longshot /\ hw.prepSnapRun

(* prepare_snapshot: the flash has to be prepared. *)
IssuePrepare(t) ==
    /\ call[t].at = "next" /\ call[t].evt = "PREPARE_SNAPSHOT"
    /\ ~ OnlyOnce
    /\ procAPI("PREPARE_SNAPSHOT", {}, t)
    /\ call' = [call EXCEPT ![t].at = "wait"]
    /\ UNCHANGED <<evt_queue, m_state, hw, msgs, m_RestoreZSL, live, replies,
                   running, m_apiResultList, owed>>

(* Nothing to prepare: mFlashNeeded is false, or a longshot goes on. *)
SkipPrepare(t) ==
    /\ call[t].at = "next" /\ call[t].evt = "PREPARE_SNAPSHOT"
    /\ call' = [call EXCEPT ![t] =
          IF call[t].method = "take_retro" THEN NoCall
          ELSE [call[t] EXCEPT !.evt = "PRE_TAKE_PICTURE"]]
    /\ UNCHANGED <<smVars, m_apiResultList, owed>>

-----------------------------------------------------------------------------
(* waitAPIResult: the first result of the right kind, whoever asked for it *)

Matching(t) ==
    {i \in DOMAIN m_apiResultList : m_apiResultList[i].evt = call[t].evt}

(* Mutation: a thread that is woken for nothing leaves. *)
NotYet_GivesUp(t) ==
    /\ call[t].at = "woken" /\ Matching(t) = {}
    /\ call' = [call EXCEPT ![t] = NoCall]
    /\ UNCHANGED <<smVars, m_apiResultList, owed>>

NotYet(t) ==
    /\ call[t].at = "woken" /\ Matching(t) = {}
    /\ call' = [call EXCEPT ![t].at = "wait"]
    /\ UNCHANGED <<smVars, m_apiResultList, owed>>

First(t) == CHOOSE i \in Matching(t) : \A j \in Matching(t) : i <= j

(* Mutation: the result stays in the list. *)
Answered_LeavesIt(t) ==
    /\ call[t].at = "woken" /\ Matching(t) # {}
    /\ UNCHANGED m_apiResultList

(* The thread t has its result and takes it from the list. *)
Answered(t) ==
    /\ call[t].at = "woken" /\ Matching(t) # {}
    /\ m_apiResultList' = RemoveAt(m_apiResultList, First(t))

status(t) == m_apiResultList[First(t)].status

Leave(t) == call' = [call EXCEPT ![t] = NoCall]

(* unlockAPI; the next request needs the lock again. *)
Then(t, e) ==
    call' = [call EXCEPT ![t].evt = e, ![t].arg = {}, ![t].at = "next"]

(* The next request goes out before the lock is let go. *)
Post(t, e) ==
    /\ procAPI(e, {}, t)
    /\ call' = [call EXCEPT ![t].evt = e, ![t].at = "wait"]

ReturnSimple(t) ==
    /\ Answered(t) /\ call[t].method \in Simple
    /\ Leave(t)
    /\ UNCHANGED <<smVars, owed>>

(* Mutations: the commit is skipped when preview was stopped; the chain    *)
(* goes on after its last request.                                         *)
AfterParams_SkipsCommit(e) ==
    CASE e = "SET_PARAMS" -> IF hw.needRestart THEN "SET_PARAMS_STOP"
                             ELSE "SET_PARAMS_COMMIT"
      [] e = "SET_PARAMS_STOP" -> "SET_PARAMS_RESTART"
      [] OTHER -> "NONE"

AfterParams_GoesOn(e) ==
    CASE e = "SET_PARAMS" -> "SET_PARAMS_STOP"
      [] e = "SET_PARAMS_STOP" -> "SET_PARAMS_COMMIT"
      [] e = "SET_PARAMS_COMMIT" -> "SET_PARAMS_RESTART"
      [] OTHER -> "SET_PARAMS_DONE"

(* set_parameters: stop, commit, restart, as far as the results allow. *)
AfterParams(e) ==
    CASE e = "SET_PARAMS" -> IF hw.needRestart THEN "SET_PARAMS_STOP"
                             ELSE "SET_PARAMS_COMMIT"
      [] e = "SET_PARAMS_STOP" -> "SET_PARAMS_COMMIT"
      [] e = "SET_PARAMS_COMMIT" -> IF hw.needRestart
                                    THEN "SET_PARAMS_RESTART" ELSE "NONE"
      [] OTHER -> "NONE"

ContinueParams(t) ==
    /\ Answered(t) /\ call[t].method = "set_parameters"
    /\ status(t) = "OK" /\ AfterParams(call[t].evt) # "NONE"
    /\ Post(t, AfterParams(call[t].evt))
    /\ UNCHANGED <<evt_queue, m_state, hw, msgs, m_RestoreZSL, live, replies,
                   running, owed>>

ReturnParams(t) ==
    /\ Answered(t) /\ call[t].method = "set_parameters"
    /\ status(t) # "OK" \/ AfterParams(call[t].evt) = "NONE"
    /\ Leave(t)
    /\ UNCHANGED <<smVars, owed>>

AfterRecording(t) ==
    /\ Answered(t) /\ call[t].method = "start_recording"
    /\ IF call[t].evt = "PRE_START_RECORDING" /\ status(t) = "OK"
       THEN Then(t, "START_RECORDING") ELSE Leave(t)
    /\ UNCHANGED <<smVars, owed>>

(***************************************************************************)
(* take_picture.  The status of prepare_snapshot is ignored; mPrepSnapRun  *)
(* is set in the critical section that took its result, and reset after a  *)
(* normal picture unless a longshot is on.                                 *)
(***************************************************************************)
(* Mutation: a refused request is tried again. *)
AfterPreTake_Retries(t) ==
    /\ Answered(t) /\ call[t].evt = "PRE_TAKE_PICTURE"
    /\ Then(t, IF status(t) = "OK" THEN "TAKE_PICTURE" ELSE "PRE_TAKE_PICTURE")
    /\ UNCHANGED <<smVars, owed>>

AfterPreTake(t) ==
    /\ Answered(t) /\ call[t].evt = "PRE_TAKE_PICTURE"
    /\ IF status(t) = "OK" THEN Then(t, "TAKE_PICTURE") ELSE Leave(t)
    /\ UNCHANGED <<smVars, owed>>

AfterTake(t) ==
    /\ Answered(t) /\ call[t].evt = "TAKE_PICTURE"
    /\ \/ /\ call[t].method = "take_retro"
          /\ Then(t, "PREPARE_SNAPSHOT")
          /\ UNCHANGED hw
       \/ /\ call[t].method = "take_normal"
          /\ Leave(t)
          /\ hw' = [hw EXCEPT !.prepSnapRun = hw.longshot /\ hw.prepSnapRun]
    /\ UNCHANGED <<api_queue, evt_queue, m_state, msgs, m_RestoreZSL, live,
                   replies, running, owed>>

(* Mutation: a refused preparation is tried again. *)
AfterPrepare_Retries(t) ==
    /\ Answered(t) /\ call[t].evt = "PREPARE_SNAPSHOT"
    /\ hw' = [hw EXCEPT !.prepSnapRun = TRUE]
    /\ IF status(t) # "OK" THEN Then(t, "PREPARE_SNAPSHOT")
       ELSE IF call[t].method = "take_retro" THEN Leave(t)
       ELSE Then(t, "PRE_TAKE_PICTURE")
    /\ UNCHANGED <<api_queue, evt_queue, m_state, msgs, m_RestoreZSL, live,
                   replies, running, owed>>

AfterPrepare(t) ==
    /\ Answered(t) /\ call[t].evt = "PREPARE_SNAPSHOT"
    /\ hw' = [hw EXCEPT !.prepSnapRun = TRUE]
    /\ IF call[t].method = "take_retro" THEN Leave(t)
       ELSE Then(t, "PRE_TAKE_PICTURE")
    /\ UNCHANGED <<api_queue, evt_queue, m_state, msgs, m_RestoreZSL, live,
                   replies, running, owed>>

Proceed(t) ==
    \/ Issue(t) \/ IssuePrepare(t) \/ SkipPrepare(t) \/ NotYet(t)
    \/ ReturnSimple(t) \/ ContinueParams(t) \/ ReturnParams(t)
    \/ AfterRecording(t) \/ AfterPreTake(t) \/ AfterTake(t) \/ AfterPrepare(t)

-----------------------------------------------------------------------------
(* The state machine thread, the daemon *)

(***************************************************************************)
(* A PREPARE_SNAPSHOT that the handler accepted makes the daemon prepare   *)
(* the flash; an accepted retro picture makes the channel report when its  *)
(* retro-active frames are out, and hold back the other frames, if any,    *)
(* until the flash is prepared.  Neither request has a result yet.         *)
(***************************************************************************)
Accepted(e) == Next_cmd.cmd = "API" /\ Next_cmd.evt = e /\ replies' = <<>>

RetroFrames == {"READY_FOR_SNAPSHOT"} \cup IF AllRetro THEN {} ELSE {"REST"}

(***************************************************************************)
(* A post-processor that starts will see a frame and bring a last JPEG,    *)
(* unless it stops.  Of a capture that was cancelled, retro-active frames  *)
(* and those that were held back may or may not come.                      *)
(***************************************************************************)
StillOwed ==
    IF ~ hw'.postproc
    THEN {owed \ {"FRAME", "JPEG"},
          owed \ {"FRAME", "JPEG", "READY_FOR_SNAPSHOT", "REST"}}
    ELSE {owed \cup IF ~ hw.postproc THEN {"FRAME", "JPEG"} ELSE {}}

HandleCommand ==
    /\ smEvtProcRoutine
    /\ \E o \in StillOwed :
          owed' = o \cup
             (IF Accepted("PREPARE_SNAPSHOT") THEN {"PREP_SNAPSHOT_DONE"}
              ELSE {})
             \cup (IF Accepted("TAKE_PICTURE") THEN RetroFrames ELSE {})
    /\ UNCHANGED <<call, m_apiResultList>>

LiveThread ==
    /\ Live_Snapshot_thread
    /\ owed' \in StillOwed
    /\ UNCHANGED <<call, m_apiResultList>>

(* The results that somebody may wait for. *)
Awaited == ApiEvt \ {"STOP_CAPTURE_CHANNEL", "SNAPSHOT_DONE"}

(* Mutation: the newest result goes first. *)
signalAPIResult_Newest ==
    /\ replies # <<>> /\ Last(replies).kind = "API"
    /\ replies' = Front(replies)
    /\ m_apiResultList' = Append(m_apiResultList, Last(replies))
    /\ call' = [t \in Senders |->
                  IF call[t].at = "wait" THEN [call[t] EXCEPT !.at = "woken"]
                  ELSE call[t]]
    /\ UNCHANGED <<api_queue, evt_queue, m_state, hw, msgs, m_RestoreZSL,
                   live, running, owed>>

(* signalAPIResult appends the result and wakes every waiting thread.      *)
signalAPIResult ==
    /\ replies # <<>> /\ Head(replies).kind = "API"
    /\ replies' = Tail(replies)
    /\ m_apiResultList' = IF Head(replies).evt \in Awaited
                          THEN Append(m_apiResultList, Head(replies))
                          ELSE m_apiResultList
    /\ call' = [t \in Senders |->
                  IF call[t].at = "wait" THEN [call[t] EXCEPT !.at = "woken"]
                  ELSE call[t]]
    /\ UNCHANGED <<api_queue, evt_queue, m_state, hw, msgs, m_RestoreZSL,
                   live, running, owed>>

(* signalEvtResult releases the notifier, whose thread is not modelled.    *)
signalEvtResult ==
    /\ replies # <<>> /\ Head(replies).kind = "EVT"
    /\ replies' = Tail(replies)
    /\ UNCHANGED <<api_queue, evt_queue, m_state, hw, msgs, m_RestoreZSL,
                   live, running, call, m_apiResultList, owed>>

DaemonEvent ==
    /\ \/ /\ "PREP_SNAPSHOT_DONE" \in owed
          /\ procEvt("PREP_SNAPSHOT_DONE")
          /\ owed' = owed \ {"PREP_SNAPSHOT_DONE", "REST"}
       \/ /\ "READY_FOR_SNAPSHOT" \in owed
          /\ procEvt("READY_FOR_SNAPSHOT")
          /\ owed' = owed \ {"READY_FOR_SNAPSHOT"}
    /\ UNCHANGED <<api_queue, m_state, hw, msgs, m_RestoreZSL, live, replies,
                   running, call, m_apiResultList>>

(***************************************************************************)
(* The notifier counts the last JPEG of the capture, unless it still waits *)
(* for the state machine to handle an earlier one.  In a longshot it does  *)
(* not count.                                                              *)
(***************************************************************************)
LastJpeg ==
    /\ "JPEG" \in owed /\ ~ hw.longshot
    /\ \A i \in DOMAIN evt_queue : evt_queue[i].evt # "SNAPSHOT_DONE"
    /\ owed \cap {"READY_FOR_SNAPSHOT", "REST"} = {}
    /\ procEvt("SNAPSHOT_DONE")
    /\ owed' = owed \ {"JPEG"}
    /\ UNCHANGED <<api_queue, m_state, hw, msgs, m_RestoreZSL, live, replies,
                   running, call, m_apiResultList>>

(***************************************************************************)
(* The post-processor has a frame of a regular capture in its hands: the   *)
(* CAPTURE channel is not needed any more.  It posts the request without   *)
(* the lock and does not wait.                                             *)
(***************************************************************************)
isRegularCapture == ~ hw.longshot /\ ~ hw.p.hint /\ ~ hw.p.zsl

stopCapture ==
    /\ "FRAME" \in owed
    /\ owed' = owed \ {"FRAME"}
    /\ IF isRegularCapture THEN procAPI("STOP_CAPTURE_CHANNEL", {}, HAL)
       ELSE UNCHANGED api_queue
    /\ UNCHANGED <<evt_queue, m_state, hw, msgs, m_RestoreZSL, live, replies,
                   running, call, m_apiResultList>>

DaemonDies ==
    /\ CanDie
    /\ \A i \in DOMAIN evt_queue : evt_queue[i].evt # "DAEMON_DIED"
    /\ procEvt("DAEMON_DIED")
    /\ UNCHANGED <<api_queue, m_state, hw, msgs, m_RestoreZSL, live, replies,
                   running, hwiVars>>

Daemon ==
    DaemonEvent \/ LastJpeg \/ stopCapture \/ DaemonDies

Next ==
    \/ \E t \in Senders : Enter(t) \/ Proceed(t)
    \/ HandleCommand \/ signalAPIResult \/ signalEvtResult \/ LiveThread
    \/ Daemon

Spec == Init /\ [][Next]_vars

(***************************************************************************)
(* Every thread keeps running, and the daemon answers what it was asked;   *)
(* the application need not call anything and no capture need end.         *)
(***************************************************************************)
Fairness ==
    /\ \A t \in Senders : WF_vars(Proceed(t))
    /\ WF_vars(HandleCommand)
    /\ WF_vars(signalAPIResult \/ signalEvtResult)
    /\ WF_vars(LiveThread)
    /\ WF_vars(DaemonEvent)

FairSpec == Spec /\ Fairness

(* Bound of the model-checking runs: results that nobody takes pile up. *)
FewResults == Len(m_apiResultList) <= MaxResults

-----------------------------------------------------------------------------
(* Every variable of the methods and the threads has its type. *)
TypeOK ==
    /\ SmTypeOK
    /\ call \in [Senders -> Call]
    /\ m_apiResultList \in Seq(Reply)
    /\ owed \subseteq {"PREP_SNAPSHOT_DONE", "READY_FOR_SNAPSHOT", "REST",
                       "FRAME", "JPEG"}

Posted(t, e) == call[t].at \in {"wait", "woken"} /\ call[t].evt = e

(***************************************************************************)
(* "API is in a way sync call": as long as a request is in the queue the   *)
(* thread that posted it is waiting for it, so the payload it points to is *)
(* still there when the state machine looks at it.                         *)
(***************************************************************************)
SyncCall ==
    \A i \in DOMAIN api_queue :
        api_queue[i].from \in Senders =>
            Posted(api_queue[i].from, api_queue[i].evt)

(***************************************************************************)
(* Every result on its way to the application has a thread that waits for  *)
(* a result of this kind, one for each: no call leaves a result behind     *)
(* that the next call of the same method would take for its own.           *)
(***************************************************************************)
OnItsWay(e) ==
    Cardinality({i \in DOMAIN api_queue : api_queue[i].evt = e})
    + Cardinality({i \in DOMAIN replies :
                      replies[i].kind = "API" /\ replies[i].evt = e})
    + Cardinality({i \in DOMAIN m_apiResultList : m_apiResultList[i].evt = e})

NoSpareResult ==
    \A e \in Awaited : OnItsWay(e) <= Cardinality({t \in Senders : Posted(t, e)})

(***************************************************************************)
(* PREVIEWING means frames: when no call is under way, preview streams in  *)
(* every path into and through the state, restarts for new parameters and  *)
(* the ends of captures and recordings included.                           *)
(***************************************************************************)
PreviewingStreams ==
    /\ m_state = "PREVIEWING" /\ replies = <<>>
    /\ \A t \in Senders : call[t].at = "out"
    => hw.ch["ZSL"] = "started" \/ hw.ch["PREVIEW"] = "started"

(***************************************************************************)
(* A mode that needs a restart does not change under a running recording:  *)
(* the state machine refuses parameters that would change it.              *)
(***************************************************************************)
ModeFixedWhileRecording ==
    [][isRecording /\ isRecording' =>
          hw'.p.zsl = hw.p.zsl /\ hw'.p.hint = hw.p.hint]_vars

(***************************************************************************)
(* When set_parameters reports success after its commit, ZSL is on exactly *)
(* if the string it was given says so.                                     *)
(***************************************************************************)
ZslInForce ==
    [][\A t \in Senders :
          ReturnParams(t) /\ status(t) = "OK" =>
              hw.p.zsl = ("zsl" \in call[t].arg)]_vars

(***************************************************************************)
(* No set of calls hangs: the threads that are inside the HAL do not stay  *)
(* inside, all of them and no other, for ever.  With one thread this says  *)
(* that every call returns.                                                *)
(***************************************************************************)
Busy == {t \in Senders : call[t].at # "out"}

CallsReturn == \A T \in SUBSET Senders : T # {} => []<>(Busy # T)

(***************************************************************************)
(* "Send internal events to stop indefinite wait on prepare snapshot done  *)
(* event": once the death of the daemon has been handled, no thread waits  *)
(* for a PREPARE_SNAPSHOT that nothing will answer any more.               *)
(***************************************************************************)
Unanswered(e) == OnItsWay(e) = 0 /\ \E t \in Senders : Posted(t, e)

DeathStopsWait ==
    [][HandleCommand /\ Next_cmd.evt = "DAEMON_DIED" =>
          ~ Unanswered("PREPARE_SNAPSHOT")']_vars

(***************************************************************************)
(* The methods are an environment of the state machine: everything that    *)
(* module StateMachineEnv allows its callers covers what they do.  What    *)
(* holds of the state machine in the open environment holds here.          *)
(***************************************************************************)
Env == INSTANCE StateMachineEnv WITH Requests <- ApiEvt, Events <- InternalEvt

OpenSpec == Env!Spec

=============================================================================
