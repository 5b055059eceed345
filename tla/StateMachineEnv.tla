--------------------------- MODULE StateMachineEnv ---------------------------
(***************************************************************************)
(* The state machine thread and the live snapshot thread in the most       *)
(* general surroundings: callers of procAPI and procEvt that post whatever *)
(* they like, whenever they like, without waiting for results.  What holds *)
(* here holds under every discipline of the callers.                       *)
(***************************************************************************)
EXTENDS QCameraStateMachine

CONSTANTS
    Requests,   \* the API requests that are made, a subset of ApiEvt
    Events,     \* the events that are raised, a subset of InternalEvt
    Settings    \* the parameter strings of SET_PARAMS, sets of flags

ASSUME EnvAssumption ==
    /\ Requests \subseteq ApiEvt
    /\ Events \subseteq InternalEvt
    /\ Settings \subseteq SUBSET Flag

(* The payloads a request may carry. *)
Payloads(e) ==
    CASE e = "SET_PREVIEW_WINDOW" -> {{}, {"window"}}
      [] e = "SET_PARAMS" -> Settings
      [] e = "SEND_COMMAND" -> {{"LONGSHOT_ON"}, {"LONGSHOT_OFF"}}
      [] OTHER -> {{}}

(* STOP_CAPTURE_CHANNEL is the post-processor's, all others are methods'. *)
Posters(e) == IF e = "STOP_CAPTURE_CHANNEL" THEN {HAL} ELSE Senders

Request ==
    /\ \E e \in Requests : \E f \in Posters(e) : \E a \in Payloads(e) :
          procAPI(e, a, f)
    /\ UNCHANGED <<evt_queue, m_state, hw, msgs, m_RestoreZSL, live,
                   replies, running>>

Raise ==
    /\ \E e \in Events : procEvt(e)
    /\ UNCHANGED <<api_queue, m_state, hw, msgs, m_RestoreZSL, live,
                   replies, running>>

(* take_picture notes, without any request, that it takes a retro picture  *)
(* and that the flash has been prepared.                                   *)
SetRetroPicture ==
    /\ "READY_FOR_SNAPSHOT" \in Events
    /\ \E b \in BOOLEAN : hw' = [hw EXCEPT !.retro = b]
    /\ UNCHANGED <<api_queue, evt_queue, m_state, msgs, m_RestoreZSL, live,
                   replies, running>>

SetPrepSnapRun ==
    /\ "PREPARE_SNAPSHOT" \in Requests
    /\ \E b \in BOOLEAN : hw' = [hw EXCEPT !.prepSnapRun = b]
    /\ UNCHANGED <<api_queue, evt_queue, m_state, msgs, m_RestoreZSL, live,
                   replies, running>>

Signal ==
    /\ replies # <<>>
    /\ replies' = Tail(replies)
    /\ UNCHANGED <<api_queue, evt_queue, m_state, hw, msgs, m_RestoreZSL,
                   live, running>>

releaseThread ==
    /\ api_queue' = Append(api_queue, Node("EXIT", "NONE", {}, HAL))
    /\ UNCHANGED <<evt_queue, m_state, hw, msgs, m_RestoreZSL, live,
                   replies, running>>

Next == \/ smEvtProcRoutine \/ Live_Snapshot_thread
        \/ Request \/ Raise \/ SetRetroPicture \/ SetPrepSnapRun
        \/ Signal \/ releaseThread

Spec == SmInit /\ [][Next]_smVars

=============================================================================
