--------------------------- MODULE MCStateMachine ---------------------------
(* Instances of StateMachineEnv for TLC. *)
EXTENDS StateMachineEnv, SequencesExt

(* Preview, pictures and recordings in both modes, with the window. *)
StillRequest == {"SET_PREVIEW_WINDOW", "PREPARE_PREVIEW", "START_PREVIEW",
                 "STOP_PREVIEW", "SET_PARAMS", "SET_PARAMS_STOP",
                 "SET_PARAMS_COMMIT", "SET_PARAMS_RESTART",
                 "PRE_START_RECORDING", "START_RECORDING", "PREPARE_SNAPSHOT",
                 "SEND_COMMAND", "TAKE_PICTURE", "CANCEL_PICTURE",
                 "STOP_CAPTURE_CHANNEL"}

(* Messages that are delayed, long shots, recordings, the flash. *)
OpenRequest == {"ENABLE_MSG_TYPE", "DISABLE_MSG_TYPE", "SET_PARAMS",
                "SET_PARAMS_STOP", "SET_PARAMS_COMMIT", "SET_PARAMS_RESTART",
                "START_NODISPLAY_PREVIEW", "STOP_PREVIEW",
                "PRE_START_RECORDING", "START_RECORDING", "STOP_RECORDING",
                "PREPARE_SNAPSHOT", "PRE_TAKE_PICTURE", "TAKE_PICTURE",
                "CANCEL_PICTURE", "SEND_COMMAND", "STOP_CAPTURE_CHANNEL",
                "RELEASE"}

(* set_parameters stops preview before it restarts it. *)
RestartAfterStop ==
    Len(api_queue') > Len(api_queue) /\ Last(api_queue').evt = "SET_PARAMS_RESTART"
        => hw.ch["ZSL"] = "null" /\ hw.ch["PREVIEW"] = "null"

(* No long shots, and no flash that was made ready before. *)
OneByOne == ~ hw'.longshot /\ ~ hw'.prepSnapRun

AnyEvent == InternalEvt
HintSetting == {{"hint"}}
ZslSetting == {{}, {"zsl"}}

(* Results are signalled before anything else happens: a signal commutes   *)
(* with every other step.                                                  *)
SignalFirst == replies # <<>> => Signal

CONSTANT MaxPending \* no post while this many commands are queued

Pending == Len(api_queue) + Len(evt_queue)

FewPending == Pending' > Pending => Pending < MaxPending \/ live' # live
=============================================================================
