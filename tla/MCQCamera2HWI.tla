---------------------------- MODULE MCQCamera2HWI ----------------------------
(* Instances of QCamera2HWI for TLC. *)
EXTENDS QCamera2HWI

(* Pictures that nobody cancels. *)
PlainMethods == {"set_parameters", "start_preview", "take_picture"}

(* Pictures that may be cancelled, in one mode. *)
CaptureMethods == {"start_preview", "stop_preview", "take_picture",
                   "cancel_picture"}

(* Changes of mode around pictures and recordings that end by themselves. *)
ModeMethods == PlainMethods \cup {"start_recording", "stop_recording"}

ZslOnly == {{"zsl"}}
AnySettings == SUBSET {"zsl", "hint"}
=============================================================================
