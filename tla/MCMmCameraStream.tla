-------------------------- MODULE MCMmCameraStream --------------------------
(* Instances of MmCameraStream for TLC. *)
EXTENDS MmCameraStream

ZslSlots == <<"snapshot", "metadata">>
AllWithDriver == [s \in Streams |-> Bufs]

Env(metadata, snapshot, stops, fails) ==
    [reserve |-> [s \in Streams |-> IF s = Meta THEN metadata ELSE snapshot],
     stops |-> stops, fails |-> fails]

(* A driver that hands out every metadata buffer, to a channel that never
   stops; a channel that starts and stops while the driver keeps a buffer of
   each stream for the hardware; and a driver that refuses calls. *)
LiveEnvs == {Env(0, 2, FALSE, FALSE), Env(1, 1, TRUE, FALSE), Env(1, 2, TRUE, TRUE)}
StarvedEnvs == {Env(0, 2, TRUE, FALSE)}
=============================================================================
