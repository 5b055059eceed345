------------------------- MODULE MCMmCameraChannel -------------------------
(* Instances of MmCameraChannel for TLC. *)
EXTENDS MmCameraChannel

Good(min, max) == [min |-> min, max |-> max, skip |-> 1]

Quiet == [streams |-> {"metadata", "snapshot"}, mode |-> "BURST", priority |-> "NORMAL",
          lookBack |-> 1, water |-> 1, unmatched |-> 1, frameSkip |-> 1, bufNum |-> 4, frames |-> 5,
          preps |-> {}, goods |-> {}, diverts |-> FALSE, longshot |-> FALSE,
          flushes |-> FALSE, advanced |-> FALSE,
          requests |-> 1, commands |-> 0, pictures |-> 2]

(* The ZSL channel with its diverted frames; with the flash and long shots;
   flushed and bracketing; the channel of the live snapshot; and the one of
   offline raw pictures. *)
Diverting == [Quiet EXCEPT !.diverts = TRUE, !.streams = @ \cup {"preview"},
                          !.lookBack = 2, !.water = 2, !.bufNum = 5]
Flash == [Quiet EXCEPT !.frames = 4, !.preps = {"future", "done"}, !.goods = {Good(2, 3)},
                       !.longshot = TRUE, !.requests = 2, !.commands = 1]
Bracketing == [Quiet EXCEPT !.goods = {Good(2, 3)}, !.flushes = TRUE, !.advanced = TRUE,
                            !.commands = 2, !.pictures = 1]
Live == [Quiet EXCEPT !.mode = "CONTINUOUS", !.priority = "LOW", !.lookBack = 0,
                      !.requests = 0, !.unmatched = 2, !.bufNum = 5]
Raw == [Quiet EXCEPT !.streams = {"raw"}, !.bufNum = 3]

Channels == {Diverting, Flash, Bracketing, Live, Raw}
=============================================================================
