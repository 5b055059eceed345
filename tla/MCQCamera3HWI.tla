---------------------------- MODULE MCQCamera3HWI ----------------------------
(* Instances of QCamera3HWI for TLC. *)
EXTENDS QCamera3HWI

InFlight1 == [n \in BatchSizes |-> IF n = 0 THEN 2 ELSE 3]
InFlight2 == [n \in BatchSizes |-> IF n = 0 THEN 2 ELSE 4]

(* High speed recording that is flushed, or whose restarts fail; calls that  *)
(* fail; a daemon that dies; reprocessing.                                   *)
Normal == [sizes |-> {0}, frames |-> 2, reprocess |-> FALSE,
           flush |-> TRUE, die |-> FALSE, fail |-> FALSE]
HighSpeed == [Normal EXCEPT !.sizes = {2}, !.frames = 3]
Broken == [HighSpeed EXCEPT !.flush = FALSE, !.fail = TRUE]
Failing == [Normal EXCEPT !.fail = TRUE]
Dying == [Normal EXCEPT !.die = TRUE, !.flush = FALSE, !.sizes = {0, 2}]
Reprocessing == [Normal EXCEPT !.reprocess = TRUE, !.flush = FALSE, !.frames = 3]

LiveScenarios == {HighSpeed, Broken, Failing, Dying, Reprocessing}
=============================================================================
