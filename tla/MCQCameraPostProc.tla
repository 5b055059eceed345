------------------------- MODULE MCQCameraPostProc -------------------------
(* Instances of QCameraPostProc for TLC. *)
EXTENDS QCameraPostProc

Scn(zsl, reproc, n, captures, cancels, fails) ==
    [zsl |-> zsl, reproc |-> reproc, n |-> n, captures |-> captures,
     cancels |-> cancels, fails |-> fails]

(* A picture, reprocessed, after one that may have been cancelled; two ZSL
   pictures, reprocessed, while calls and the encoder fail; two ZSL pictures
   that are encoded at once and may be cancelled; two plain pictures, one after
   the other. *)
LiveScenarios == {Scn(FALSE, TRUE, 1, 2, 1, FALSE), Scn(TRUE, TRUE, 2, 1, 0, TRUE),
                  Scn(TRUE, FALSE, 2, 1, 1, FALSE), Scn(FALSE, FALSE, 1, 2, 0, FALSE)}
=============================================================================
