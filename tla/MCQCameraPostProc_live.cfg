SPECIFICATION FairSpec
CONSTANTS
    Concurrent = 1
    PPBufs = 1
    Scenarios <- LiveScenarios
INVARIANTS TypeOK FramesAccounted
PROPERTIES PictureArrives
CHECK_DEADLOCK FALSE
