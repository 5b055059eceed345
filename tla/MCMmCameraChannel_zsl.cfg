SPECIFICATION Spec
CONSTANTS
    Meta = "metadata"
    Attrs <- Channels
    Future = 2
    DivertMod = 4
CHECK_DEADLOCK FALSE
INVARIANTS TypeOK NoBufferLost MatchedFirst QueueBound NothingWithheld ZslPaired
PROPERTIES InOrder
