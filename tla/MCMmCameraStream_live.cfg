SPECIFICATION FairSpec
CONSTANTS
    Streams = {"snapshot", "metadata"}
    Bufs = {b1, b2}
    Slots <- ZslSlots
    Meta = "metadata"
    HasCb = {"metadata"}
    Bundled = {"snapshot", "metadata"}
    InitReg <- AllWithDriver
    Envs <- LiveEnvs
    MaxPipe = 1
INVARIANTS TypeOK NotWrittenWhileHeld NoneLost KernelCount StoppedIsQuiet
PROPERTIES FramesRead ControlEnds
