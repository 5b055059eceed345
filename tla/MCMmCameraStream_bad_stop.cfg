SPECIFICATION Spec
CONSTANTS
    Streams = {"snapshot", "metadata"}
    Bufs = {b1, b2}
    Slots <- ZslSlots
    Meta = "metadata"
    HasCb = {"metadata"}
    Bundled = {"snapshot", "metadata"}
    InitReg <- AllWithDriver
    Envs <- StarvedEnvs
    MaxPipe = 1
INVARIANT StoppedIsQuiet
