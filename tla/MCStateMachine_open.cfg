SPECIFICATION Spec
CONSTANTS
    MayFail = FALSE
    Senders = {app}
    HAL = HAL
    NoThread = FALSE
    RestartEnabled = TRUE
    ManualCapture3 = TRUE
    Requests <- OpenRequest
    Events <- AnyEvent
    Settings <- HintSetting
    MaxPending = 1
INVARIANTS SmTypeOK DelayedMsgsKept LiveSnapshotContained
PROPERTY MsgsKept
ACTION_CONSTRAINTS SignalFirst FewPending
