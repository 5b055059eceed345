SPECIFICATION Spec
CONSTANTS
    MayFail = TRUE
    Senders = {app}
    HAL = HAL
    NoThread = TRUE
    RestartEnabled = FALSE
    ManualCapture3 = FALSE
    Requests <- StillRequest
    Events = {"SNAPSHOT_DONE", "PREP_SNAPSHOT_DONE", "DAEMON_DIED"}
    Settings <- ZslSetting
    MaxPending = 1
INVARIANTS RecordingHasVideo StoppedHasNoPreview
ACTION_CONSTRAINTS SignalFirst FewPending RestartAfterStop OneByOne
