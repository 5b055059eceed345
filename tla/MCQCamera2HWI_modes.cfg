SPECIFICATION Spec
CONSTANTS
    MayFail = FALSE
    Senders = {app}
    HAL = HAL
    NoThread = FALSE
    RestartEnabled = FALSE
    ManualCapture3 = FALSE
    Methods <- ModeMethods
    Settings <- AnySettings
    NoDisplay = TRUE
    Retro = FALSE
    AllRetro = FALSE
    CanDie = FALSE
    MaxResults = 3
CONSTRAINT FewResults
INVARIANTS TypeOK PreviewingStreams SyncCall PostprocOnlyInCapture
PROPERTY ZslInForce
