SPECIFICATION FairSpec
CONSTANTS
    MayFail = FALSE
    Senders = {a1, a2}
    HAL = HAL
    NoThread = FALSE
    RestartEnabled = TRUE
    ManualCapture3 = TRUE
    Methods <- CaptureMethods
    Settings <- ZslOnly
    NoDisplay = TRUE
    Retro = FALSE
    AllRetro = FALSE
    CanDie = FALSE
    MaxResults = 3
CONSTRAINT FewResults
INVARIANT NoSpareResult
PROPERTY CallsReturn
