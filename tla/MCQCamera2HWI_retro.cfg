SPECIFICATION FairSpec
CONSTANTS
    MayFail = FALSE
    Senders = {app}
    HAL = HAL
    NoThread = FALSE
    RestartEnabled = FALSE
    ManualCapture3 = FALSE
    Methods <- PlainMethods
    Settings <- ZslOnly
    NoDisplay = TRUE
    Retro = TRUE
    AllRetro = FALSE
    CanDie = TRUE
    MaxResults = 3
CONSTRAINT FewResults
PROPERTIES CallsReturn OpenSpec DeathStopsWait
