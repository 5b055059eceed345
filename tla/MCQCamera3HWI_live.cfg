SPECIFICATION FairSpec
CONSTANTS
    Streams = {video, jpeg}
    Video = {video}
    Blob = {jpeg}
    MaxFrame = 3
    BatchSizes = {0, 2}
    MinInFlight <- InFlight1
    MaxInFlight <- InFlight2
    Scenarios <- LiveScenarios
INVARIANTS TypeOK Accounted AnsweredOnce LiveCount
PROPERTIES FlushAnswersAll ErrorSticks EveryRequestAnswered
