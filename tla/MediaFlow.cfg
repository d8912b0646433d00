SPECIFICATION FairSpec
CONSTANTS
    SeqSize = 8
    FrameSize = 2
    MaxGaps = 8
    LateTime = 1
    VeryLateTime = 1
    SustainedTime = 1
    ReportTime = 1
    HoldTime = 1
    FeedbackTime = 2
    MaxDelay = 1
    MaxLost = 1
    MaxMissing = 2
INVARIANTS
    LossesCounted
PROPERTIES
    SteadyQuality
    QualityRecovers
    StreamContinues
