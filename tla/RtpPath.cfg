SPECIFICATION Spec
CONSTANTS
    Address = {1, 2}
    NoAddress = 0
    Policies = {{}, {1}, {2}}
    ActiveTime = 1
    ProbeTime = 1
    FrameTime = 0
    IngressDepth = 1
    SeqMod = 5
    Leaving = {"server"}
    MaxPieces = 1
    MaxFrames <- OneEach
    MaxDelay = 2
    MaxInFlight = 1
INVARIANTS
    ActiveMeansReachable
PROPERTIES
    PathRecovers
    ClientActivates
