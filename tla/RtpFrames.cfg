SPECIFICATION Spec
CONSTANTS
    Address = {1}
    NoAddress = 0
    Policies = {{}}
    ActiveTime = 1
    ProbeTime = 1
    FrameTime = 0
    IngressDepth = 2
    SeqMod = 5
    Leaving = {}
    MaxPieces = 2
    MaxFrames <- Microphone
    MaxDelay = 2
    MaxInFlight = 2
PROPERTIES
    StreamSpec
