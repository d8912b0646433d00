CHECK_DEADLOCK FALSE
SPECIFICATION FairSpec
CONSTANTS
    Conn = {k1, k2}
    NoConn = NoConn
    MaxSwitches = 2
    MaxFaults = 1
INVARIANTS
    OwnChallengeAnswered
    CapabilitiesFirst
    OnlyCrossedKicked
PROPERTY
    LoginSucceeds
