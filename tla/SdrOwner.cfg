SPECIFICATION SdrSpec
CONSTANTS
    Client = {c1, c2, c3}
    Reused = {c3}
    NoClient = NoClient
    Room = {sdr0, sdr1}
    SdrRoom = {sdr0, sdr1}
    MaxMembers = 5
INVARIANTS
    OwnerPresent
    OldestTunes
    TunerStays
