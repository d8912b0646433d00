SPECIFICATION Spec
CONSTANTS
    Client = {c1}
    Reused = {c1}
    NoClient = NoClient
    rig0 = rig0
    rx0 = rx0
    Room = {rig0, rx0, sdr0}
    SdrRoom = {sdr0}
    MaxMembers = 2
    BaseRoom = {rig0}
    SubRoom = {rx0}
    RigOf <- ReceiveRoomOf
    DefaultRig = rig0
    Overrides = {rig0}
    NoRoom = NoRoom
    Vfo = {0, 1}
    NoVfo = NoVfo
    VfoMasks <- FirstOrBoth
    MAX_ROOMS = 2
INVARIANTS
    IndependentTuning
    DefaultRigMapping
