SPECIFICATION Spec
CONSTANTS
    Client = {c1, c2}
    Name = {"admin", "operator"}
    NoName = ""
    NoUser = NoUser
    HTTP_MAX_USERS = 2
    HTTP_MAX_SESSIONS = 8
    AccountTables <- SupervisedTables
    Room = {rig0, rig1}
    TxControl = {rig0, rig1}
    Vfo = {A}
    NoVfo = NoVfo
    NoRoom = NoRoom
    NoTalker = NoTalker
    VfoMasks <- FixedMask
    ResourceGrants <- OperatorGrants
SYMMETRY ClientSymmetry
INVARIANTS
    SingleTalker
    RigFollowsTalker
    AudioFromTalker
    MutedNeverKeyed
    OverrideIsStrict
PROPERTY
    ImplementsLock
