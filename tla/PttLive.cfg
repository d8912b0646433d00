SPECIFICATION FairSpec
CONSTANTS
    Client = {c1, c2}
    Name = {"admin", "operator"}
    NoName = ""
    NoUser = NoUser
    HTTP_MAX_USERS = 2
    HTTP_MAX_SESSIONS = 8
    AccountTables <- DisabledTables
    Room = {rig0}
    TxControl = {rig0}
    Vfo = {A}
    NoVfo = NoVfo
    NoRoom = NoRoom
    NoTalker = NoTalker
    VfoMasks <- AnyMask
    ResourceGrants <- NoGrants
INVARIANTS
    KeyedHasAuthority
PROPERTIES
    RevokedSessionsEnd
    KickedTalkerReleases
