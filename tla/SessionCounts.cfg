SPECIFICATION SessionSpec
CONSTANTS
    Client = {c1, c2, c3}
    Name = {"admin", "user", "other"}
    NoName = ""
    NoUser = NoUser
    HTTP_MAX_USERS = 2
    HTTP_MAX_SESSIONS = 8
    AccountTables <- ChangingTables
SYMMETRY ClientSymmetry
INVARIANTS
    SessionsCounted
    NoPhantomSessions
    SessionNamesAccount
PROPERTY
    IdentityFixed
