SPECIFICATION Spec
CONSTANTS
    Client = {c1, c2}
    MAX_MEDIA_CHANNELS = 2
    MAX_CHANNELS <- Limits
    Source = {"rx0", "tx0"}
    TxSource = {"tx0"}
    Room = {"rig0", "rig0.sub"}
    NoRoom = NoRoom
    BaseRoom <- Bases
    DefaultRoom = "rig0"
    RigRooms <- Rig0
    Codec = {"opus", "opuT"}
    NoCodec = ""
    Allowed <- Preferences
    TestCodec = {"opuT"}
    Capabilities <- Advertised
SYMMETRY ClientSymmetry
INVARIANTS
    OneChannelPerSource
    SubscribersUnderstand
    PartRevokes
    TxNeverTest
PROPERTY
    FormatHeld
