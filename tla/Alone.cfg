CONSTANTS
    d1 = d1
    d2 = d2
    d3 = d3
    Doppelgangers = {d1}
    UserOf <- OwnUser
    Channels = {c1, c2}
    Nowhere = Nowhere
    NoChannel = NoChannel
    Joining = Joining
    Nobody = Nobody
    Leave = Leave
    MaxMembers = 1
    SpeechBuffer = 1
    DenialBuffer = 4
    CantExitLimit = 1
    Impatient = {d1}
    Offered <- Everything
    DatabaseErrors = TRUE
    Timely = FALSE
    MaxLines = 4
    MaxLaunches = 4
SPECIFICATION Spec
INVARIANTS
    TypeOK
    EntryIsLive
    HoldersKeepTheirChannel
    ShutdownFindsEmptyRoster
    CountCoversRoster
CHECK_DEADLOCK FALSE
