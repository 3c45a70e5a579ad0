CONSTANTS
    d1 = d1
    d2 = d2
    d3 = d3
    Doppelgangers = {d1}
    UserOf <- OwnUser
    Channels = {c1}
    Nowhere = Nowhere
    NoChannel = NoChannel
    Joining = Joining
    Nobody = Nobody
    Leave = Leave
    MaxMembers = 6
    SpeechBuffer = 4
    DenialBuffer = 4
    CantExitLimit = 1
    Impatient = {d1}
    Offered <- JoinExit
    DatabaseErrors = FALSE
    Timely = TRUE
    MaxLines = 2
    MaxLaunches = 4
SPECIFICATION Spec
INVARIANTS
    MasterStaysUp
CHECK_DEADLOCK FALSE
