CONSTANTS
    d1 = d1
    d2 = d2
    d3 = d3
    Doppelgangers = {d1}
    UserOf <- OwnUser
    Channels = {c1}
    Nowhere = Nowhere
    NoChannel = NoChannel
    Joining = Joining
    Nobody = Nobody
    Leave = Leave
    MaxMembers = 6
    SpeechBuffer = 2
    DenialBuffer = 4
    CantExitLimit = 1
    Impatient = {}
    Offered <- JoinSay
    DatabaseErrors = FALSE
    Timely = TRUE
    MaxLines = 6
    MaxLaunches = 1
SPECIFICATION Spec
INVARIANTS
    SpeakerAndChatNeverWedge
CHECK_DEADLOCK FALSE
