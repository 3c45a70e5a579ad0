CONSTANTS
    d1 = d1
    d2 = d2
    d3 = d3
    Doppelgangers = {d1, d2}
    UserOf <- OwnUser
    Channels = {c1}
    Nowhere = Nowhere
    NoChannel = NoChannel
    Joining = Joining
    Nobody = Nobody
    Leave = Leave
    MaxMembers = 1
    SpeechBuffer = 4
    DenialBuffer = 4
    CantExitLimit = 1
    Impatient = {d1, d2}
    Offered <- JoinExit
    DatabaseErrors = FALSE
    Timely = FALSE
    MaxLines = 2
    MaxLaunches = 4
SPECIFICATION Spec
SYMMETRY UsersAlike
INVARIANTS
    IInv
    AccountsInv
    DenialsFindTheirEntry
    ShutdownFindsEmptyRoster
    CountCoversRoster
    OneLiveGoroutinePerChannel
    MasterNeverSendsOnClosed
CHECK_DEADLOCK FALSE
