CONSTANTS
    d1 = d1
    d2 = d2
    d3 = d3
    Doppelgangers = {d1, d2}
    UserOf <- OwnUser
    Channels = {c1}
    Nowhere = Nowhere
    NoChannel = NoChannel
    Joining = Joining
    Nobody = Nobody
    Leave = Leave
    MaxMembers = 1
    SpeechBuffer = 4
    DenialBuffer = 4
    CantExitLimit = 1
    Impatient = {}
    Offered <- JoinExitWhoQuit
    DatabaseErrors = FALSE
    Timely = TRUE
    MaxLines = 2
    MaxLaunches = 2
SPECIFICATION Spec
SYMMETRY UsersAlike
INVARIANTS
    CountMatchesRoster
    NothingSentToReturned
    EmptyServerIsClean
    NoCrash
    MasterStaysUp
    PatientInv
PROPERTIES
    KeepsPromise
