CONSTANTS
    d1 = d1
    d2 = d2
    d3 = d3
    Doppelgangers = {d1, d2}
    UserOf <- SharedUser
    Channels = {c1}
    Nowhere = Nowhere
    NoChannel = NoChannel
    Joining = Joining
    Nobody = Nobody
    Leave = Leave
    MaxMembers = 2
    SpeechBuffer = 4
    DenialBuffer = 4
    CantExitLimit = 1
    Impatient = {}
    Offered <- JoinExitSay
    DatabaseErrors = FALSE
    Timely = TRUE
    MaxLines = 3
    MaxLaunches = 6
SPECIFICATION Spec
SYMMETRY UsersAlike
INVARIANTS
    CountMatchesRoster
    NothingSentToReturned
    SettledViewsAgree
    NoCrash
