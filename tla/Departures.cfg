\* Two slots, one descriptor besides the listener's: every connection brings
\* the listener to its retry.
CONSTANTS
    Connections = {s1, s2}
    Names = {waynerad}
    Passwords = {sesame}
    Short = Short
    Yes = Yes
    No = No
    ChannelNames = {general}
    Other = Other
    Quit = Quit
    Nothing = Nothing
    DatabaseErrors = TRUE
    FdLimit = 2
    MaxBuffered = 1
SPECIFICATION FairSpec
PROPERTIES
    DroppedSessionEnds
    ServesAgain
