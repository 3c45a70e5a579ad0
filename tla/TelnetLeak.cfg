\* One connection.
CONSTANTS
    Connections = {s1}
    Names = {waynerad}
    Passwords = {sesame}
    Short = Short
    Yes = Yes
    No = No
    ChannelNames = {general}
    Other = Other
    Quit = Quit
    Nothing = Nothing
    DatabaseErrors = TRUE
    FdLimit = 2
    MaxBuffered = 1
SPECIFICATION FairSpec
PROPERTIES
    DroppedConnectionCloses
CHECK_DEADLOCK FALSE
