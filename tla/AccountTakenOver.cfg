\* Two connections at a time beside the listener, one name, two passwords.
CONSTANTS
    Connections = {s1, s2}
    Names = {waynerad}
    Passwords = {sesame, swordfish}
    Short = Short
    Yes = Yes
    No = No
    ChannelNames = {general}
    Other = Other
    Quit = Quit
    Nothing = Nothing
    DatabaseErrors = FALSE
    FdLimit = 3
    MaxBuffered = 1
SPECIFICATION Spec
SYMMETRY SlotsAndSecrets
PROPERTIES
    PasswordsNeverChange
CHECK_DEADLOCK FALSE
