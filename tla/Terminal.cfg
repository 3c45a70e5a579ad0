\* Lines of up to two bytes; a key may be pressed while one byte is under way.
CONSTANTS
    Letters <- SomeLetters
    Secrets <- SomeSecrets
    MaxLine = 2
    MaxAhead = 1
SPECIFICATION Spec
INVARIANTS
    TypeOK
    LinesRunAsEntered
    EditorFollowsKeys
    ScreenShowsLine
    ConversationIsUnbroken
    PasswordNeverShown
    IInv
