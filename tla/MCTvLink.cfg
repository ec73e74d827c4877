SPECIFICATION FairSpec
CONSTANTS
    None = None
    a = a
    b = b
    Address = {a, b}
    Unparsable = {}
    Choice <- MCChoice
    Stored <- MCStored
    Tokenless = {}
    QueueSize = 1
    SaveSize = 2
    MaxUnread = 2
    MaxSteps = 1
    MaxChanges = 1
INVARIANTS
    TypeOK
    AtMostOneLate
    TokenOfItsTv
PROPERTIES
    CapturedHere
    ChoiceTakenUp
