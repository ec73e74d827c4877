SPECIFICATION FairSpec
CONSTANTS
    None = None
    MaxCommands = 3
    FrameSize = 2
    LoadSize = 1
    OutcomeSize = 1
INVARIANTS
    TypeOK
PROPERTIES
    InOrder
    NeverStuck
    Converges
