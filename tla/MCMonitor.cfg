SPECIFICATION FairSpec
CONSTANTS
    WindowSize = 2
    LedSize = 2
    Cooldown = 0
INVARIANTS
    TypeOK
    Paired
    LedAgrees
PROPERTIES
    AlertsArrive
