SPECIFICATION FairSpec
CONSTANTS
    MinBurst = 3
    MaxBurst = 16
    MinGap = 2
    MaxGap = 5
    Needed = 3
    CycleCap = 10
    Cooldown = 30
    Saturation = 18
INVARIANTS
    TypeOK
PROPERTIES
    EnoughRhythm
    CryingEnds
    ImplementsAlarm
