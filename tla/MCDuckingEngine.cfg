SPECIFICATION FairSpec
CONSTANTS
    None = None
    Reading <- MCReading
    Setting <- MCSetting
    Volume <- MCVolume
    Elapsed <- MCElapsed
    Up = 2
    Down = 1
    Detect = 4
    MaxSustained = 6
    CrisisInterval = 1
    StandardInterval = 2
    GentleInterval = 3
    Hold = 6
    MaxSteps = 3
INVARIANTS
    TypeOK
    TripwireGap
PROPERTIES
    DetectionDelay
    HoldBeforeRestore
    QuietRoomRestores
    ImplementsView
