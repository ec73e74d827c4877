SPECIFICATION FairSpec
CONSTANTS
    None = None
    Reading <- MCReading
    Setting = {}
    Elapsed = {1}
    Up = 1
    Down = 1
    Detect = 2
    MaxSustained = 2
    CrisisInterval = 1
    StandardInterval = 1
    GentleInterval = 1
    Hold = 2
    MaxSteps = 2
    Brand = {"Samsung", "Roku"}
    TopVolume = 2
    HomeVolume = {2}
    Capacity = 2
    Manual = 1
PROPERTIES
    RestoringEnds
    DisarmRestores
