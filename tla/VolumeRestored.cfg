SPECIFICATION Spec
CONSTANTS
    None = None
    Reading <- MCReading
    Setting = {}
    Elapsed = {1}
    Up = 1
    Down = 1
    Detect = 1
    MaxSustained = 1
    CrisisInterval = 1
    StandardInterval = 1
    GentleInterval = 1
    Hold = 1
    MaxSteps = 2
    Brand = {"Lg", "Samsung", "Sony", "Roku"}
    TopVolume = 3
    HomeVolume = {2}
    Capacity = 2
    Manual = 0
INVARIANTS
    VolumeRestored
