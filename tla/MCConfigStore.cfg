SPECIFICATION FairSpec
CONSTANTS
    None = None
    longToken = longToken
    cutToken = cutToken
    Credentials = {home}
    TvConfig = {tv1, longToken, cutToken}
    Paired = {longToken, cutToken}
    Fitted <- MCFitted
    DefaultTv = tv1
    Calibration = {initial, loud}
    Loadable = {initial}
    DefaultCal = initial
    Build = {TRUE, FALSE}
    Attempts = 2
    Capacity = 2
INVARIANTS
    TypeOK
    Synced
    HotspotOnlyFresh
PROPERTIES
    OneSection
    Reachable
    ClientUnblocked
