SPECIFICATION Spec
CONSTANTS
    k1 = k1
    k2 = k2
    g1 = g1
    Keys <- TwoKeys
    MaxBody = 2
    Size <- Growing
    Tagged <- First
    HotMaxBytes = 2
    HotMaxEntries = 2
    DiskMaxBytes = 2
    Getters <- OneGetter
    Prewarm <- OneKey
    MaxGets = 2
    MaxCrashes = 1
INVARIANTS TiersExact ReloadIsOldOnlyByRaceOrSize
PROPERTY AnnouncesChanges
\* The Gets are bounded and a poller may have ended: then nothing is left to do.
CHECK_DEADLOCK FALSE
