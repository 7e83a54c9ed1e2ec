SPECIFICATION FairSpec
CONSTANTS
    k1 = k1
    k2 = k2
    g1 = g1
    Keys <- OneKey
    MaxBody = 2
    Size <- Growing
    Tagged <- First
    HotMaxBytes = 2
    HotMaxEntries = 2
    DiskMaxBytes = 2
    Getters <- OneGetter
    Prewarm <- OneKey
    MaxGets = 2
    MaxCrashes = 1
PROPERTIES GetAnswers AnnouncementsCatchUp
\* The Gets are bounded and a poller may have ended: then nothing is left to do.
CHECK_DEADLOCK FALSE
