SPECIFICATION HubFairSpec
CONSTANTS
    c1 = c1
    c2 = c2
    w1 = w1
    w2 = w2
    s1 = s1
    s2 = s2
    Validators <- OnlyA
    NoValidator = ""
    ChanCap = 1
    MuxCap = 1
    Clients <- OneClient
    Sources <- TwoSources
    Writers <- TwoWriters
    Feeds <- TwoFeeds
    Order <- TwoOrder
    MaxSets = 1
PROPERTIES QueuedUpdateIsWritten NothingLeaks
CHECK_DEADLOCK FALSE
