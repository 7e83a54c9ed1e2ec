SPECIFICATION HubSpec
CONSTANTS
    c1 = c1
    c2 = c2
    w1 = w1
    w2 = w2
    s1 = s1
    s2 = s2
    Validators <- OnlyA
    NoValidator = ""
    ChanCap = 1
    MuxCap = 1
    Clients <- TwoClients
    Sources <- OneSource
    Writers <- OneWriter
    Feeds <- OneFeeds
    Order <- OneOrder
    MaxSets = 2
SYMMETRY Symmetry
INVARIANTS StaleOnlyByGapOrMiss
PROPERTIES ClientNeverGoesBack
CHECK_DEADLOCK FALSE
