SPECIFICATION Spec
CONSTANTS
    c1 = c1
    c2 = c2
    c3 = c3
    w1 = w1
    src = src
    Clients <- ThreeClients
    Sources <- OneSource
    Writers <- OneWriter
    Feeds <- OneFeeds
    Validators <- OnlyNone
    NoValidator = ""
    ChanCap = 1
    MaxSets = 2
SYMMETRY Symmetry
INVARIANTS SubscriberListExact SetReadsSubscribers DeliveredInOrder SkippedOnlyWhenCrossed NothingLostSilently SetNeverWaits
PROPERTIES ClosedChannelGetsNothing ImplementsBroadcast
CHECK_DEADLOCK FALSE
