SPECIFICATION Spec
CONSTANTS
    c1 = c1
    c2 = c2
    c3 = c3
    w1 = w1
    src = src
    Sources <- OneSource
    Validators <- ValidatorsA
    NoValidator = ""
    Clients <- ThreeClients
    Writers <- OneWriter
    Feeds <- OneFeeds
    ChanCap = 1
    MaxSets = 1
SYMMETRY Symmetry
INVARIANT EveryListedSubscriberVisited
CHECK_DEADLOCK FALSE
