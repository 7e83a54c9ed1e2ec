SPECIFICATION Spec
CONSTANTS
    nws_alerts = nws_alerts
    usgs_quakes = usgs_quakes
    outlook = outlook
    stream = stream
    Invalid = Invalid
    Null = Null
    SourceNames <- TwoSources
    DefaultIntervals <- TwoIntervals
    Registry <- OneImage
    DefaultPrewarm = {}
    Patterned = {"KYC001", "K08A", "K09A"}
    Floor = 8
    Setups <- MCSetups
    Requests = {stream}
    MaxFailures <- FewFailures
CHECK_DEADLOCK FALSE
INVARIANTS ReadyMeansComplete FirstPaintIsWarm StopIsOrderly PoliteAndPersistent SettingsUsable LayersInOrder
PROPERTIES StopEnds PollsForever
