SPECIFICATION Spec
CONSTANTS
    Malformed = Malformed
    BadTime = BadTime
    NotANumber = NotANumber
    DayLen = 2
    Width = 14
    Bodies <- AllBodies
    Options <- AllOptions
    Windows <- ShortWindows
    BucketsMax = 2
    ChangesMax = 2
    QuakesMax = 2
    MinMag = 4
    LookBack = 2
    MaxTime = 5
    MaxRows = 4
CHECK_DEADLOCK FALSE
INVARIANTS ClientsShowFeed AnswerCoversWindow PeakNotMissed VolcanoFeedExplains
PROPERTIES RecentRowsSurvive
