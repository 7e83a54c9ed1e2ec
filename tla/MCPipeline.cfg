SPECIFICATION FairSpec
CONSTANTS
    Versions <- FourVersions
    Tagged <- OneTwo
    Empty <- OnlyTwo
    MaxChanges = 3
    MaxCrashes = 1
    MaxFailures = 2
INVARIANTS PayloadMatchesValidator StoreKeepsUp RowsAreChanges HealthTellsTruth
PROPERTIES RowPrecedesBroadcast ClientsCatchUp
