CONSTANTS
    MaxVersion = 2
    MaxUpgrades = 2
    MaxOps = 1
    MaxCrashes = 1
SPECIFICATION FairSpec
INVARIANTS
    TypeOK
    OneUpgradeAtATime
    RowTellsTheTruth
    ImagesKept
PROPERTIES
    UpgradeSettles
CHECK_DEADLOCK FALSE
