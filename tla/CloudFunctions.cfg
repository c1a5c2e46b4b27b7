CONSTANTS
    Sides <- SampleSides
    Followed <- FollowedSizes
    UploadLevels <- LevelOf
    n1 = n1
    n2 = n2
    Names = {n1, n2}
    NoName = NoName
    Instances = {i1, i2}
    Duplicated <- StartedTwice
    MaxDisturbances = 1
    Removable <- RemovableFiles
SPECIFICATION FairSpec
INVARIANTS TypeOK SameMeasure UploadFitsLevel LandscapeVersions NamedIsStored FilesMatchNames SettledNode
PROPERTIES VersionsArrive
CHECK_DEADLOCK FALSE
