CONSTANTS
    Tasks = {t1, t2}
    Runs = {r1}
    Uploads = {n1}
    Camera = Camera
    NoTask = NoTask
    NoName = NoName
    Original <- Landscape
    OwnPhoto = FALSE
    LevelChoices = {"full"}
    MaxFailures = 0
SPECIFICATION FairSpec
PROPERTIES EveryStartRuns PhotoArrives
CHECK_DEADLOCK FALSE
