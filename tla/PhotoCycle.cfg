CONSTANTS
    Tasks = {t1}
    Runs = {r1}
    Uploads = {n1}
    Camera = Camera
    NoTask = NoTask
    NoName = NoName
    Original <- Portrait
    OwnPhoto = FALSE
    LevelChoices = {"high"}
    MaxFailures = 0
SPECIFICATION FairSpec
PROPERTIES DownloadsEnd
CHECK_DEADLOCK FALSE
