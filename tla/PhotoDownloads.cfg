CONSTANTS
    Tasks = {t1, t2}
    Runs = {r1, r2}
    Uploads = {n1}
    Camera = Camera
    NoTask = NoTask
    NoName = NoName
    Original <- Landscape
    OwnPhoto = FALSE
    LevelChoices = {"low", "full"}
    MaxFailures = 1
SPECIFICATION Spec
SYMMETRY Symmetry
INVARIANTS TypeOK ShownFile NoReupload
PROPERTIES LockSpec
CHECK_DEADLOCK FALSE
