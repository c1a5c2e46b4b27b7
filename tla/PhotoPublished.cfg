CONSTANTS
    Tasks = {t1, t2}
    Runs = {r1, r2}
    Uploads = {n1, n2, n3}
    Camera = Camera
    NoTask = NoTask
    NoName = NoName
    Original <- Landscape
    OwnPhoto = TRUE
    LevelChoices = {"full"}
    MaxFailures = 0
SPECIFICATION Spec
SYMMETRY Symmetry
INVARIANTS PublishedExists
CHECK_DEADLOCK FALSE
