SPECIFICATION WatchSpec
CONSTANTS
    NotJson = NotJson
    Null = Null
    Files <- MCFiles
    NoFile = NoFile
    Unseen = Unseen
    MaxEdits = 2
    MaxReads = 2
INVARIANTS
    SeenIsInForce
PROPERTIES
    ReadEditsTakeEffect
CHECK_DEADLOCK FALSE
