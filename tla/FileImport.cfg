SPECIFICATION FairSpec
CONSTANTS
    Imports = {a, b}
    Blocks = 2
    MaxActivities = 2
    NoFile = NoFile
INVARIANTS WholeFile CoreKeepsItsFile
PROPERTIES KeepsACopy ImportIsSeen
CHECK_DEADLOCK FALSE
