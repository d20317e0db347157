SPECIFICATION FairBackupsSpec
CONSTANTS
    Drive = {gd}
    Local = {ld}
    Folders = {f1, f2}
    DriveKeeps = {2}
    LocalKeeps = {1}
    Calls = {1, 2, 3}
    Commands = {3}
    MaxTargetRuns = 3
    MaxEvents = 1
    SpoiltInRace = FALSE
INVARIANT BackupsInv
PROPERTY PrunedForNewer
PROPERTY SweepEnds
CHECK_DEADLOCK FALSE
