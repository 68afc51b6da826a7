SPECIFICATION FairSpec
CONSTANTS
    N = 2
    mine = mine
    theirs = theirs
    Bodies <- MCBodies
    Created <- Second
    CheckActRace = FALSE
    StaleWriters = FALSE
    MaxEdits = 1
    MaxCrashes = 1
    MaxFaults = 1
PROPERTIES IsAtomic PendingIsResolved RunsEnd
