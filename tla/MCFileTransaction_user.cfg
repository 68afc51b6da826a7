SPECIFICATION Spec
CONSTANTS
    N = 2
    mine = mine
    theirs = theirs
    Bodies <- MCBodies
    Created <- Second
    CheckActRace = FALSE
    StaleWriters = TRUE
    MaxEdits = 2
    MaxCrashes = 2
    MaxFaults = 1
INVARIANTS UserWorkSurvives LeftoversAreJournaled
PROPERTIES RollbackRestoresAll CompleteIsFinal
