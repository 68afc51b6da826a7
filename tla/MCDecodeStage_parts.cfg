SPECIFICATION Spec
CONSTANTS
    c1 = c1
    c2 = c2
    Missing = Missing
    Fault = Fault
    None = None
    Docs <- Pair
    Kind <- Kinds
    Size <- Sizes
    Limit = 1
    Memory = 4
    Contents <- TwoContents
    Undecodable <- OneRefused
    PartFaults = TRUE
    MaxRuns = 1
    MaxEdits = 0
    MaxFaults = 1
CHECK_DEADLOCK FALSE
INVARIANT CacheIsTrue
