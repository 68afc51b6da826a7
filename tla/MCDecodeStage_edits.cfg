SPECIFICATION Spec
CONSTANTS
    c1 = c1
    c2 = c2
    Missing = Missing
    Fault = Fault
    None = None
    Docs <- Three
    Kind <- Kinds
    Size <- Sizes
    Limit = 2
    Memory = 4
    Contents <- TwoContents
    Undecodable <- OneRefused
    PartFaults = FALSE
    MaxRuns = 2
    MaxEdits = 2
    MaxFaults = 1
CHECK_DEADLOCK FALSE
INVARIANTS CacheIsTrue ReportIsTrue CompletedIsStored
