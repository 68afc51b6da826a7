SPECIFICATION FairSpec
CONSTANTS
    c1 = c1
    c2 = c2
    Missing = Missing
    Fault = Fault
    None = None
    Docs <- Four
    Kind <- Kinds
    Size <- Sizes
    Limit = 3
    Memory = 3
    Contents <- TwoContents
    Undecodable <- OneRefused
    PartFaults = FALSE
    MaxRuns = 1
    MaxEdits = 0
    MaxFaults = 1
CHECK_DEADLOCK FALSE
INVARIANT BudgetHolds
PROPERTY StageEnds
