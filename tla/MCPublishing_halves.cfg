SPECIFICATION PublicationSpec
CONSTANTS
    Locking = Locking
    Publishing = Publishing
    a = a
    b = b
    c = c
    d = d
    x = x
    y = y
    None = None
    Procs <- MCProcs
    HostOf <- TwoHosts
    Leftover <- DeadOnes
    CutWrites = TRUE
    MaxCrashes = 1
    p1 = p1
    p2 = p2
    report = report
    readiness = readiness
    Nobody = Nobody
    Publishers <- MCPublishers
    Files <- MCFiles
    Gens <- MCGens
    Keeps <- MCKeeps
    HistoryLength = 2
    MaxPublishes = 4
    MaxStops = 2
SYMMETRY Alike
CHECK_DEADLOCK FALSE
INVARIANT CurrentIsWhole
PROPERTIES TakenOnlyFromTheDead LonersPublish OtherHostsKeepTheirs IsExclusive
PROPERTIES RetainsTheLatest IsAtomic
