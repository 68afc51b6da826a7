SPECIFICATION Spec
CONSTANTS
    Expansion = Expansion
    History = History
    flat = flat
    quine = quine
    liar = liar
    steep = steep
    None = None
    Archives <- AllArchives
    ExtractDir <- MCExtractDir
    Contents <- All
    Directory <- MCDirectory
    Size <- MCSize
    Names <- TwoStems
    Nfc <- Same
    Lower <- Same
    Drives = {}
    Unstorable = {}
    Policy <- Tight
    MaxRuns = 2
    MaxEdits = 3
    MaxFailures = 1
    one = one
    two = two
    left = left
    right = right
    main = main
    spare = spare
    note = note
    plan = plan
    x = x
    y = y
    Nil = Nil
    Torn = Torn
    Volumes = {one, two}
    Mounts <- TwoMounts
    BaseName <- SameEnd
    KeyOrder <- TwoKeys
    PathOrder <- TwoPaths
    Bytes = {x, y}
    Requests <- Asked
    Discs <- TwoDrives
    Retries = 1
    Moods = {"lie", "lock"}
    MaxClock = 2
    MaxChanges = 2
    MaxScans = 2
CHECK_DEADLOCK FALSE
INVARIANTS UserDataSurvives ExtractionsAreWhole ExtractionSurvives StraysAreAccountedFor BudgetHolds
INVARIANTS SnapshotIsOneMoment VerifiedMeansRead DiffReplays ContinuityIsClaimed
PROPERTY DryRunForetells
