SPECIFICATION HistorySpec
CONSTANTS
    one = one
    two = two
    left = left
    right = right
    main = main
    spare = spare
    note = note
    plan = plan
    x = x
    y = y
    Nil = Nil
    Torn = Torn
    Volumes = {one, two}
    Mounts <- TwoMounts
    BaseName <- SameEnd
    KeyOrder <- TwoKeys
    PathOrder <- TwoPaths
    Bytes = {x, y}
    Requests <- Asked
    Discs <- TwoDrives
    Retries = 1
    Moods = {}
    MaxClock = 2
    MaxChanges = 3
    MaxScans = 1
CHECK_DEADLOCK FALSE
INVARIANT SourceHeldStill
