SPECIFICATION Spec
CONSTANTS
    w1 = w1
    w2 = w2
    a = a
    b = b
    c = c
    old = old
    new = new
    wide = wide
    mute = mute
    None = None
    Workers = {w1, w2}
    Docs <- ThreeDocs
    Chunks <- Cut
    Revisions = {old, new, wide, mute}
    Dimension <- Lengths
    Reported <- Names
    Cached = TRUE
    Parts = 1
    MaxPasses = 2
    MaxUpgrades = 2
CHECK_DEADLOCK FALSE
INVARIANTS OneRevisionAnswers NothingHalfEmbedded
PROPERTIES EveryPassEnds
