SPECIFICATION Spec
CONSTANTS
    Corpora = Corpora
    Preflight = Preflight
    Meaning = Meaning
    Carriers = Carriers
    Cache = Cache
    Inventory = Inventory
    Governed = Governed
    CorpusShapes <- Shapes
    EntryShapes <- EntryKinds
    Longest = 3
    Terms = {1, 2, 3, 4}
    Scale = 5
    Salient = 3
    CeilingFrom = 3
    CeilingOf <- Half
    Thresholds = {0, 1, 2, 3, 4, 5}
    Nfc <- Composed
    Lower <- Folded
    Drives = {"C:"}
    Unstorable = {"!"}
    Policy <- Limits
    Documents = {"a", "b"}
    Roots = {"r", "s"}
    RootPaths = {"p", "q"}
    Transcripts <- TwoTranscripts
    Workers = {1, 2}
    NoEntry = NoEntry
    MaxLosses = 1
    WalkOrder <- FolderTextArchive
    KindOf <- KindByName
    Bodies = {"A", "B"}
    Notes = {"note"}
    Nows = {1, 2}
    Absent = Absent
    MaxTime = 10
    MaxTouches = 2
    MaxRuns = 3
    Paths <- TwoPaths
    Rank <- ByName
    IdOf <- IdByForm
    Scopes <- AllScopes
    Rules <- AllowedOrNot
    Forms <- AllForms
    IndexActs = {"drop", "torn", "v2", "missing"}
    MaxActs = 1
    MaxBegun = 3
    None = None
    Features <- Library
    NearOf <- NearScores
    CosineOf <- Cosines
    PlaceOf <- FourPlaces
    Idf <- InverseFrequency
    Unit = 1000
    PostingCeiling = 2
    MostPhrases = 2
    Terminal = {"done"}
    Active = {"wip"}
    Budget <- SmallPack
    MostPlaced = 4
    Tallest = 4
    Header <- IdAndCookie
    Nowhere = Nowhere
    Markdown = Markdown
    KeyOrder <- TwoFields
    Legible <- OnTheirOwn
    LegibleInline <- Plainly
CHECK_DEADLOCK FALSE
INVARIANTS ReferencesAgree InterpretationsAreCurrent CarriersTellTheTruth
PROPERTIES RunsSettle AppliedIsCurrent AppliesKeepToTheirScope PassedMeansClean AppliedStaysClean
