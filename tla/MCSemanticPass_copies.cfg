SPECIFICATION SemanticSpec
CONSTANTS
    Features <- Library
    NearOf <- NearScores
    CosineOf <- Cosines
    PlaceOf <- FourPlaces
    Idf <- InverseFrequency
    Unit = 1000
    PostingCeiling = 2
    MostPhrases = 2
    Terminal = {"done"}
    Active = {"wip"}
    Budget <- SmallPack
    MostPlaced = 3
CHECK_DEADLOCK FALSE
INVARIANT CopiesNeedNoReasoner
