SPECIFICATION Spec
CONSTANTS
    Node = {1, 2, 3}
    Query = {"q", "own"}
    Asked = "q"
    Corpus <- MCCorpus
    Around <- MCAround
    Hidden = {2}
    Decisions <- MCDecisions
    WeakScore = 2
    MatchLimit = 2
    MaxIterations = 3
    Returned <- MCReturned
    Text <- MCText
    Header <- MCHeader
    Titled = {1}
    Encoded <- MCEncoded
    DeepIterations = 3
    Shortlist = 2
    Novelty = 2
    SufficiencyStop = 90
    PlateauFloor = 50
    PlateauPasses = 1
    PlateauEpsilon = 5
    Scores = {30, 60, 95}
    Document = {"d", "e"}
    MinScore = 2
    Setting <- MCSetting
    MaxCrashes = 1
INVARIANTS TypeOK AnsweredOnce RunTellsOutcome PromptIsHonest LoopsAreDisciplined
PROPERTIES Returns
CHECK_DEADLOCK FALSE
