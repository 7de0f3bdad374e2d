SPECIFICATION FairSpec
CONSTANTS
    MaxTurns = 2
    Session = {"s"}
    SessionOf <- MCSessionOf
    Text <- MCText
    Content = {"c"}
    Blank = "blank"
    Wordless = {}
    Node = {"n"}
    Rejected = {"n"}
    DocumentOf <- MCDocumentOf
    Uses <- MCUses
    Processor = {"p1", "p2"}
    Worker = {"w1", "w2"}
    FeatureSets = {{"output"}, {"recall"}, {"chunking"}}
    Limit = 2
    MaxRestarts = 1
INVARIANTS TypeOK OutputIsStored OneIsLatest
PROPERTIES OutputLifecycle EveryTurnIsTried
CHECK_DEADLOCK FALSE
