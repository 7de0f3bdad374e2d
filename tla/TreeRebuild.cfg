SPECIFICATION Spec
CONSTANTS
    Text <- Words
    First <- Base
    Proposals <- Parses
    MaxId = 5
    MaxRuns = 2
    MaxActs = 1
INVARIANTS KeysAreUnique RollbackRestores RebuildIsRight
CHECK_DEADLOCK FALSE
