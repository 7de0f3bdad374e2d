SPECIFICATION FairSpec
CONSTANTS
    NumNodes = 3
    BatchLimit = 2
    Worker = {"w1", "w2"}
    MaxRequeues = 2
INVARIANTS CursorCovers CompletedCovers
PROPERTIES JobSettles
CHECK_DEADLOCK FALSE
