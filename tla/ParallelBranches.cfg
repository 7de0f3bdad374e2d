SPECIFICATION FairParallelSpec
CONSTANTS
    Branch = {"a", "b"}
    NumCalls = 2
    Nested = {}
    PlanScope = "plan"
    Nobody = "nobody"
INVARIANTS CallsAreSerial JoinedAtMerge
PROPERTIES ParallelReturns
CHECK_DEADLOCK FALSE
