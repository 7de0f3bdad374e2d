SPECIFICATION FairParallelSpec
CONSTANTS
    Branch = {"a", "b"}
    NumCalls = 2
    Nested = {"a"}
    PlanScope = "plan"
    Nobody = "nobody"
PROPERTIES ParallelReturns
CHECK_DEADLOCK FALSE
