SPECIFICATION Spec
CONSTANTS
    Plan = {"p1"}
    MaxRevision = 2
    NumSteps = 4
    Deps <- TwoGatesDeps
    OnTimeout <- TwoGatesTimeout
    Await = {1, 3}
    DefaultEvent = {1}
    Once = {2, 4}
    MaxInstances = 1
    Operator = {"o1"}
    Resumes = TRUE
    Crashes = TRUE
INVARIANTS EffectAfterRelease
CHECK_DEADLOCK FALSE
