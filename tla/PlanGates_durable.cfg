SPECIFICATION Spec
CONSTANTS
    Plan = {"p1"}
    MaxRevision = 1
    NumSteps = 3
    Deps <- BesideDeps
    OnTimeout <- BesideTimeout
    Await = {1}
    DefaultEvent = {1}
    Once = {2}
    MaxInstances = 1
    Operator = {"o1"}
    Resumes = FALSE
    Crashes = FALSE
PROPERTIES SignalIsDurable
CHECK_DEADLOCK FALSE
