CONSTANTS
    PlanName <- MCPlan
    Id = {"a", "b", "c", "d", "e", "f", "g", "h", "i", "k", "m", "n", "o", "p", "q", "r", "s", "t", "u", "v", "w", "x", "y", "z"}
    StepIn <- MCStepIn
    Requested <- MCRequested
    RevisedBy <- MCRevisedBy
    Signalled <- MCSignalled
    WebEnabled = TRUE
    FocusGiven = FALSE
    Continued <- MCContinued
SPECIFICATION InterpretSpec
INVARIANTS InterpretTypeOK OkMeansNothingLeft
PROPERTIES CallsAreDue Terminates
CHECK_DEADLOCK FALSE
