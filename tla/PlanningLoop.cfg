SPECIFICATION Spec
CONSTANTS
    Request = {r1}
    Operator = {o1, o2}
    Content <- MCContent
    Text = {"plain", "gated"}
    Deviation = {"d"}
    MaxRows = 3
    MaxInstances = 2
    MaxTrace = 6
    MinInstances = 1
    Recurs = 1
    HighRate = 34
    Outcome = {"x", "y"}
    Works <- MCWorks
    Setting <- MCSetting
    MaxMid = 1
INVARIANTS TypeOK DriftHoldsBack AnswersTheLastRun SpecialistOnce
PROPERTIES Returns
CHECK_DEADLOCK FALSE
