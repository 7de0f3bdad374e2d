SPECIFICATION FairSpec
CONSTANTS
    NoFile = "none"
    File = {"f1"}
    Content <- MCContent
    ContentOf <- MCContentOf
    Worker = {"w1", "w2"}
    Caller = {"e1", "e2"}
    MaxJobs = 2
    MaxAttempts = 2
    Crashes = TRUE
INVARIANTS ExclusiveJob OneDocumentPerChecksum CompletedIsStored
PROPERTIES LifecycleSpec PendingIsSettled
CHECK_DEADLOCK FALSE
