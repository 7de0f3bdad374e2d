SPECIFICATION Spec
CONSTANTS
    Thread = {t1, t2}
    Content = {"a", "b", "far"}
    Layouts <- MCLayouts
    Hinted <- MCHinted
    Far = "far"
    Statuses = {"active", "pending_review"}
    Relation = {"related_to", "contradicts", "supports"}
    HintType = "contradicts"
    MaxTrees = 3
    MaxEdges = 4
    Budgets <- MCBudgets
    Similar <- MCSimilar
    Opposed <- MCOpposed
    Labelled <- MCLabelled
    Drifting <- MCDrifting
    Kinds = {"label", "vector", "contradiction", "confirmed"}
    ByHand = {"contradicts"}
    Symmetric = {"related_to", "contradicts"}
    RelationOf <- MCRelationOf
    Cursors <- MCCursors
    FocusLimit = 2
    PerNode = 2
SYMMETRY Symmetry
INVARIANTS TypeOK TreesAreWhole EdgesFollow VerdictsHaveEffect
PROPERTIES FailedRebuildLeavesNoTrace
CHECK_DEADLOCK FALSE
