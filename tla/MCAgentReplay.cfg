SPECIFICATION Spec
CONSTANTS
    NumTasks = 2
    Missing = Missing
    Torn = Torn
    MaxEdits = 3
CHECK_DEADLOCK FALSE
INVARIANTS TypeOK PatchedIsRequestedPlusPatch ReceiptsAreStable VerdictIsTrue
