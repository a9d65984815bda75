SPECIFICATION Spec
CONSTANTS
    p = p  q = q
    Procs = {p, q}
    NumTasks = 2
    Bounds <- MCBounds
    Missing = Missing
    Torn = Torn
SYMMETRY Symmetric
CHECK_DEADLOCK FALSE
INVARIANTS TypeOK  ReceiptsAreStable ZeroIsWhole VerifierIsRecorded
