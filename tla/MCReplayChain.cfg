SPECIFICATION Spec
CONSTANTS
    p = p  q = q
    Procs = {p, q}
    NumTasks = 2
    Bounds <- MCTwo
    Missing = Missing
    Torn = Torn
SYMMETRY Symmetric
CHECK_DEADLOCK FALSE
INVARIANTS ContinuousChain
