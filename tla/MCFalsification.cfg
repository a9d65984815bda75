SPECIFICATION Spec
CONSTANTS
    Null = Null
    Huge = Huge
    MaxSteps = 4
CHECK_DEADLOCK FALSE
INVARIANTS EachProblemReported
PROPERTIES NeverBetter
