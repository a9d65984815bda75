SPECIFICATION Spec
CONSTANTS
    Null = Null  Huge = Huge  Garbage = Garbage  Nested = Nested
    Missing = Missing  Symlink = Symlink  None = None
    Names = {1, 2}
    MaxBytes = 1
    LinkTarget <- MCLinkTarget
    Starts <- MCStarts
    Validators = {"v", "w"}
    Drafters = {"d"}
    Contents <- MCContents
    MaxBatch = 2
    Bounds <- MCOne
CHECK_DEADLOCK FALSE
INVARIANTS OneMeansHold
