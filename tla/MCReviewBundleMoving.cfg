SPECIFICATION Spec
CONSTANTS
    f = f  g = g  h = h  old = old  new = new 
    Procs = {"p"}
    Paths = {f, g, h}
    Scope = {f, g}
    Contents = {old, new}
    Missing = Missing
    Symlink = Symlink
    None = None
    History <- MCHistory
    MaxCommits = 3
    MaxMoves = 3
    MaxCalls = 2
CHECK_DEADLOCK FALSE
INVARIANTS MovingTreeRejected
