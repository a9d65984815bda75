SPECIFICATION FairSpec
CONSTANTS
    a = a  b = b  c = c  d = d  old = old  new = new  p = p  q = q
    Procs = {p}
    caller = p
    Paths = {a, b, c}
    Allowed = {a, b}
    Dirs = {d}
    DirOf <- MCDirOf
    Contents = {old, new}
    Partial = Partial
    Modes <- MCModes
    ExecModes = {"755"}
    Private = "600"
    Starts <- MCStarts
    Proposals <- MCProposals
    MaxFiles = 2
    MaxEdits = 1
    MaxCalls = 4
    Missing = Missing
    Symlink = Symlink
CHECK_DEADLOCK FALSE
INVARIANTS TypeOK PrefixApplied 
PROPERTIES OnlyApprovedFilesChange AppliedOnce CallReturns ContractSpec
