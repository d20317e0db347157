SPECIFICATION Spec
CONSTANTS
    a = a
    b = b
    serve = serve
    ticker = ticker
    Tasks = {a, b}
    PathOf <- OwnFolders
    Procs = {serve, ticker}
    Kinds = {"backup", "prune", "check", "delete", "replicate"}
    Keep <- DaysOrTwo
    None = None
    MaxOps = 3
SYMMETRY Symmetry
CHECK_DEADLOCK FALSE
INVARIANTS LockInv NewestAreKept 
