SPECIFICATION Spec
CONSTANTS
    n1 = n1
    n2 = n2
    n3 = n3
    None = None
    Tasks <- EveryPolicy
    Names = {n1, n2, n3}
    ReusedNames = {}
    Sizes = {2}
    Partial = 1
    Deletable = {"Success"}
    MaxRuns = 3
    MaxDumps = 3
    MaxDay = 2
SYMMETRY NameSymmetry
CHECK_DEADLOCK FALSE
INVARIANTS FilesInv  
PROPERTIES LaterDumpExists
