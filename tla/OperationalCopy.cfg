SPECIFICATION Spec
CONSTANTS
    c1 = c1
    c2 = c2
    k1 = k1
    k2 = k2
    None = None
    Cred = {c1}
    Calls = {1, 2}
    Commands = {2}
    Keys = {k1, k2}
    MaxRefs = 2
    MaxRows = 2
    MaxFiles = 3
    MaxCalls = 3
    MaxFaults = 1
INVARIANTS
    CopyInv
    
SYMMETRY KeySymmetry
CHECK_DEADLOCK FALSE
