CONSTANTS
    t1 = t1
    t2 = t2
    serve = serve
    tick = tick
    pid1 = pid1
    pid2 = pid2
    pid3 = pid3
    Tasks = {t1}
    Procs = {serve, tick}
    Pids = {pid1, pid2, pid3}
    Free = Free
    Foreign = Foreign
    None = None
    MaxRuns = 2
    ScrutinyAfter = 0
    MaxRunAge = 1
SPECIFICATION Spec
INVARIANTS IInv LiveRowKeepsStatus OneRunPerProcess
PROPERTY NoEarlyResurrection
SYMMETRY PidSymmetry
