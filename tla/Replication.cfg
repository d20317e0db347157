SPECIFICATION FairSpec
CONSTANTS
    tick = tick
    serve = serve
    Contents = {"db_dumps", "restic_repo"}
    Tick = tick
    Manual = {serve}
    MaxRuns = 3
    MaxFaults = 2
    Recent = 2
INVARIANTS IInv CopiedOrWanted
PROPERTIES SyncsAreSpaced EventuallyCopied
