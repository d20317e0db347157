SPECIFICATION TransferSpec
CONSTANTS
    A = A
    B = B
    s1 = s1
    t1 = t1
    t2 = t2
    d1 = d1
    d2 = d2
    k1 = k1
    k2 = k2
    r1 = r1
    f1 = f1
    f2 = f2
    g1 = g1
    x1 = x1
    c1 = c1
    p1 = p1
    p2 = p2
    u1 = u1
    i1 = i1
    None = None
    Client = {A, B}
    BackupSet = {s1}
    Transport = {t1, t2}
    Connection = {d1, d2}
    Task = {k1, k2}
    Repository = {r1}
    FileTask = {f1, f2}
    Target = {g1}
    Destination = {x1}
    Credential = {c1}
    Item = {i1}
    Url = {u1}
    Keyed = {t1, t2}
    Owner <- MCOwner
    Uses <- MCUses
    Names <- MCNames
    Later = {d2, k2, t2}
    Restores = {p1, p2}
    MaxEdits = 2
    MaxCrashes = 1
INVARIANTS
    RestoreInv
    StableIsRestored
    
SYMMETRY CallSymmetry
CHECK_DEADLOCK FALSE
