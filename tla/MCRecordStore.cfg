CONSTANTS
    a1 = a1
    a2 = a2
    Account = {a1, a2}
    InitWatched = {}
    ChunkSize = 1
    MaxGap = 1
    Dense = 0
    Retention = 2
    Bucket = 2
    MaxLag = 1
    MaxSlot = 2
    None = None
SPECIFICATION Spec
SYMMETRY Symmetry
INVARIANTS TypeOK ClaimSound
CHECK_DEADLOCK FALSE
