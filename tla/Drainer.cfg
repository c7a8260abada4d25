SPECIFICATION FairSpec
CONSTANTS
    k = k
    v = v
    w = w
    id1 = id1
    id2 = id2
    j1 = j1
    j2 = j2
    FilterKeys = {k}
    Values = {v, w}
    NoValue = NoValue
    IDs = {id1, id2}
    Kinds <- MCKinds
    Offline = Offline
    Jobs = {j1, j2}
    NoJob = NoJob
    JobInputs <- MCInputs
    BatchSize = 2
    MaxChanges = 1
CHECK_DEADLOCK FALSE
INVARIANTS
    ProgressBounded
    ActiveIsCurrent
    DrainsItsShare
PROPERTY
    JobEnds
