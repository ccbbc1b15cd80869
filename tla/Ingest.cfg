SPECIFICATION FairSpec
CONSTANTS
    None = None
    Requests = {q1, q2}
    Merchants = {m1, m2}
    Records = {v1, v2, bad}
    InvalidRecords = {bad}
    MAX_BATCH_SIZE = 2
    MaxTime = 1
INVARIANT
    IngestInv
PROPERTIES
    BatchLandsWhole
    EveryRequestEnds
