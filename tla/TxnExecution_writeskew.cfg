CONSTANTS
    t1 = t1  t2 = t2  k1 = k1  k2 = k2
    TxIds = {t1, t2}
    Keys = {k1, k2}
    Preloaded = {}
    kEmptyTxId = kEmptyTxId
    NoKey = NoKey
    kMaxTimeStamp = 100
    MaxFaults = 0
    LostReplies = FALSE
    Program <- WriteSkew
SPECIFICATION Spec
INVARIANT TypeOK ConflictSerializable ReadCountersReleased FinishedLeavesNoDirtyVersions
PROPERTY Termination CommittedStoreRefined
