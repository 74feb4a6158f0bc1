CONSTANTS
    t1 = t1  t2 = t2  k1 = k1  k2 = k2
    TxIds = {t1}
    Keys = {k1}
    Preloaded = {}
    kEmptyTxId = kEmptyTxId
    NoKey = NoKey
    kMaxTimeStamp = 100
    MaxFaults = 0
    LostReplies = FALSE
    Program <- ReadUpsert
SPECIFICATION Spec
INVARIANT SoloTransactionCommits
