\* Sessions 0 and 1, two transactions each, two slots: four transactions
\* compete for the slots, so Begins wait for a slot in the buffer, and
\* Advance runs several passes.
\* Executor 1 of 3 (INT64_MAX scaled to 13): its ids 5, 6, 7, then 4;
\* executor 2 starts at 8.
CONSTANTS
    Sessions = {0, 1}
    SlotCount = 2
    Prog <- TwoTxnsDs
    DataStoreDriver = TRUE
    IntMax = 13
    ExecutorCount = 3
    ExecutorId = 1
SPECIFICATION Spec
INVARIANT TypeOK LaunchRequestsSafe TxnIdsUnique
PROPERTY Termination
