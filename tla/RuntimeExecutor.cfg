\* Executor 1 of 3, its ids 2..3 (INT64_MAX scaled to 8): the second
\* transaction's id is the wrap back to start_.
\* Sessions 0 and 1 (0 is also the session_id_ of a slot never used), two
\* slots, a queue of two entries, clients that Wait() for each result and
\* run one transaction each: the one workload under which a session's
\* requests always find its own slot.
CONSTANTS
    Sessions = {0, 1}
    SlotCount = 2
    Capacity = 2
    Prog <- OneTxn
    Pipelined = FALSE
    IntMax = 8
    ExecutorCount = 3
    ExecutorId = 1
SPECIFICATION Spec
INVARIANT TypeOK LaunchNeverThrows TxnIdsUnique
PROPERTY Termination
