\* One session that Wait()s for each result, two slots, running a committed
\* and then an aborted transaction.
CONSTANTS
    Sessions = {1}
    SlotCount = 2
    Capacity = 2
    Prog <- TwoTxns
    Pipelined = FALSE
    IntMax = 9
    ExecutorCount = 2
    ExecutorId = 0
SPECIFICATION Spec
INVARIANT RoutedToOwnTxn
