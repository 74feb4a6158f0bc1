\* As RuntimeExecutor.cfg: two Wait()ing sessions over two slots, each running
\* a committed and an aborted transaction; the client's read of its Result
\* after Wait() returns is a step of its own.
CONSTANTS
    Sessions = {0, 1}
    SlotCount = 2
    Capacity = 2
    Prog <- TwoTxns
    Pipelined = FALSE
    IntMax = 9
    ExecutorCount = 2
    ExecutorId = 0
SPECIFICATION Spec
INVARIANT ResultReadIsOwn
