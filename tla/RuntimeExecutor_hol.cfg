\* Two sessions that Wait() for each result, one slot. Run returning is a
\* final state here, so a stop short of the last result shows as a
\* violation of Termination.
CONSTANTS
    Sessions = {0, 1}
    SlotCount = 1
    Capacity = 2
    Prog <- OneTxn
    Pipelined = FALSE
    IntMax = 9
    ExecutorCount = 2
    ExecutorId = 0
SPECIFICATION Spec
PROPERTY Termination
CHECK_DEADLOCK FALSE
