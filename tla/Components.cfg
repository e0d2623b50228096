SPECIFICATION MCSpec
CONSTANTS
    Tasks <- MCTasks
    QueryOf <- MCQueryOf
    Memory <- MCMemory
    MemoryBudget = 3
    MaxRunningTasks = 2
    MaxDropped = 2
    MaxCreates <- MCCreates
INVARIANTS
    SplitsDelivered
    PartitionsSealed
    PartitionsBalanced
    QueueIsExact
    CapacityRespected
    SlotsComeBack
    NoIdleQueue
    FinishedIsVisible
CHECK_DEADLOCK FALSE
