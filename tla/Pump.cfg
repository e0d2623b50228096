SPECIFICATION FairSpec
CONSTANTS
    Queries = {1, 2}
    Classes = {"STANDARD", "SPECULATIVE"}
    Slots = 1
    MaxTasks = 2
    OtherDrainers = {1}
    MaxRequests = 1
INVARIANTS
    NoStrandedCapacity
PROPERTIES
    PendingTaskStarts
CHECK_DEADLOCK FALSE
