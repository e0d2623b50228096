SPECIFICATION Spec
CONSTANTS
    Sizes <- MCSizes
    Room <- OneBlock
    Scenarios <- Cancellation
    Preemptive = TRUE
INVARIANT LeasesHaveOwners
CHECK_DEADLOCK FALSE
