SPECIFICATION Spec
CONSTANTS
    Sizes <- MCSizes
    Room <- OneBlock
    Scenarios <- MCScenarios
    Preemptive = FALSE
INVARIANTS LeasesHaveOwners StreamContract
PROPERTY StreamsEnd
CHECK_DEADLOCK FALSE
