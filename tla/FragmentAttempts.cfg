CONSTANTS
    MaxAttempts = 3
    Workers = {w1, w2}
    NoWorker = NoWorker
    Partitions = {p1}
    InitialClasses = {"STANDARD", "SPECULATIVE"}
    Reserving = TRUE
    MaxAssignments = 2
SPECIFICATION MCSpec
CHECK_DEADLOCK FALSE
INVARIANTS
    AtMostOneRunningAttempt
    NoStrandedPartition
    FragmentFailsWithPartition
    SelectedAttemptFinished
    SealRaisesOnlyAfterFailure
PROPERTIES
    ReservedPartitionsEnd
    AttemptNumbersAreFresh
    TerminalPartitionsAreFinal
