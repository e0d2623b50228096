SPECIFICATION FairSpec
CONSTANTS
    Partitions = {0, 1}
    Workers = {w1, w2}
    Splits = {s1}
    Speculative = {1}
    MaxAttempts = 2
    MaxFailures = 3
INVARIANTS
    FinishedSawEverything
    NoAttemptForgotten
    RunningUpToDate
PROPERTIES
    PartitionEnds
CHECK_DEADLOCK FALSE
