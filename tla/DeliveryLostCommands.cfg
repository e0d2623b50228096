SPECIFICATION Spec
CONSTANTS
    Partitions = {0, 1}
    Workers = {w1, w2}
    Splits = {s1, s2, s3}
    Speculative = {1}
    MaxAttempts = 2
    MaxFailures = 1
INVARIANTS
    NoSplitLost
CHECK_DEADLOCK FALSE
