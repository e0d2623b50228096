SPECIFICATION MCSpec
CONSTANTS
    Submitters = {"submitter"}
    Notifiers = {"watcher"}
    Timers = {"timer"}
    SourceIds = {"source"}
    SourceOf <- MCSourceOf
    HighWatermark = 1
    LowWatermark = 0
    WorkerIds = {"w1", "w2"}
    AdmissionClasses = {"STANDARD"}
    Loads <- MCLoads
INVARIANTS
    SingleWriter
    NoLostEvent
PROPERTIES
    QueueDrains
    RetryDelayHandled
    WorkerQueuedTaskLeaves
CHECK_DEADLOCK FALSE
