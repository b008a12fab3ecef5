SPECIFICATION MCSpec
CONSTANTS
    NumWrites = 3
    maxQueueSize = 2
    maxAttempts = 2
    Types = {"working", "semantic"}
    Keys <- MCKeys
    Safe <- MCSafe
    Readers = {r1}
    MaxDeletes = 1
CHECK_DEADLOCK FALSE
INVARIANTS
    QueueFaithful
    DeletedStaysDeleted
PROPERTIES
    Converges
