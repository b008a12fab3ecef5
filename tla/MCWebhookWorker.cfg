SPECIFICATION Spec
CONSTANTS
    l1 = l1
    l2 = l2
    Loops <- MCLoops
    NumDeliveries = 2
    BATCH_SIZE = 2
    maxAttempts = 2
    MaxFaults = 1
INVARIANTS
    NotGivenUpEarly
PROPERTIES
    EveryDeliverySettles
