SPECIFICATION Spec
CONSTANTS
    k1 = k1
    k2 = k2
    CallKeys <- MCCallKeys
    Costs <- MCCosts
    maxIterations = 2
    costBudget = 1
    MaxAttempts = 2
    MaxReplays = 1
CHECK_DEADLOCK FALSE
INVARIANTS
    EffectsSound
    ClosingDuties
PROPERTIES
    LoopEnds
