SPECIFICATION Spec
CONSTANTS
    c1 = c1
    c2 = c2
    c3 = c3
    t1 = t1
    t2 = t2
    Calls <- MCCalls
    Terminators <- MCTerminators
    Execution <- MCExecution
    Namespace <- MCNamespace
    TNamespace <- MCTNamespace
    maxContainers = 1
    MaxRestarts = 1
CHECK_DEADLOCK FALSE
INVARIANTS
    LimitHolds
PROPERTIES
    EveryCreateAnswered
