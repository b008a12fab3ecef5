\* Four callers for two slots, one of them without a timeout: two callers can be queued behind
\* two runners, and a time-out can hit either end of the queue.
SPECIFICATION Spec
CONSTANTS
  Proc = {c1, c2, c3, c4}
  Patient = {c1}
  max = 2
PROPERTIES
  ImplementsSlotPool
  EveryWaiterLeaves
