\* Two calls with one retry each against a limit of one attempt per window; a window below
\* and one above the age of the sweep.
SPECIFICATION Spec
CONSTANTS
  Calls = {1, 2}
  Slugs = {"team"}
  Names = {"p"}
  MaxRetries = 1
  RateLimitMax = 1
  Windows = {1, 3}
  CleanupAge = 2
  MaxMinute = 3
  MaxRuns = 5
INVARIANTS
  AnswersTrue
  ListPages
  LimitsHold
PROPERTIES
  
  CallReturns
CHECK_DEADLOCK FALSE
