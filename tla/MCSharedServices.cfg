SPECIFICATION Spec
CONSTANTS
  Workers = {w1, w2, w3}
  QuotaLimit = 2
  WindowTicks = 1
  WaitTicks = 2
  MaxLosses = 1
  Callers = {c1, c2}
  Amounts = {1}
  Limits = {0, 2}
  DefaultLimit = 1
  MaxDay = 2
  MaxUse = 2
  Requests = {q1, q2, q3}
  MaxVersion = 4
  MaxEntries = 3
  ChainCap = 2
  MaxRetries = 2
  MaxRestarts = 1
  Traces = {"w", "x", "y", "z"}
  TraceCap = 2
  MaxExports = 6
  Executions = {e1}
  Creates = {p1, p2}
  PollLimit = 2
  InitCommands = 1
  MaxPods = 3
  MaxK8sRestarts = 1
  FlagProcs = {f1}
  FlagInputs <- FlagInputsMC
  MaxFlagWrites = 3
  SloSamples <- SamplesMC
  MaxHistory = 2
  SloWindow = 1
  BurnWindows = {0, 1, 2}
  AllowedPart = 10
  LatencyTarget = 3
  MaxClock = 2
  MaxSamples = 4
  Providers = {"anthropic", "ollama", "openai"}
  Streams <- StreamsMC
  PromptTokens = 7
  Approvers = {a1, a2}
  MaxSignals = 3
  MeterAmounts = {1, 2}
  TokenLimits = {1, 3}
  RequestLimits = {1, 2}
  DayTicks = 4
  MinuteTicks = 2
  MaxMeterClock = 6
  MaxGrants = 4
  AgentIds = {1, 2, 3, 4}
  PageSizes = {0, 1, 3}
  DefaultSize = 2
  LargestSize = 2
  MaxChanges = 3
INVARIANTS
  GateTruthful
  ReportSpeaksForAll
  FramesInOrder
  BudgetsHold
  NoWriteLostOnceUpgraded
  TrailIntact
  AgentsWalked
  ReplayComplete
PROPERTIES
  QuotaServes
  PollingEnds
  FlagsConverge
CHECK_DEADLOCK FALSE
