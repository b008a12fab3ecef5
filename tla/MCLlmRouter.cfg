SPECIFICATION Spec
CONSTANTS
    r1 = r1
    r2 = r2
    r3 = r3
    agent = agent
    gpt = gpt
    claude = claude
    openai = openai
    anthropic = anthropic
    Requests <- MCRequests
    Streaming <- MCStreaming
    Agents <- MCAgents
    Agent <- MCAgent
    Models <- MCModels
    Preferred <- MCPreferred
    Providers <- MCProviders
    detectProvider <- MCDetectProvider
    QuietOnAbort <- MCQuietOnAbort
    FALLBACK_CHAIN <- MCChain
    maxRetries <- MCMaxRetries
    MAX_CONCURRENT = 1
    maxRequests = 2
    Prompts <- MCPrompts
CHECK_DEADLOCK FALSE
INVARIANTS
    UpstreamBounded
PROPERTIES
    TrialSettles
    EveryRequestAnswered
