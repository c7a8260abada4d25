SPECIFICATION FairSpec
CONSTANTS
    p = p
    q = q
    r = r
    NoFilter = NoFilter
    Obfuscated = Obfuscated
    Parts = {"semaphore", "capacitor", "listener", "limiter", "cache", "pool", "keys", "hooks",
             "start", "argus", "sns", "health", "kv", "list", "statistics", "metadata", "admin",
             "tokens", "fanout", "decorators", "client", "tasks", "server", "capabilities", "metrics", "issuer"}
CHECK_DEADLOCK FALSE
INVARIANTS
    Conserved
    DelayersOrderly
    
    
    AnswersHonest
    TokensJudged
    DoneIsLast

    
    
