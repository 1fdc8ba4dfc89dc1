\* Two requests at a time on an account of three tokens; a token may expire,
\* and a revoked one may be presented again after the grace period.
SPECIFICATION FairSpec
CONSTANTS
    h1 = h1
    h2 = h2
    t1 = t1
    t2 = t2
    t3 = t3
    None = None
    Handlers <- MCHandlers
    Tokens <- MCTokens
    Ttl = 1
    Grace = 0
    MaxTime = 1
INVARIANTS
    TypeOK
    OneLiveToken
    KnownTokensEnd
PROPERTIES
    RevokedForGood
    ImplementsLoginSessions
    RequestsAnswered
